\* Of the monitor: two devices that are each other's GPU to NVML, two starts, readings told apart from the two before.
\* Of the harness: two lines of four kinds, two samples; a query's timeout is as long
\* as the interval, as both are by default (5 s), and the join's is one longer.
CONSTANTS
  d0 = d0
  d1 = d1
  g0 = g0
  g1 = g1
  Devices <- MCDevices
  NoDevice = NoDevice
  Gpus <- MCGpus
  NoGpu = NoGpu
  CudaGpu <- MCCudaGpu
  NvmlGpu <- MCNvmlGpu
  MaxCalls = 2
  MaxReadings = 3
  Lines <- MCLines
  ShareDiff = 2
  QueryTimeout = 2
  Interval = 2
  MaxLines = 2
  MaxSamples = 2
SPECIFICATION TelemetrySpec
INVARIANTS BenchTypeOK SampleIsOneReading NoThreadLeft WorkIsCredited SummaryIsWhole OrphanOnlyByError
PROPERTIES StopReturns ABenchEnds
