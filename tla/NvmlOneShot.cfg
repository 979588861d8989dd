CONSTANTS
  d0 = d0
  d1 = d1
  g0 = g0
  g1 = g1
  Devices <- MCDevices
  NoDevice = NoDevice
  Gpus <- MCGpus
  NoGpu = NoGpu
  CudaGpu <- MCCudaGpu
  NvmlGpu <- MCNvmlGpu
  MaxCalls = 1
  MaxReadings = 1
SPECIFICATION Spec
INVARIANT OneShotIsLive
