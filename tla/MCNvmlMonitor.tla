---------------------------- MODULE MCNvmlMonitor ----------------------------
(***************************************************************************)
(* Model checking of NvmlMonitor on a host with two GPUs, which CUDA and    *)
(* NVML number in opposite orders (CUDA puts the fastest first, NVML        *)
(* follows the bus).                                                        *)
(***************************************************************************)
EXTENDS NvmlMonitor

CONSTANTS d0, d1, g0, g1

MCDevices == {d0, d1}
MCGpus    == {g0, g1}
MCCudaGpu == [d \in MCDevices |-> IF d = d0 THEN g0 ELSE g1]
MCNvmlGpu == [d \in MCDevices |-> IF d = d0 THEN g1 ELSE g0]
=============================================================================
