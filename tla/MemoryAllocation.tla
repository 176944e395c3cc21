-------------------------- MODULE MemoryAllocation --------------------------
(***************************************************************************)
(* MemoryAllocation.h: how the memory limit is shared between the CPU and   *)
(* the OpenCL devices.  Ratios are in percent; the code multiplies by a     *)
(* double and truncates.                                                   *)
(***************************************************************************)
EXTENDS Naturals

CONSTANT AccumulatorBytes   \* bytes per accumulator, on the CPU and in OpenCL

ASSUME AccumulatorAssumption == AccumulatorBytes \in Nat \ {0}

ProcessingModes == {"single_thread", "smp", "opencl_devices", "all"}

CpuRuntimeRatio == 30
CpuMemoryRatio  == 50
ClRuntimeRatio(nClDevices) ==
    IF nClDevices >= 4 THEN 88 ELSE <<0, 66, 75, 88>>[nClDevices + 1]

UsesCl(mode) == mode \in {"opencl_devices", "all"}

\* Memory for all buffers.
BufferMemory(mode, nClDevices, limit) ==
    LET runtime == IF UsesCl(mode) THEN ClRuntimeRatio(nClDevices) ELSE CpuRuntimeRatio
    IN  (limit * (100 - runtime)) \div 100

\* Without a device to share with, the CPU gets all of it.
CpuOnly(mode, nClDevices) == ~UsesCl(mode) \/ (mode = "all" /\ nClDevices = 0)

CpuBuffer(mode, nClDevices, limit) ==
    LET buffers == BufferMemory(mode, nClDevices, limit)
    IN  CASE CpuOnly(mode, nClDevices) -> buffers
          [] ~CpuOnly(mode, nClDevices) /\ mode = "all" -> (buffers * CpuMemoryRatio) \div 100
          [] OTHER -> 0

\* Mutant: the share of the CPU is not taken off.
ClHostBufferOfAll(mode, nClDevices, limit) ==
    IF CpuOnly(mode, nClDevices) THEN 0
    ELSE (BufferMemory(mode, nClDevices, limit) \div nClDevices) \div 2

\* Per device, half of its share: the device may keep its buffer in the same
\* memory.
ClHostBuffer(mode, nClDevices, limit) ==
    IF CpuOnly(mode, nClDevices) THEN 0
    ELSE LET devices == BufferMemory(mode, nClDevices, limit)
                           - CpuBuffer(mode, nClDevices, limit)
         IN  (devices \div nClDevices) \div 2

BuildMemoryConfig(mode, nClDevices, limit) ==
    [maxCpuBuffer    |-> CpuBuffer(mode, nClDevices, limit),
     maxClHostBuffer |-> ClHostBuffer(mode, nClDevices, limit)]
=============================================================================
