-------------------------------- MODULE Pci ---------------------------------
(***************************************************************************)
(* pci_enumerate_devices of drivers/pci.c: three nested loops over buses,  *)
(* devices and functions that stop when the caller's array is full.  One   *)
(* test of a device or of a function is one step.  The configuration space *)
(* is external: which functions answer, and which devices say that they    *)
(* have several.                                                           *)
(***************************************************************************)
EXTENDS Integers, Sequences

CONSTANTS Buses, Devs, Fns,   \* 256, 32 and 8
          MaxArray            \* bound: entries of the caller's array

SizesOK == {Buses, Devs, Fns} \subseteq Nat \ {0} /\ MaxArray \in Nat

VARIABLES
  present,       \* functions that answer with a vendor
  multi,         \* devices whose header type has bit 7
  max_devices,
  bus, dev,
  fn,            \* -1 outside the inner loop
  devices, pc

hardware == <<present, multi, max_devices>>
vars == <<hardware, bus, dev, fn, devices, pc>>

Device == (0 .. Buses - 1) \X (0 .. Devs - 1)
Function == (0 .. Buses - 1) \X (0 .. Devs - 1) \X (0 .. Fns - 1)

Init ==
  /\ present \in SUBSET Function
  /\ multi \in SUBSET {d \in Device : <<d[1], d[2], 0>> \in present}
  /\ max_devices \in 0 .. MaxArray
  /\ bus = 0 /\ dev = 0 /\ fn = -1
  /\ devices = <<>>
  /\ pc = "scan"
-----------------------------------------------------------------------------
pci_device_exists(b, d, f) == <<b, d, f>> \in present
count == Len(devices)
num_functions == IF <<bus, dev>> \in multi THEN Fns ELSE 1

(* The headers of the loops, the outer one's last: dev++, or bus++.        *)
NextDevice ==
  IF dev + 1 < Devs /\ count < max_devices
  THEN dev' = dev + 1 /\ UNCHANGED bus
  ELSE dev' = 0 /\ bus' = bus + 1

Scanning == pc = "scan" /\ fn = -1 /\ bus < Buses /\ count < max_devices

no_device ==
  /\ Scanning
  /\ ~pci_device_exists(bus, dev, 0)
  /\ NextDevice
  /\ UNCHANGED <<hardware, fn, devices, pc>>

device ==
  /\ Scanning
  /\ pci_device_exists(bus, dev, 0)
  /\ fn' = 0
  /\ UNCHANGED <<hardware, bus, dev, devices, pc>>

InFunctions == fn >= 0 /\ fn < num_functions /\ count < max_devices

function_StopsAtGap ==
  /\ InFunctions
  /\ IF pci_device_exists(bus, dev, fn)
     THEN devices' = Append(devices, <<bus, dev, fn>>) /\ fn' = fn + 1
     ELSE fn' = Fns /\ UNCHANGED devices
  /\ UNCHANGED <<hardware, bus, dev, pc>>

function ==
  /\ InFunctions
  /\ devices' = IF pci_device_exists(bus, dev, fn) THEN Append(devices, <<bus, dev, fn>>) ELSE devices
  /\ fn' = fn + 1
  /\ UNCHANGED <<hardware, bus, dev, pc>>

functions_end ==
  /\ fn >= 0 /\ ~InFunctions
  /\ fn' = -1
  /\ NextDevice
  /\ UNCHANGED <<hardware, devices, pc>>

return ==
  /\ pc = "scan" /\ fn = -1 /\ ~(bus < Buses /\ count < max_devices)
  /\ pc' = "done"
  /\ UNCHANGED <<hardware, bus, dev, fn, devices>>

Next == no_device \/ device \/ function \/ functions_end \/ return
Spec == Init /\ [][Next]_vars
-----------------------------------------------------------------------------
(* No entry is written behind the end of the caller's array, and no        *)
(* register is read outside the configuration space.                       *)
TypeOK ==
  /\ devices \in Seq(Function)
  /\ count <= max_devices
  /\ bus \in 0 .. Buses /\ dev \in 0 .. Devs - 1 /\ fn \in -1 .. Fns

(* What a machine has, in the order of bus, device and function: the       *)
(* functions that answer, of a device that is there at all, and beyond     *)
(* function 0 only where the device says so.                               *)
Before(f, g) ==
  \/ f[1] < g[1]
  \/ f[1] = g[1] /\ f[2] < g[2]
  \/ f[1] = g[1] /\ f[2] = g[2] /\ f[3] < g[3]
Reachable ==
  {f \in present : <<f[1], f[2], 0>> \in present /\ (f[3] = 0 \/ <<f[1], f[2]>> \in multi)}

(* The list is the start of that inventory, as long as the array allows:   *)
(* nothing is skipped behind a gap, listed twice or lost to a full array   *)
(* that the loops notice late.                                             *)
ListsInventory ==
  /\ \A k \in DOMAIN devices : devices[k] \in Reachable
  /\ \A j, k \in DOMAIN devices : j < k => Before(devices[j], devices[k])
  /\ pc = "done" => \A f \in Reachable :
       \/ \E k \in DOMAIN devices : devices[k] = f
       \/ count = max_devices /\ \A k \in DOMAIN devices : Before(devices[k], f)
=============================================================================
