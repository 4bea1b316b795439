------------------------------ MODULE MCKernel ------------------------------
(***************************************************************************)
(* The services that the desktop loop calls and that no interrupt handler  *)
(* touches, each on its own instance: the allocator (Heap), the list of    *)
(* PCI devices (Pci), xsprintf (Format) and the applications with their    *)
(* windows and tasks (Apps).  They share no variable, so a behaviour is    *)
(* one of one service.                                                     *)
(***************************************************************************)
EXTENDS Heap

CONSTANTS Buses, Devs, Fns, MaxArray,                        \* of Pci
          Numbers, Strings,                                  \* of Format
          BootOrder, Name, Title, Suffixes, Terminal, Editor,
          MAX_APPS, MAX_WINDOWS, BaseTasks, ExitPid, MaxPid  \* of Apps

VARIABLES
  service,
  present, multi, max_devices, bus, dev, fn, devices, pci_pc,
  call, format, args, str,
  registry, windows, active, window_title, tasks, next_pid, app_pc

pciVars == <<present, multi, max_devices, bus, dev, fn, devices, pci_pc>>
formatVars == <<call, format, args, str>>
appVars == <<registry, windows, active, window_title, tasks, next_pid, app_pc>>
mcVars == <<service, vars, pciVars, formatVars, appVars>>

Segment(base, length, usable) == [base |-> base, length |-> length, usable |-> usable]

(* A large reserved and a small usable segment before the largest usable   *)
(* one, and a map without any usable segment.                              *)
BootMaps ==
  {<<Segment(24, 40, FALSE), Segment(16, 8, TRUE), Segment(0, 16, TRUE)>>,
   <<Segment(0, 40, FALSE)>>}

(* Strings narrower than, as wide as and wider than the columns.           *)
FewStrings == {<<>>, <<12>>, <<12, 13>>, <<13, 12, 13>>}

(* Three of the nine applications.  Two titles share their first word, as  *)
(* "Onken Terminal" and "Onken Browser" do; a file of the editor is called *)
(* like the browser.                                                       *)
FewApps == <<"yano", "browser", "terminal">>
FewNames == [yano |-> <<1>>, browser |-> <<2, 3>>, terminal |-> <<2, 4>>]
FewTitles == [yano |-> <<1>>, browser |-> <<5, 6>>, terminal |-> <<5, 7>>]
FewSuffixes == {<<8, 9>>, <<8, 5, 6>>}

Scan == INSTANCE Pci WITH pc <- pci_pc
Sprintf == INSTANCE Format
Registry == INSTANCE Apps WITH pc <- app_pc

ASSUME ScanAssumption == Scan!SizesOK
ASSUME SprintfAssumption == Sprintf!ValuesOK
ASSUME RegistryAssumption == Registry!SizesOK /\ Registry!Distinct /\ Registry!StringsOK

MCInit ==
  /\ service \in {"heap", "pci", "format", "apps"}
  /\ service # "heap" => memmap = CHOOSE m \in Memmaps : TRUE
  /\ service # "pci" => present = {} /\ max_devices = 0
  /\ service # "format" => call = CHOOSE c \in Sprintf!Calls : TRUE
  /\ Init /\ Scan!Init /\ Sprintf!Init /\ Registry!Init

RestOfHeap == service = "heap" /\ UNCHANGED <<service, pciVars, formatVars, appVars>>
RestOfPci == service = "pci" /\ UNCHANGED <<service, vars, formatVars, appVars>>
RestOfFormat == service = "format" /\ UNCHANGED <<service, vars, pciVars, appVars>>
RestOfApps == service = "apps" /\ UNCHANGED <<service, vars, pciVars, formatVars>>

MCNext ==
  \/ RestOfHeap /\ Next
  \/ RestOfPci /\ Scan!Next
  \/ RestOfFormat /\ Sprintf!Next
  \/ RestOfApps /\ Registry!Next

MCSpec == MCInit /\ [][MCNext]_mcVars
-----------------------------------------------------------------------------
(* pci_enumerate_devices lists the start of the machine's inventory, as    *)
(* long as the caller's array allows, and never writes behind its end.     *)
ListsInventory == Scan!TypeOK /\ Scan!ListsInventory

(* A call of xsprintf with s, d and c writes what C's sprintf writes, and  *)
(* no call takes more arguments than it was given.                         *)
WritesColumns == Sprintf!TypeOK /\ Sprintf!WritesColumns

(* Once the desktop runs every application is found by its name, and the   *)
(* title of an open window leads back to the application that opened it,   *)
(* whatever was launched since; neither table is written behind its end.   *)
AppsAreReached == Registry!TypeOK /\ Registry!AppsAreFound /\ Registry!KeysReachOwner
=============================================================================
