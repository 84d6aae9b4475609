-------------------------------- MODULE Loader --------------------------------
(***************************************************************************)
(* The UEFI boot loader, UefiMain of boot/MosaLoader.c: it locates the     *)
(* graphics and file system protocols, reads the font, the picture and the *)
(* kernel into pool memory, puts the kernel's segments in place            *)
(* (SegmentLoader), takes the memory map, leaves boot services and jumps   *)
(* to the kernel.                                                          *)
(*                                                                         *)
(* Every firmware call may succeed or fail.  The variable status is the    *)
(* code's: where the code does not assign the result of a call to it, or   *)
(* overwrites it before it is tested, the failure goes unnoticed here too. *)
(***************************************************************************)
EXTENDS SegmentLoader

VARIABLES
  stage,    \* the call UefiMain makes next
  file,     \* the file it works on
  status,   \* the local variable status
  root,     \* OpenVolume has set root
  filled,   \* the files whose bytes a Read has put into memory
  mmap,     \* the memory map the kernel is handed
  exited    \* boot services are over

uefiVars == <<stage, file, status, root, filled, mmap, exited>>
loaderVars == <<segVars, uefiVars>>

File == {"font", "bmp", "kernel"}

NextFile == [font |-> "bmp", bmp |-> "kernel", kernel |-> "kernel"]

Status == {"success", "error"}

NoKey == 0

NoMap == [taken |-> FALSE, pages |-> [p \in Page |-> "free"], key |-> NoKey]

LoaderInit ==
  /\ SegInit
  /\ kernel_program = "null"
  /\ stage = "gop"
  /\ file = "font"
  /\ status = "success"
  /\ root = FALSE
  /\ filled = {}
  /\ mmap = NoMap
  /\ exited = FALSE

-------------------------------------------------------------------------------
(* The result of a call is assigned to status and tested.                  *)
Checked(st, next) ==
  /\ status' = st
  /\ stage' = IF st = "error" THEN "stopped" ELSE next

LocateGop(st) ==
  /\ stage = "gop"
  /\ Checked(st, "sfsp")
  /\ UNCHANGED <<segVars, file, root, filled, mmap, exited>>

LocateSfsp(st) ==
  /\ stage = "sfsp"
  /\ Checked(st, "volume")
  /\ UNCHANGED <<segVars, file, root, filled, mmap, exited>>

(* The result of OpenVolume is not assigned: status is still LocateSfsp's. *)
OpenVolume(st) ==
  /\ stage = "volume"
  /\ root' = (st = "success")
  /\ stage' = IF status = "error" THEN "stopped" ELSE "open"
  /\ UNCHANGED <<segVars, file, status, filled, mmap, exited>>

(* Opening a file of a root that is NULL calls through address 0.          *)
OpenFile(st) ==
  /\ stage = "open"
  /\ \/ root /\ Checked(st, "info")
     \/ ~root /\ stage' = "faulted" /\ UNCHANGED status
  /\ UNCHANGED <<segVars, file, root, filled, mmap, exited>>

GetFileInfo(st) ==
  /\ stage = "info"
  /\ Checked(st, "pool")
  /\ UNCHANGED <<segVars, file, root, filled, mmap, exited>>

(* AllocatePool leaves the buffer NULL when it fails; when it succeeds it  *)
(* may have taken a page.  status is not tested before Read overwrites it. *)
(* What the kernel reads at a NULL font or picture is its own affair.      *)
AllocatePool(st) ==
  /\ stage = "pool"
  /\ status' = st
  /\ stage' = "read"
  /\ kernel_program' =
       IF st = "success" /\ file = "kernel" THEN "pool" ELSE kernel_program
  /\ \/ UNCHANGED pageVars
     \/ /\ st = "success"
        /\ \E p \in Page : owner[p] = "free" /\ GivePages({p}, "loader")
  /\ UNCHANGED <<table, image, at, seg, call, gotVars, written, file, root, filled,
                 mmap, exited>>

(* Read of the font and the picture is not tested, that of the kernel is.  *)
(* A Read into a NULL buffer may succeed: page 0 is memory like any other. *)
(* The mutant tests none of the three.                                     *)
AfterReadUntested(st) == IF file = "kernel" THEN "load" ELSE "open"

AfterRead(st) ==
  CASE file # "kernel" -> "open"
    [] file = "kernel" /\ st = "success" -> "load"
    [] OTHER -> "stopped"

ReadFile(st) ==
  /\ stage = "read"
  /\ status' = st
  /\ filled' = IF st = "success" THEN filled \cup {file} ELSE filled
  /\ stage' = AfterRead(st)
  /\ file' = NextFile[file]
  /\ UNCHANGED <<segVars, root, mmap, exited>>

LoadKernel ==
  /\ stage = "load"
  /\ LoadStep
  /\ stage' = IF at' = "loaded" THEN "map" ELSE "load"
  /\ UNCHANGED <<file, status, root, filled, mmap, exited>>

(* GetMemoryMap fails when the map does not fit the 16 KiB buffer; whether *)
(* it stores the key then is the firmware's choice.  status is not tested. *)
GetMemoryMap(st) ==
  /\ stage = "map"
  /\ status' = st
  /\ \/ /\ st = "success"
        /\ mmap' = [taken |-> TRUE, pages |-> owner, key |-> map_key]
     \/ /\ st = "error"
        /\ \E k \in {NoKey, map_key} : mmap' = [mmap EXCEPT !.key = k]
  /\ stage' = "exit"
  /\ UNCHANGED <<segVars, file, root, filled, exited>>

(* The firmware leaves boot services only for the key of its current map.  *)
ExitStatus == IF mmap.key = map_key THEN "success" ELSE "error"

(* Mutant: the result of ExitBootServices is not tested.                   *)
ExitUntested ==
  /\ stage = "exit"
  /\ status' = ExitStatus /\ stage' = "kernel"
  /\ exited' = (ExitStatus = "success")
  /\ UNCHANGED <<segVars, file, root, filled, mmap>>

ExitBootServices ==
  /\ stage = "exit"
  /\ Checked(ExitStatus, "kernel")
  /\ exited' = (ExitStatus = "success")
  /\ UNCHANGED <<segVars, file, root, filled, mmap>>

Callback ==
  /\ stage \notin {"kernel", "stopped", "faulted"}
  /\ FirmwareCallback
  /\ UNCHANGED uefiVars

UefiMain ==
  \/ \E st \in Status :
       \/ LocateGop(st)
       \/ LocateSfsp(st)
       \/ OpenVolume(st)
       \/ OpenFile(st)
       \/ GetFileInfo(st)
       \/ AllocatePool(st)
       \/ ReadFile(st)
       \/ GetMemoryMap(st)
  \/ LoadKernel
  \/ ExitBootServices

LoaderNext == UefiMain \/ Callback

LoaderSpec == LoaderInit /\ [][LoaderNext]_loaderVars

(* The loader is one flow of control: firmware calls and callbacks return. *)
LoaderFairSpec == LoaderSpec /\ WF_loaderVars(UefiMain)

-------------------------------------------------------------------------------
(* Type invariant.                                                         *)
LoaderTypeOK ==
  /\ SegTypeOK
  /\ stage \in {"gop", "sfsp", "volume", "open", "info", "pool", "read", "load",
                "map", "exit", "kernel", "stopped", "faulted"}
  /\ file \in File
  /\ status \in Status
  /\ root \in BOOLEAN
  /\ filled \subseteq File
  /\ mmap \in [taken : BOOLEAN, pages : [Page -> {"free", "firmware", "loader"}],
               key : Nat]
  /\ exited \in BOOLEAN

(* The kernel gets control only after boot services are over, with its     *)
(* file read and its segments handled, and never through a NULL root.      *)
KernelEntry ==
  stage = "kernel" => exited /\ root /\ "kernel" \in filled /\ at = "loaded"

(* The memory map the kernel walks tells who owns memory now: no callback, *)
(* pool or page allocation has changed a page since it was taken.  The one *)
(* exception is a map that did not fit the loader's buffer.                *)
KernelSeesTrueMap ==
  stage = "kernel" /\ mmap.taken => mmap.pages = owner

(* When the kernel gets control, every page Allocate obtained for its      *)
(* image is still the loader's, and the map says so if it could be taken;  *)
(* and a page of the image that Allocate did not obtain was given up       *)
(* because of a page that was not free when it asked, or was not counted.  *)
ImageKept ==
  stage = "kernel" =>
    /\ GotKept /\ SegmentsOwned
    /\ mmap.taken => \A g \in got : mmap.pages[g[2]] = "loader"

(* A failure to open the volume stops the loader: line 131 reports it.     *)
OpenVolumeFailureStops ==
  ~root /\ stage \notin {"gop", "sfsp", "volume"} => stage = "stopped"

(* UefiMain ends: in the kernel, in stop(), in a fault or in Allocate's    *)
(* own halt.                                                               *)
UefiMainEnds == <>(stage \in {"kernel", "stopped", "faulted"} \/ at = "halted")
===============================================================================
