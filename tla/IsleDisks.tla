------------------------------ MODULE IsleDisks ------------------------------
(***************************************************************************)
(* The two disk images that VM.Run prepares before it starts the machine   *)
(* (vm/vm.go): data.fs, which holds the guest's /var/lib and so the isles, *)
(* and user.fs, its /vol/user.  Their sizes come from the configuration,   *)
(* which the user may edit at any time (isle --configure) and which        *)
(* startVM reads once.                                                     *)
(*                                                                         *)
(* A size counts blocks; a file that has been created and not yet been     *)
(* extended holds a short label only.  The host may stop at any step.      *)
(***************************************************************************)
EXTENDS Naturals

CONSTANT MaxSize  \* bound: the largest size a disk can be configured with

ASSUME SizeBound == MaxSize \in Nat \ {0, 1}

Missing == 0
Label == 1
Sizes == 2 .. MaxSize
Disks == {"data", "user"}

VARIABLES
    config,  \* config.json
    size,    \* the configuration that this boot has read
    file,    \* the length of each image
    used,    \* up to where each image holds what the guest has written
    boot     \* where Run is

diskVars == <<config, size, file, used, boot>>

DiskTypeOK ==
    /\ config \in [Disks -> Sizes]
    /\ size \in [Disks -> Sizes]
    /\ file \in [Disks -> 0 .. MaxSize]
    /\ used \in [Disks -> 0 .. MaxSize] /\ \A d \in Disks : used[d] <= file[d]
    /\ boot \in {"off", "data", "datasize", "user", "usersize", "running"}

DiskInit ==
    /\ config \in [Disks -> Sizes]
    /\ size = config
    /\ file = [d \in Disks |-> Missing]
    /\ used = [d \in Disks |-> 0]
    /\ boot = "off"

(* Truncate: what lies beyond the new length is gone.                       *)
Truncate(d, n) ==
    /\ file' = [file EXCEPT ![d] = n]
    /\ used' = [used EXCEPT ![d] = IF n < @ THEN n ELSE @]

-----------------------------------------------------------------------------
(* The user and the guest                                                   *)

Configure ==
    /\ config' \in [Disks -> Sizes]
    /\ UNCHANGED <<size, file, used, boot>>

Start ==
    /\ boot = "off"
    /\ boot' = "data" /\ size' = config
    /\ UNCHANGED <<config, file, used>>

Write(d) ==
    /\ boot = "running" /\ used[d] < file[d]
    /\ used' = [used EXCEPT ![d] = file[d]]
    /\ UNCHANGED <<config, size, file, boot>>

(* The machine has stopped, or the host process has ended at any point.     *)
Stop ==
    /\ boot # "off"
    /\ boot' = "off"
    /\ UNCHANGED <<config, size, file, used>>

-----------------------------------------------------------------------------
(* data.fs                                                                  *)

(* An image that is too short: the file that is opened and extended is      *)
(* user.fs.  Without one, Run panics.                                       *)
GrowData ==
    /\ boot = "data" /\ file["data"] # Missing /\ file["data"] < size["data"]
    /\ IF file["user"] = Missing
         THEN boot' = "off" /\ UNCHANGED <<file, used>>
         ELSE boot' = "user" /\ Truncate("user", size["data"])
    /\ UNCHANGED <<config, size>>

KeepData ==
    /\ boot = "data" /\ file["data"] >= size["data"]
    /\ boot' = "user"
    /\ UNCHANGED <<config, size, file, used>>

(* Mutant: the image is created anew whenever it is too short.              *)
MutCreateData ==
    /\ boot = "data" /\ file["data"] < size["data"]
    /\ Truncate("data", Label) /\ boot' = "datasize"
    /\ UNCHANGED <<config, size>>

CreateData ==
    /\ boot = "data" /\ file["data"] = Missing
    /\ Truncate("data", Label) /\ boot' = "datasize"
    /\ UNCHANGED <<config, size>>

SizeData ==
    /\ boot = "datasize"
    /\ Truncate("data", size["data"]) /\ boot' = "user"
    /\ UNCHANGED <<config, size>>

-----------------------------------------------------------------------------
(* user.fs                                                                  *)

(* Mutant: the image is extended to the size of the other one.              *)
MutGrowUser ==
    /\ boot = "user" /\ file["user"] # Missing /\ file["user"] < size["user"]
    /\ Truncate("user", size["data"]) /\ boot' = "running"
    /\ UNCHANGED <<config, size>>

GrowUser ==
    /\ boot = "user" /\ file["user"] # Missing /\ file["user"] < size["user"]
    /\ Truncate("user", size["user"]) /\ boot' = "running"
    /\ UNCHANGED <<config, size>>

KeepUser ==
    /\ boot = "user" /\ file["user"] >= size["user"]
    /\ boot' = "running"
    /\ UNCHANGED <<config, size, file, used>>

CreateUser ==
    /\ boot = "user" /\ file["user"] = Missing
    /\ Truncate("user", Label) /\ boot' = "usersize"
    /\ UNCHANGED <<config, size>>

SizeUser ==
    /\ boot = "usersize"
    /\ Truncate("user", size["user"]) /\ boot' = "running"
    /\ UNCHANGED <<config, size>>

DiskNext ==
    \/ Configure \/ Start \/ Stop
    \/ \E d \in Disks : Write(d)
    \/ GrowData \/ KeepData \/ CreateData \/ SizeData
    \/ GrowUser \/ KeepUser \/ CreateUser \/ SizeUser

DiskSpec == DiskInit /\ [][DiskNext]_diskVars

-----------------------------------------------------------------------------
(* Whatever earlier boots, their crashes and their configurations have left *)
(* behind, and although preparing data.fs may cut user.fs short, the        *)
(* machine starts with a user.fs of the size its boot has read.             *)
UserDiskFits == boot = "running" => file["user"] >= size["user"]

(* What the guest has written to data.fs survives every boot, every crash   *)
(* and every reconfiguration.                                               *)
DataIsKept == [][used'["data"] >= used["data"]]_diskVars

(* "support expanding only for now." (vm/vm.go:295): no boot makes an image *)
(* shorter than it was.                                                     *)
OnlyExpands == [][\A d \in Disks : file'[d] >= file[d]]_diskVars
=============================================================================
