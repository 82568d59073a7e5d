----------------------------- MODULE VolumeSizes -----------------------------
(***************************************************************************)
(* How big the swap and dump volumes are, in MB: the sizing of the         *)
(* orchestrator's engine (perform_slim_install.c), which knows about       *)
(* requests of the manifest, and that of the text installer (SwapDump),    *)
(* which knows none.  Deciding whether there is room (disk_parts.c) and    *)
(* making the volumes (do_ti) are two steps, and the size of the image may *)
(* be read from the medium at the one and not at the other.                *)
(***************************************************************************)
EXTENDS Integers

CONSTANT Cases  \* installations: a subset of CaseSet

(*   installer  whose sizing it is                                         *)
(*   automated  om_is_automated_installation(): the image is not looked up *)
(*   mem        physical memory, 0 if it cannot be determined              *)
(*   swap, dump requested_swap_size, requested_dump_size; -1 is no request *)
(*   image      size the image asks for, its 20% reserve included          *)
(*   part       size of the install partition                              *)
(*   avail      what the new pool has available; to the text installer,    *)
(*              the estimated size of the pool                             *)
IntMax == 2147483647
Request == -IntMax..IntMax
CaseSet ==
  [installer : {"engine", "text"}, automated : BOOLEAN, mem : Nat, swap : Request, dump : Request,
   image : Nat, part : Nat, avail : Nat]
ASSUME CasesAssumption == Cases \subseteq CaseSet

VARIABLES
  vsCase,    \* the installation
  vsPc,      \* decide, make, made, refused
  vsImage,   \* image_info: what is known of the image
  vsRoom,    \* create_swap_and_dump
  vsVolumes  \* sizes of the volumes asked of libti
vsVars == <<vsCase, vsPc, vsImage, vsRoom, vsVolumes>>

MinSwap == 512
MaxSwap == 32768
MinDump == 256
MaxDump == 16384
Overhead == 1024

Least(a, b) == IF a < b THEN a ELSE b
Limit(v, lo, hi) == IF v < lo THEN lo ELSE IF v > hi THEN hi ELSE v
-----------------------------------------------------------------------------
(* The engine.                                                             *)

(* Memory the installer needs; below the other mark its swap is a slice    *)
(* made before there is a pool.  Memory of unknown size is no memory.      *)
Required(mem) == IF mem < 2000 THEN 2000 - mem ELSE 0
SwapSlice(mem) == mem < 700

(* The default of 4 GB is used as long as no image_info file was read.     *)
DefaultImage == 4915
MinimumSize(image, mem) == image + Required(mem)
SoftwareSize(image, mem) == (MinimumSize(image, mem) - Required(mem)) * 2 + 2048
RecommendedSize(image, mem) == SoftwareSize(image, mem) + MinDump + MinSwap

(* The sizes requested are C ints: a sum that wraps is a huge uint64_t and *)
(* compares as more than any space.                                        *)
TooMuch(a, b, space) == a > IntMax - b \/ a + b > space

Fits(c, space) ==
  /\ c.swap >= 0 /\ c.dump >= 0 => ~TooMuch(c.swap, c.dump, space)
  /\ c.swap > 0 /\ c.dump < 0 => ~TooMuch(c.swap, MinDump, space)
  /\ c.dump > 0 /\ c.swap < 0 => ~TooMuch(c.dump, MinSwap, space)

SpaceForSwap(c, space) ==
  IF c.dump >= 0 THEN space - c.dump
  ELSE IF c.swap >= 0 THEN c.swap ELSE (space * MinSwap) \div (MinSwap + MinDump)
(* Mutant: the share of swap and that of dump are mixed up. *)
SpaceForDumpSwapped(c, space) ==
  IF c.swap >= 0 THEN space - c.swap
  ELSE IF c.dump >= 0 THEN c.dump ELSE (space * MinSwap) \div (MinSwap + MinDump)
SpaceForDump(c, space) ==
  IF c.swap >= 0 THEN space - c.swap
  ELSE IF c.dump >= 0 THEN c.dump ELSE (space * MinDump) \div (MinSwap + MinDump)

(* Mutant: requested sizes are held to the bounds of the defaults. *)
CalcSizeBounded(request, mem, needed, space, lo, hi) ==
  LET half == mem \div 2
  IN  IF request <= 0 /\ mem = 0 THEN lo
      ELSE Limit(Least(IF request > 0 THEN request ELSE IF half < needed THEN needed ELSE half, space), lo, hi)
(* A requested size is only trimmed to the space there is, and is at least *)
(* 1; a default goes by the memory.  calc_dump_size is calc_swap_size      *)
(* without the memory the installer needs.                                 *)
CalcSize(request, mem, needed, space, lo, hi) ==
  IF request > 0
  THEN Limit(Least(request, space), 1, request)
  ELSE IF mem = 0
  THEN lo
  ELSE LET half == mem \div 2
       IN  Limit(Least(IF half < needed THEN needed ELSE half, space), lo, hi)
SwapSize(c, space) == CalcSize(c.swap, c.mem, Required(c.mem), space, MinSwap, MaxSwap)
DumpSize(c, space) == CalcSize(c.dump, c.mem, 0, space, MinDump, MaxDump)

(* The volumes of prepare_zfs_volume_attrs, by name; a volume of size 0 is *)
(* none.  The swap slice takes the place of the swap volume.               *)
NoVolumes == [swap |-> 0, dump |-> 0]
FullVolumes(c, space) ==
  [swap |-> IF SwapSlice(c.mem) \/ c.swap = 0 THEN 0 ELSE SwapSize(c, SpaceForSwap(c, space)),
   dump |-> IF c.dump = 0 THEN 0 ELSE DumpSize(c, SpaceForDump(c, space))]
MinimalSwap(c) == [NoVolumes EXCEPT !.swap = Limit(Required(c.mem), MinSwap, MaxSwap)]

(* What is left for volumes once the software has its recommended size.    *)
SpaceLeft(c, image) ==
  IF c.avail < SoftwareSize(image, c.mem) THEN 0 ELSE c.avail - SoftwareSize(image, c.mem)

(* do_ti makes no volumes when there is nothing to make.                   *)
NoneAskedFor(c) == c.dump = 0 /\ (c.swap = 0 \/ SwapSlice(c.mem))
-----------------------------------------------------------------------------
(* The text installer: half the memory within bounds; a size that does not *)
(* fit is the space less a reserve, and negative sizes make no volume.     *)
TextRequired(mem) == IF mem < 900 THEN MinSwap ELSE 0
TextMinimum(c) == c.image + Overhead + TextRequired(c.mem)
TextSize(mem, space, lo, hi) ==
  LET size == IF mem < lo THEN lo ELSE Least(mem \div 2, hi)
  IN  IF space = 0 THEN 0 ELSE IF space < size THEN space - 1024 ELSE size
TextVolumes(c) ==
  LET free == c.avail - TextMinimum(c)
      Share(lo) == (free * lo) \div (MinSwap + MinDump)
  IN  IF TextRequired(c.mem) # 0
      THEN [swap |-> TextRequired(c.mem), dump |-> TextSize(c.mem, free, MinDump, MaxDump)]
      ELSE [swap |-> TextSize(c.mem, Share(MinSwap), MinSwap, MaxSwap),
            dump |-> TextSize(c.mem, Share(MinDump), MinDump, MaxDump)]
Made(size) == size > 0
MadeSize(size) == IF Made(size) THEN size ELSE 0
-----------------------------------------------------------------------------
VsInit ==
  /\ vsCase \in Cases
  /\ vsPc = "decide"
  /\ vsImage = [read |-> FALSE, size |-> DefaultImage]
  /\ vsRoom = FALSE
  /\ vsVolumes = NoVolumes

(* obtain_image_info fills image_info once; a failure is logged only.      *)
LookUpImage ==
  \/ UNCHANGED vsImage
  \/ /\ ~vsCase.automated /\ ~vsImage.read
     /\ vsImage' = [read |-> TRUE, size |-> vsCase.image]

Engine == vsCase.installer = "engine"
Decide ==
  /\ Engine /\ vsPc = "decide" /\ vsPc' = "make"
  /\ LookUpImage
  /\ vsRoom' = (vsCase.part >= RecommendedSize(vsImage'.size, vsCase.mem) - Overhead)
  /\ UNCHANGED <<vsCase, vsVolumes>>

EngineMakes ==
  /\ Engine /\ vsPc = "make"
  /\ LookUpImage
  /\ LET space == SpaceLeft(vsCase, vsImage'.size)
         Make(volumes) ==
           \/ Fits(vsCase, space) /\ vsPc' = "made" /\ vsVolumes' = volumes
           \/ ~Fits(vsCase, space) /\ vsPc' = "refused" /\ UNCHANGED vsVolumes
         MakeNone == vsPc' = "made" /\ UNCHANGED vsVolumes
     IN  \/ vsRoom /\ NoneAskedFor(vsCase) /\ MakeNone
         \/ vsRoom /\ ~NoneAskedFor(vsCase) /\ Make(FullVolumes(vsCase, space))
         \/ ~vsRoom /\ Required(vsCase.mem) # 0 /\ ~SwapSlice(vsCase.mem) /\ Make(MinimalSwap(vsCase))
         \/ ~vsRoom /\ (Required(vsCase.mem) = 0 \/ SwapSlice(vsCase.mem)) /\ MakeNone
  /\ UNCHANGED <<vsCase, vsRoom>>

(* ti_install refuses a pool that is too small before do_ti is called.     *)
TextMakes ==
  /\ ~Engine /\ vsPc = "decide"
  /\ \/ /\ vsCase.avail < TextMinimum(vsCase)
        /\ vsPc' = "refused" /\ UNCHANGED vsVolumes
     \/ /\ vsCase.avail >= TextMinimum(vsCase)
        /\ vsPc' = "made"
        /\ vsVolumes' = [v \in {"swap", "dump"} |-> MadeSize(TextVolumes(vsCase)[v])]
  /\ UNCHANGED <<vsCase, vsImage, vsRoom>>

VsNext == Decide \/ EngineMakes \/ TextMakes
VsSpec == VsInit /\ [][VsNext]_vsVars
-----------------------------------------------------------------------------
(* Types of the sizing's state.                                            *)
VsTypeOK ==
  /\ vsCase \in Cases
  /\ vsPc \in {"decide", "make", "made", "refused"}
  /\ vsImage \in [read : BOOLEAN, size : Nat]
  /\ vsRoom \in BOOLEAN
  /\ vsVolumes \in [swap : Nat, dump : Nat]

(* The volumes eat nothing that was set aside for the software: they fit   *)
(* into the space that is left over, or they are all at the minimum at     *)
(* which the engine makes them whatever there is (calc_swap_size,          *)
(* calc_dump_size, "regardless of available space").  The text installer   *)
(* never goes over, its reserve for the software included (calc_swap_dump_size). *)
VolumesFit ==
  vsPc = "made" =>
    /\ Engine /\ vsRoom =>
         \/ vsVolumes.swap + vsVolumes.dump <= SpaceLeft(vsCase, vsImage.size)
         \/ vsVolumes.swap <= MinSwap /\ vsVolumes.dump <= MinDump
    /\ ~Engine => vsVolumes.swap + vsVolumes.dump + vsCase.image + Overhead <= vsCase.avail

(* With room, a volume whose size was asked for has that size to the MB or *)
(* the installation is refused, one that was asked not to be made is not,  *)
(* and one that nobody spoke of has its minimum at least (prepare_zfs_volume_attrs, *)
(* calculate_available_swap_dump_space).                                   *)
Granted(request, minimum, size) ==
  /\ request >= 0 => size = request
  /\ request < 0 => size >= minimum
RequestsAreGranted ==
  vsPc = "made" /\ Engine /\ vsRoom =>
    /\ Granted(vsCase.dump, MinDump, vsVolumes.dump)
    /\ ~SwapSlice(vsCase.mem) => Granted(vsCase.swap, MinSwap, vsVolumes.swap)
=============================================================================
