------------------------------ MODULE Executables ------------------------------
(***************************************************************************)
(* The parsers and built-in extractors of kernels and executables          *)
(* (lib/src/formats/b10a_kernels.cpp, b10b_executables.cpp).  Several of   *)
(* them report that something is there and claim no bytes.                 *)
(***************************************************************************)
EXTENDS Parsing

CONSTANTS
  LinuxMinimum,    \* minimum_file_size of a Linux kernel
  SymtabMinimum    \* vxworks_symtab_min_entries

ASSUME ExecutablesAssumption == LinuxMinimum \in Nat /\ SymtabMinimum \in Nat

-----------------------------------------------------------------------------
(* Kernels                                                                 *)

ElfHeader == 24

inspect_elf(good) == Contains(offset, ElfHeader) /\ good

elf ==
  /\ Asked(0, 4)
  /\ \E good \in BOOLEAN :
       Answered("elf", inspect_elf(good), offset, 0, "medium",
                IF Contains(offset, ElfHeader) THEN offset + ElfHeader ELSE 0)

UimageHeader == 64

inspect_uimage(good) == Contains(offset, UimageHeader) /\ good

\* A fault: the payload's end is not compared with the data's.
extract_uimage_unbounded(good, n) == inspect_uimage(good) /\ offset + UimageHeader <= size

\* The payload lies in the data; it is part of the image, and carved, if it
\* agrees with its checksum.
extract_uimage(good, n) ==
  inspect_uimage(good) /\ offset + UimageHeader <= size /\ n <= size - (offset + UimageHeader)

uimage ==
  /\ Asked(0, 4)
  /\ \E good, sum, header_sum \in BOOLEAN, n \in U32 :
       LET fits == extract_uimage(good, n)
       IN Answered("uimage", fits, offset, UimageHeader + (IF sum THEN n ELSE 0),
                   IF header_sum THEN "high" ELSE IF offset = 0 THEN "medium" ELSE "low",
                   IF fits THEN offset + UimageHeader + n ELSE 0)

LinuxVersion == 75

\* The version is a string that ends in a line feed; with one table of symbols
\* in the data, the whole of the data is the kernel.
linux_kernel ==
  /\ Asked(0, 14)
  /\ \E good, symbols \in BOOLEAN, n \in Strings(offset, size) :
       LET fits == /\ size > LinuxMinimum /\ offset < size /\ Contains(offset, LinuxVersion + 1)
                   /\ n > LinuxVersion /\ good
       IN IF symbols THEN Answered("linux_kernel", fits, 0, size, "low", IF fits THEN offset + n ELSE 0)
          ELSE Answered("linux_kernel", fits, offset, n, "low", IF fits THEN offset + n ELSE 0)

linux_boot_image ==
  /\ Asked(0, 16)
  /\ \E good \in BOOLEAN : Answer("linux_boot_image", Contains(offset + 514, 5) /\ good, 0, "low")

ZimageBack == 36
ZimageNops == 8

linux_arm_zimage ==
  /\ Asked(0, 4)
  /\ \E good \in BOOLEAN :
       Answered("linux_arm_zimage",
         offset >= ZimageBack /\ Contains(offset - ZimageBack, 4 * ZimageNops) /\ good,
         offset - ZimageBack, 0, "medium", 0)

Arm64Back == 48
Arm64Header == 64

linux_arm64_boot_image ==
  /\ Asked(0, 12)
  /\ \E good, pe \in BOOLEAN, pe_offset \in U32 :
       LET start == offset - Arm64Back
       IN Answered("linux_arm64_boot_image",
            /\ offset >= Arm64Back /\ Contains(start, Arm64Header) /\ good
            /\ start + pe_offset <= size /\ Contains(start + pe_offset, 2) /\ pe,
            start, Arm64Header, "medium", 0)

WindMagic == 13

wind_kernel ==
  /\ Asked(0, WindMagic)
  /\ \E n \in Strings(offset + WindMagic, size) :
       Answer("wind_kernel", offset + WindMagic < size /\ n > 0, WindMagic + n, "low")

ecos == Asked(0, 8) /\ Answered("ecos", TRUE, offset, 0, "low", offset + 1)

SymtabEntry == 16
SymtabBack == 8

vxworks_symtab ==
  /\ Asked(0, 8)
  /\ IF offset < SymtabBack \/ ~Contains(offset - SymtabBack, 10) THEN Reject("vxworks_symtab")
     ELSE Begin(SymtabEntry, [format |-> "vxworks_symtab", from |-> offset - SymtabBack,
                  at |-> offset - SymtabBack, last |-> None, entries |-> 0])

extract_vxworks_symtab ==
  Answered("vxworks_symtab", walk.entries >= SymtabMinimum, walk.from, walk.at - walk.from, "high", 0)

\* walk_vxworks_symtab: entry by entry, up to one that is not well formed or
\* that the data does not hold.
vxworks_symtab_entry ==
  /\ Walking("vxworks_symtab")
  /\ \/ extract_vxworks_symtab
     \/ /\ Safe /\ Contains(walk.at, SymtabEntry)
        /\ GoOn([walk EXCEPT !.at = @ + SymtabEntry, !.last = walk.at,
                             !.entries = AtMost(@ + 1, SymtabMinimum)])

-----------------------------------------------------------------------------
(* Firmware of PCs                                                         *)

PchromBack == 16
PchromRegions == 5
Page == 4096

\* The regions of the flash: the table is read from the image's first byte on,
\* and a region's limit is the end of its last 64 KiB.
pchrom ==
  /\ Asked(0, 4)
  /\ \E good \in BOOLEAN, first \in U16, limits \in U8 :
       LET image == offset - PchromBack
           start == Page * first
           limit == 16 * Page * (limits + 1)
       IN Answered("pchrom",
            /\ offset >= PchromBack /\ Contains(image + 16, 8) /\ good
            /\ Contains(image, 4 * PchromRegions) /\ limit # start,
            image, PchromBack + limit, "low", 0)

VolumeBack == 40

uefi_pi_volume ==
  /\ Asked(0, 4)
  /\ \E good \in BOOLEAN, total \in U64, header_size \in U16 :
       LET volume == offset - VolumeBack
       IN Answered("uefi_pi_volume",
            /\ offset >= VolumeBack /\ Contains(volume + 48, 8) /\ header_size < total
            /\ good /\ total <= size - volume,
            volume, total, "medium", 0)

CapsuleHeader == 28

uefi_capsule ==
  /\ Asked(0, 16)
  /\ \E total, header_size \in U32 :
       Answer("uefi_capsule",
         Contains(offset, CapsuleHeader) /\ header_size < total /\ total <= available, total, "medium")

-----------------------------------------------------------------------------
(* Executables, disk images and texts                                      *)

DosHeader == 64
CoffHeader == 24

pe ==
  /\ Asked(0, 16)
  /\ \E good, coff \in BOOLEAN, lfanew \in U32 :
       Answer("pe",
         /\ Contains(offset, DosHeader) /\ good /\ IsRangeSafe(available, lfanew, CoffHeader)
         /\ Contains(offset + lfanew, 6) /\ coff,
         0, "medium")

CopyrightMagic == 9

copyright ==
  /\ Asked(0, CopyrightMagic)
  /\ \E n \in Strings(offset, size) : Answer("copyright", n > CopyrightMagic, n, "high")

DmgFooter == 512
DmgXml == 1024

\* The magic bytes are those of the footer.  The list of properties is found from
\* the data's beginning on, and may lie behind the footer; the image begins as
\* far before it as its data is long.
dmg ==
  /\ Asked(0, 12)
  /\ \E good \in BOOLEAN, data_length, xml_length \in U64,
        xml \in {None} \cup Positions(0) \cup Positions(offset + DmgFooter) :
       Answered("dmg",
         /\ Contains(offset, DmgFooter) /\ good
         /\ data_length <= offset /\ xml_length <= offset - data_length
         /\ xml # None /\ Contains(xml, DmgXml) /\ xml >= data_length
         /\ xml - data_length < offset + DmgFooter,
         xml - data_length, offset + DmgFooter - (xml - data_length), "very high", 0)

PjlCommands == 9

pjl ==
  /\ Asked(0, 13)
  /\ \E n \in Strings(offset + PjlCommands, size) : Answer("pjl", n > 0, n, "low")

\* The fixed part of each version, which follows the version's number.
QcowHeader(version) == CASE version = 1 -> 40 [] version = 2 -> 64 [] version = 3 -> 96

qcow ==
  /\ Asked(0, 4)
  /\ \E good \in BOOLEAN, version \in 0 .. 3, bits \in {8, 9, 12, 22}, level1, refcount \in U64 :
       Answer("qcow",
         /\ Contains(offset + 4, 4) /\ version # 0
         /\ Contains(offset + 8, QcowHeader(version)) /\ good
         /\ 9 <= bits /\ bits <= 21
         /\ level1 % 2 ^ bits = 0 /\ (version = 1 \/ refcount % 2 ^ bits = 0),
         0, "medium")

ExecutablesNext ==
  \/ elf \/ uimage \/ linux_kernel \/ linux_boot_image \/ linux_arm_zimage \/ linux_arm64_boot_image
  \/ wind_kernel \/ ecos \/ vxworks_symtab \/ vxworks_symtab_entry
  \/ pchrom \/ uefi_pi_volume \/ uefi_capsule
  \/ pe \/ copyright \/ dmg \/ pjl \/ qcow
=============================================================================
