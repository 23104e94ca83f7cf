----------------------------- MODULE VendorHeaders -----------------------------
(***************************************************************************)
(* The parsers of vendors' firmware headers                                *)
(* (lib/src/formats/b5_vendorhdr.cpp).  A header's size is claimed, not    *)
(* the payload's, but most ask that the data holds both.                   *)
(***************************************************************************)
EXTENDS Parsing

available_from(at) == IF at >= size THEN 0 ELSE size - at

DlobPartOne == 12
DlobPartTwo == 28

dlob ==
  /\ Asked(0, 4)
  /\ \E good \in BOOLEAN, metadata_p1, metadata_p2, data_p1, data_p2 \in U32 :
       LET rest == available_from(offset)
           part_two == DlobPartOne + metadata_p1
           header == part_two + DlobPartTwo + metadata_p2
       IN Answer("dlob",
            /\ rest >= DlobPartOne /\ data_p1 = 0
            /\ part_two <= rest /\ DlobPartTwo <= rest - part_two /\ good
            /\ header < data_p2
            /\ header <= rest /\ data_p2 <= rest - header,
            header, "medium")

PackimgHeader == 32

packimg ==
  /\ Asked(0, 12)
  /\ \E n \in U32 :
       LET rest == available_from(offset)
       IN Answer("packimg",
            Contains(offset, 20) /\ rest >= PackimgHeader /\ n <= rest - PackimgHeader, PackimgHeader, "low")

ChkStructure == 40
ChkMost == 100

chk ==
  /\ Asked(0, 4)
  /\ \E header, kernel, rootfs \in U32, board \in Strings(offset + ChkStructure, ChkMost) :
       LET total == header + kernel + rootfs
       IN Answer("chk",
            /\ Contains(offset, ChkStructure) /\ ChkStructure < header /\ header <= ChkMost
            /\ board > 0 /\ board <= header - ChkStructure
            /\ total <= available_from(offset) /\ total > header,
            header, "medium")

CfeMagic == 28

cfe ==
  /\ Asked(0, 8)
  /\ Answered("cfe", offset >= CfeMagic, offset - CfeMagic, 0, IF offset = CfeMagic THEN "medium" ELSE "low", 0)

SeamaStructure == 28

seama ==
  /\ Asked(0, 6)
  /\ \E good \in BOOLEAN, described, n \in U32 :
       LET rest == available_from(offset)
           header == SeamaStructure + described
       IN Answer("seama", rest >= SeamaStructure /\ good /\ header <= rest /\ n <= rest - header, header, "low")

\* The image is all that follows; how long its header is, the header says.
rtk ==
  /\ Asked(0, 4)
  /\ \E image, header \in U32 \cup {available_from(offset)} :
       Answer("rtk", Contains(offset, 32) /\ image = available_from(offset), header + 4, "medium")

BinhdrBack == 14
BinhdrHeader == 30

binhdr ==
  /\ Asked(0, 4)
  /\ \E good \in BOOLEAN :
       Answered("binhdr", offset >= BinhdrBack /\ Contains(offset - BinhdrBack, BinhdrHeader) /\ good,
                offset - BinhdrBack, 0, "medium", 0)

TplinkHeader == 512

tplink ==
  /\ Asked(0, 36)
  /\ \E good \in BOOLEAN :
       Answer("tplink",
         available_from(offset) >= TplinkHeader /\ Contains(offset + 64, 98) /\ good, TplinkHeader, "medium")

tplink_rtos ==
  /\ Asked(0, 4)
  /\ \E good \in BOOLEAN : Answer("tplink_rtos", Contains(offset, 32) /\ good, 0, "medium")

UbootNumber == 7

\* The length of the version is claimed from the magic bytes on, which precede it.
uboot ==
  /\ Asked(0, UbootNumber)
  /\ \E digit \in BOOLEAN, n \in Strings(offset + UbootNumber, size) :
       Answered("uboot", Contains(offset, UbootNumber + 1) /\ digit /\ n > 0, offset, n, "medium",
                IF Contains(offset, UbootNumber + 1) THEN offset + UbootNumber + 1 ELSE 0)

LogfsBack == 24
LogfsStructure == 88

logfs ==
  /\ Asked(0, 8)
  /\ \E good \in BOOLEAN, total \in U64 :
       Answered("logfs", offset >= LogfsBack /\ Contains(offset, LogfsStructure) /\ good,
                offset - LogfsBack, total, "medium", 0)

android_bootimg ==
  /\ Asked(0, 8)
  /\ Answer("android_bootimg", Contains(offset, 24), 0, IF offset = 0 THEN "medium" ELSE "low")

VendorHeadersNext ==
  \/ dlob \/ packimg \/ chk \/ cfe \/ seama \/ rtk \/ binhdr
  \/ tplink \/ tplink_rtos \/ uboot \/ logfs \/ android_bootimg
=============================================================================
