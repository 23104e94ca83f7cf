------------------------------- MODULE VendorCarve -----------------------------
(***************************************************************************)
(* The parsers and the built-in extractors of vendors' images              *)
(* (lib/src/formats/b6_vendorcarve.cpp).  Several parsers are dry runs of  *)
(* their extractor.  An extractor's answer here is a part that it carves.  *)
(***************************************************************************)
EXTENDS Archives

-----------------------------------------------------------------------------
(* TRX: up to four partitions; the fourth is not compared with the size    *)

TrxHeader == 32
TrxSummed == 12    \* the checksum covers what follows these bytes

\* The partitions that are given; version 2 has the fourth.
TrxPartitions(parts, version) == {i \in 1 .. 3 : parts[i] # 0 /\ (i = 3 => version = 2)}

inspect_trx(total, p1, p2, version) ==
  /\ Contains(offset, TrxHeader) /\ total > TrxHeader /\ version \in {1, 2}
  /\ p1 <= total /\ p2 <= total

\* The third partition, which is treated as the first two are, is left out.
trx ==
  /\ Asked(0, 4)
  /\ \E total, p1, p2 \in U32, version \in 1 .. 3, sum \in BOOLEAN :
       LET fits == inspect_trx(total, p1, p2, version) /\ RangeInBounds(offset + TrxSummed, total - TrxSummed)
       IN Answered("trx", fits /\ sum, offset, total, "high", IF fits THEN offset + total ELSE 0)

\* A partition ends where the next begins, the last one with the image: its
\* size wraps around when it begins after the end.
extract_trx ==
  /\ Asked(0, 4)
  /\ \E total, p1, p2, p4 \in U32, version \in {1, 2} :
       LET parts == << p1, p2, p4 >>
           given == TrxPartitions(parts, version)
       IN /\ inspect_trx(total, p1, p2, version) /\ RangeInBounds(offset + TrxSummed, total - TrxSummed)
          /\ \E index \in given :
               LET later == {i \in given : i > index}
                   Ends == IF later = {} THEN {total} ELSE {parts[i] : i \in {i \in later : \A j \in later : i <= j}}
               IN \E end \in Ends :
                    LET n == IF later = {} THEN Wrap(end - parts[index]) ELSE end - parts[index]
                    IN Answered("extract_trx", n >= 0 /\ RangeInBounds(offset + parts[index], n),
                                offset + parts[index], n, "high", 0)

-----------------------------------------------------------------------------
(* JBOOT and DLK                                                           *)

JbootHeader == 80

inspect_jboot_arm(from, good) == Contains(from, JbootHeader) /\ good

jboot_arm ==
  /\ Asked(0, 18)
  /\ \E good \in BOOLEAN :
       Answered("jboot_arm", offset >= 48 /\ inspect_jboot_arm(offset - 48, good),
                offset - 48, JbootHeader, "medium", 0)

StagHeader == 16

inspect_jboot_stag(good, image_size) == Contains(offset, StagHeader) /\ good /\ image_size > StagHeader

jboot_stag ==
  /\ Asked(0, 4)
  /\ \E good \in BOOLEAN, image_size \in U32 :
       Answered("jboot_stag",
         /\ inspect_jboot_stag(good, image_size)
         /\ CheckedAdd(offset + StagHeader, image_size) # None
         /\ offset + StagHeader + image_size < size,
         offset, StagHeader, "low", IF Contains(offset, StagHeader) THEN offset + 4 ELSE 0)

Sch2Header == 40

inspect_jboot_sch2(good) == Contains(offset, Sch2Header) /\ good
extract_jboot_sch2(good, kernel) == inspect_jboot_sch2(good) /\ RangeInBounds(offset + Sch2Header, kernel)

jboot_sch2 ==
  /\ Asked(0, 4)
  /\ \E good, sum \in BOOLEAN, kernel \in U32 :
       LET fits == extract_jboot_sch2(good, kernel)
       IN Answered("jboot_sch2", fits /\ sum, offset, Sch2Header + kernel, "high",
                   IF fits THEN offset + Sch2Header + kernel ELSE 0)

\* A signature with its header, and after it the encrypted data with theirs.
dlke ==
  /\ Asked(0, 12)
  /\ \E signed, crypt \in BOOLEAN, signature_size, encrypted_size \in U32 :
       LET second == CheckedAdd(offset + JbootHeader, signature_size)
       IN Answer("dlke",
            /\ inspect_jboot_arm(offset, signed) /\ second # None /\ second <= size
            /\ inspect_jboot_arm(second, crypt),
            2 * JbootHeader + signature_size + encrypted_size, "high")

-----------------------------------------------------------------------------
(* MH01: an initialisation vector, the encrypted data and a signature      *)

MhHeader == 32
MhSecond == 16

inspect_mh01(iv_size, text) ==
  Contains(offset, MhHeader) /\ RangeInBounds(offset + MhHeader, iv_size) /\ text

mh01 ==
  /\ Asked(0, 4)
  /\ \E iv_size, signature_at, signature_size \in U32, text, salted \in BOOLEAN :
       LET payload == offset + MhHeader + iv_size
       IN Answer("mh01", inspect_mh01(iv_size, text) /\ payload <= size /\ Contains(payload + 8, 8) /\ salted,
                 MhSecond + signature_at + signature_size, "high")

extract_mh01 ==
  /\ Asked(0, 4)
  /\ \E iv_size, signature_at, signature_size, encrypted_size \in U32 :
       \E part \in {<< MhHeader, iv_size >>, << MhSecond + signature_at, signature_size >>,
                    << MhHeader + iv_size, encrypted_size >>} :
         /\ inspect_mh01(iv_size, TRUE)
         /\ Answered("extract_mh01", RangeInBounds(offset + part[1], part[2]), offset + part[1], part[2], "high", 0)

-----------------------------------------------------------------------------
(* Windows CE: blocks up to one without an address                         *)

WinceHeader == 15
WinceBlock == 12
WinceEntries == 5

inspect_wince_header == Contains(offset, WinceHeader)

wince ==
  /\ Asked(0, 7)
  /\ IF ~inspect_wince_header THEN Reject("wince")
     ELSE Begin(WinceBlock, [format |-> "wince", at |-> offset + WinceHeader, last |-> None, blocks |-> 0])

\* The total counts every block, the last one too; of the blocks the extractor
\* carves, each lies before the next one's header.
wince_block ==
  /\ Walking("wince")
  /\ \E n \in U32, first, end \in BOOLEAN :
       IF ~Safe \/ ~Contains(walk.at, WinceBlock) \/ (walk.blocks = 0 /\ ~first) THEN Reject("wince")
       ELSE IF end THEN Answer("wince", walk.blocks > WinceEntries, walk.at + WinceBlock - offset, "high")
       ELSE GoOn([walk EXCEPT !.at = @ + WinceBlock + n, !.last = walk.at,
                              !.blocks = AtMost(@ + 1, WinceEntries + 1)])

-----------------------------------------------------------------------------
(* Dahua's ZIP archives                                                    *)

dahua_zip == zip_archive("dahua_zip")

\* The first two bytes are written anew, the others are copied.
extract_dahua_zip ==
  /\ Asked(0, 4)
  /\ \E eocd \in find_eocd :
       LET total == eocd - offset
       IN Answered("extract_dahua_zip",
            /\ eocd # None /\ eocd > offset /\ total >= 2
            /\ RangeInBounds(offset + 2, total - 2),
            offset + 2, total - 2, "high", 0)

-----------------------------------------------------------------------------
(* CSman: entries with keys, in the data or in what it decompresses to     *)

CsmanHeader == 16

inspect_csman_header(magic) == Contains(offset, CsmanHeader) /\ magic

\* limit is the number of bytes that hold entries.
csman ==
  /\ Asked(0, 2)
  /\ \E magic \in BOOLEAN, compressed, decompressed \in U32 :
       LET limit == IF compressed = decompressed THEN compressed ELSE AtMost(decompressed, available)
       IN IF ~inspect_csman_header(magic) \/ ~RangeInBounds(offset + CsmanHeader, compressed)
          THEN Reject("csman")
          ELSE BeginWithin(limit, 6, [format |-> "csman", at |-> 0, last |-> None, entries |-> 0,
                             stored |-> compressed, limit |-> limit])

\* parse_csman_entry: an entry with its value, or four zero bytes that end the
\* entries where no other has room.
CsmanHas(n) == walk.at <= walk.limit /\ n <= walk.limit - walk.at
csman_eof(zero) == ~CsmanHas(6) /\ CsmanHas(4) /\ zero

csman_entry ==
  /\ Walking("csman")
  /\ \E n \in U16, zero \in BOOLEAN :
       IF ~IsOffsetSafe(walk.limit, walk.at, walk.last) \/ csman_eof(zero) \/ ~CsmanHas(6 + n)
       THEN Answer("csman",
              IsOffsetSafe(walk.limit, walk.at, walk.last) /\ csman_eof(zero) /\ walk.entries > 0,
              CsmanHeader + walk.stored, "high")
       ELSE GoOn([walk EXCEPT !.at = @ + 6 + n, !.last = walk.at, !.entries = 1])

VendorCarveNext ==
  \/ trx \/ extract_trx \/ jboot_arm \/ jboot_stag \/ jboot_sch2 \/ dlke \/ mh01 \/ extract_mh01
  \/ wince \/ wince_block \/ dahua_zip \/ extract_dahua_zip \/ csman \/ csman_entry
=============================================================================
