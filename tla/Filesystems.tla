------------------------------ MODULE Filesystems ------------------------------
(***************************************************************************)
(* The parsers and built-in extractors of filesystems and of volumes       *)
(* (lib/src/formats/b8a_filesystems.cpp, b8b_volumes.cpp and               *)
(* lib/src/builtin_extractors.cpp).  RomFS is a tree of entries whose      *)
(* directories name any place of the image, an earlier one too; a depth    *)
(* and a budget of entries bound the descent.                              *)
(***************************************************************************)
EXTENDS Parsing

CONSTANTS
  RomfsDepth,   \* romfs_max_directory_depth
  RomfsSlack,   \* the entries a RomFS image may hold beyond one for every 16 bytes
  SparseMost    \* android_sparse_max_unsparsed_size

ASSUME FilesystemsAssumption == RomfsDepth \in Nat /\ RomfsSlack \in Nat /\ SparseMost \in Nat

-----------------------------------------------------------------------------
(* CramFS: the magic bytes are sixteen bytes into the header               *)

CramfsHeader == 48

cramfs ==
  /\ Asked(0, 16)
  /\ \E total \in U32, good, sum \in BOOLEAN :
       LET start == offset - 16
           fits == offset >= 16 /\ Contains(start, CramfsHeader) /\ good /\ total > CramfsHeader
                     /\ RangeInBounds(start, total)
       IN Answered("cramfs", fits, start, total, IF sum THEN "high" ELSE "medium",
                   IF fits THEN start + total ELSE 0)

-----------------------------------------------------------------------------
(* RomFS: the parser is a dry run of the extractor                         *)

RomfsHeader == 16

\* The bytes the checksum of the header covers: whole words that the data has.
romfs_crc_valid(total, sum) ==
  LET n == AtMost(total, 512) IN n % 4 = 0 /\ Contains(offset, n) /\ sum

romfs ==
  /\ Asked(0, 8)
  /\ \E total \in U32, sum \in BOOLEAN, name \in Strings(offset + RomfsHeader, 4096) :
       IF /\ Contains(offset, RomfsHeader) /\ total > RomfsHeader /\ romfs_crc_valid(total, sum)
          /\ RangeInBounds(offset, total)
       THEN Begin(RomfsHeader,
              [format |-> "romfs", at |-> RomfsHeader + Aligned(name + 1, 16), last |-> None, limit |-> total,
               above |-> <<>>, budget |-> total \div 16 + RomfsSlack, entries |-> FALSE])
       ELSE Reject("romfs")

RomfsInside(at, n) == at <= walk.limit /\ n <= walk.limit - at

\* A list of entries ends: its directory's list goes on, or the tree is complete.
romfs_list_end ==
  IF walk.above = <<>> THEN Answer("romfs", walk.entries, walk.limit, "high")
  ELSE LET up == walk.above[Len(walk.above)]
       IN GoOn([walk EXCEPT !.at = up.next, !.last = up.at, !.above = SubSeq(@, 1, Len(@) - 1),
                            !.entries = @ \/ Len(walk.above) = 1])

\* A fault: a directory is entered for good, at no depth and from no budget.
romfs_directory_followed(next) ==
  \E info \in U32 : GoOn([walk EXCEPT !.at = info, !.last = None])

\* A directory's list of entries is walked before the rest of the list it is in.
romfs_directory(next) ==
  IF Len(walk.above) = RomfsDepth THEN Reject("romfs")
  ELSE \E info \in U32 :
         GoOn([walk EXCEPT !.at = info, !.last = None, !.budget = @ - 1,
                           !.above = Append(@, [next |-> next, at |-> walk.at])])

\* process_romfs_entries: an entry is passed over (a device, or dots), kept, or a directory.
romfs_entry ==
  /\ Walking("romfs")
  /\ IF ~(walk.at # 0 /\ IsOffsetSafe(walk.limit, walk.at, walk.last)) THEN romfs_list_end
     ELSE IF walk.budget = 0 THEN Reject("romfs")
     ELSE IF ~RomfsInside(walk.at, 16) THEN romfs_list_end
     ELSE \E name \in {n \in Strings(offset + walk.at + 16, 1) : RomfsInside(walk.at + 16, n)} :
            IF name = 0 THEN romfs_list_end
            ELSE \/ \E n \in U32 : ~RomfsInside(walk.at + 16 + Aligned(name + 1, 16), n) /\ Reject("romfs")
                 \/ \E next \in {16 * (header \div 16) : header \in U32}, n \in U32 :
                      /\ RomfsInside(walk.at + 16 + Aligned(name + 1, 16), n)
                      /\ \/ romfs_directory(next)
                         \/ Reject("romfs")                     \* a link to what is not UTF-8
                         \/ \E kept \in BOOLEAN :
                              GoOn([walk EXCEPT !.at = next, !.last = walk.at, !.budget = @ - 1,
                                                !.entries = @ \/ (walk.above = <<>> /\ kept)])

-----------------------------------------------------------------------------
(* Android sparse images: chunks of blocks.  The dry run does not ask that *)
(* the data has a chunk's bytes, the extraction does.                      *)

SparseHeader == 28
SparseChunk == 12

android_sparse(format) ==
  /\ Asked(0, 4)
  /\ \E good \in BOOLEAN, block_size, block_count, chunk_count \in U32 :
       IF /\ Contains(offset, SparseHeader) /\ good /\ block_size % 4 = 0
          /\ CheckedMultiply(block_count, block_size) \in 0 .. SparseMost
       THEN Begin(SparseChunk,
              [format |-> format, at |-> offset + SparseHeader, last |-> None, block_size |-> block_size,
               blocks |-> block_count, chunks |-> chunk_count])
       ELSE Reject(format)

\* blocks and chunks count what is still to come.
android_sparse_done == Answer(walk.format, walk.chunks = 0, walk.at - offset, "high")

SparseChunks(total) == {"raw"} \cup (CASE total = 16 -> {"fill", "crc"} [] total = 12 -> {"dont_care"} [] OTHER -> {})

\* A chunk past the announced number is walked too: the count then differs for good.
android_sparse_chunk ==
  /\ walk.format \in {"android_sparse", "extract_android_sparse"}
  /\ \/ android_sparse_done              \* there is no chunk, or one that does not fit
     \/ /\ Safe /\ Contains(walk.at, SparseChunk)
        /\ \E total \in U32, count \in U32 : \E kind \in SparseChunks(total) :
             LET n == total - SparseChunk
             IN /\ n >= 0 /\ count <= walk.blocks
                /\ kind = "raw" => CheckedMultiply(count, walk.block_size) = n
                /\ walk.format = "extract_android_sparse" => RangeInBounds(walk.at + SparseChunk, n)
                /\ GoOn([walk EXCEPT !.at = @ + total, !.last = walk.at, !.blocks = @ - count, !.chunks = @ - 1])

-----------------------------------------------------------------------------
(* Device trees: the parser compares the ends of two areas with the data,  *)
(* the extractor the size that is claimed                                  *)

DtbHeader == 40

parse_dtb_header(good, struct_offset, strings_offset) ==
  /\ Contains(offset, DtbHeader) /\ good     \* the other fields and the reserved area are
  /\ (struct_offset \div 4) % 2 = 0 /\ struct_offset >= DtbHeader /\ strings_offset >= DtbHeader

dtb ==
  /\ Asked(0, 4)
  /\ \E good \in BOOLEAN, total, struct_offset, strings_offset, struct_size, strings_size \in U32 :
       Answer("dtb",
         /\ parse_dtb_header(good, struct_offset, strings_offset)
         /\ offset + struct_offset + struct_size <= size /\ offset + strings_offset + strings_size <= size,
         total, "medium")

extract_dtb ==
  /\ Asked(0, 4)
  /\ \E good \in BOOLEAN, total, struct_offset, strings_offset \in U32 :
       IF parse_dtb_header(good, struct_offset, strings_offset) /\ RangeInBounds(offset, total)
       THEN BeginWithin(total - struct_offset, 4,
              [format |-> "extract_dtb", at |-> struct_offset, last |-> None, limit |-> total])
       ELSE Reject("extract_dtb")

\* A token; the name of a node, or the length, the name and the value of a property.
DtbNodes(at) ==
  LET Inside(n) == at + n <= walk.limit
  IN {4} \cup {4 + Aligned(name + 1, 4) : name \in {n \in {0, 1, 7} : Inside(4 + n) /\ ~(walk.limit = at + 4)}}
       \cup {12 + Aligned(n, 4) : n \in {n \in U32 : Inside(12 + n)}}

extract_dtb_node ==
  /\ Walking("extract_dtb")
  /\ IF ~IsOffsetSafe(walk.limit, walk.at, walk.last) \/ walk.at + 4 > walk.limit THEN Reject("extract_dtb")
     ELSE \/ Reject("extract_dtb")
          \/ Found("extract_dtb", walk.limit, "medium")
          \/ \E n \in DtbNodes(walk.at) : GoOn([walk EXCEPT !.at = @ + n, !.last = walk.at])

-----------------------------------------------------------------------------
(* Volumes, whose magic bytes are far into them                            *)

\* Where the structure begins whose magic bytes are back bytes into it.
rewind_to_structure_start(back) == IF offset < back THEN None ELSE offset - back

ExtBack == 1080
ExtMaxBlockLog == 2
ExtBlockSize(log) == << 1024, 2048, 4096, 8192 >>[log + 1]

ext ==
  /\ Asked(0, 8)
  /\ \E good \in BOOLEAN, blocks \in U32, log \in 0 .. ExtMaxBlockLog + 1 :
       LET image == rewind_to_structure_start(ExtBack)
           total == CheckedMultiply(ExtBlockSize(log), blocks)
       IN Answered("ext",
            image # None /\ Contains(image, 2048) /\ good /\ log <= ExtMaxBlockLog /\ total # None,
            image, total, "medium", 0)

Sector == 512
MbrMagic == 510
MbrTable == 446

\* A used partition of the table, as far as it ends in the data; the image
\* ends where the last of them does.
mbr_end(partition) == Sector * (partition.start + partition.size)
mbr_fits(partition) == partition.used /\ mbr_end(partition) <= size

mbr ==
  /\ Asked(MbrMagic, 2) /\ offset = 0
  /\ \E p, q \in [start : U32, size : U32, used : BOOLEAN] :
       LET partitions == {r \in {p, q} : mbr_fits(r)}
           ends == {0} \cup {mbr_end(r) : r \in partitions}
           total == CHOOSE n \in ends : \A m \in ends : m <= n
       IN Answered("mbr",
            Contains(offset + MbrTable, 64) /\ (\E r \in partitions : r.start # 0) /\ total > 2 * Sector,
            offset, total, "medium", IF Contains(offset + MbrTable, 64) THEN offset + MbrTable + 64 ELSE 0)

\* A partition is carved where it begins in the data, whatever the image's offset is.
extract_mbr ==
  /\ Asked(MbrMagic, 2) /\ offset = 0
  /\ \E p \in [start : U32, size : U32, used : BOOLEAN] :
       LET start == Sector * p.start
       IN Answered("extract_mbr",
            /\ Contains(offset, Sector) /\ p.used
            /\ start # 0 /\ start <= size /\ Sector * p.size <= size - start,
            start, Sector * p.size, "medium", IF Contains(offset, Sector) THEN offset + Sector ELSE 0)

FatBootSector == 36

fat ==
  /\ Asked(0, 2)
  /\ \E good \in BOOLEAN, bytes_per_sector \in {512, 4096}, total_16 \in U16, total_32 \in U32 :
       LET image == rewind_to_structure_start(MbrMagic)
           total == CheckedMultiply(IF total_16 # 0 THEN total_16 ELSE total_32, bytes_per_sector)
           read == image # None /\ Contains(image, FatBootSector)
       IN Answered("fat", read /\ good /\ total # None /\ total # 0, image, total, "medium",
                   IF read THEN image + FatBootSector ELSE 0)

GptHeader == 92
GptEntry == 56

\* The table of partitions lies in the data and agrees with its checksum.
efigpt ==
  /\ Asked(0, 10)
  /\ \E good, sum \in BOOLEAN, lba \in U64, count, entry_size \in U32 :
       LET image == rewind_to_structure_start(MbrMagic)
           at == CheckedMultiply(lba, Sector)
           n == CheckedMultiply(count, entry_size)
       IN IF \/ image = None
             \/ ~(Contains(image + Sector, GptHeader) /\ good /\ sum)
             \/ at = None \/ n = None
             \/ at > size - image
             \/ n > size - (image + at)
          THEN Reject("efigpt")
          ELSE BeginWithin(n, entry_size, [format |-> "efigpt", from |-> image, table |-> image + at, limit |-> n,
                  entry_size |-> entry_size, at |-> 0, last |-> None, total |-> 0])

\* The end of the last partition counts, but no more than the data holds from
\* the magic bytes on.
efigpt_entry ==
  /\ Walking("efigpt")
  /\ IF IsOffsetSafe(walk.limit, walk.at, walk.last)
     THEN \E used \in BOOLEAN, first, final \in U64 :
            LET start == CheckedMultiply(first, Sector)
                end == CheckedMultiply(final, Sector)
                counts == /\ Contains(walk.table + walk.at, GptEntry) /\ used
                          /\ start # None /\ end # None /\ start < end /\ end > walk.total
            IN GoOn([walk EXCEPT !.at = @ + walk.entry_size, !.last = walk.at,
                       !.total = IF counts THEN end ELSE @])
     ELSE Answered("efigpt", walk.total # 0, walk.from, AtMost(walk.total, available), "high", 0)

NtfsBootSector == 48

\* Of the sectors, the last one is not counted in the header.
ntfs ==
  /\ Asked(0, 11)
  /\ \E good \in BOOLEAN, bytes_per_sector \in U16, sectors \in U64 :
       LET total == CheckedMultiply(bytes_per_sector, sectors + 1)
       IN Answer("ntfs",
            /\ Contains(offset, NtfsBootSector) /\ good /\ sectors # W64 - 1
            /\ total # None /\ total > bytes_per_sector,
            total, "medium")

ApfsBack == 32
ApfsSuperblock == 152

\* An image that misses exactly one sector is taken as cut off there.
apfs ==
  /\ Asked(0, 4)
  /\ \E good \in BOOLEAN, block_size \in U32, blocks \in U64 :
       LET image == rewind_to_structure_start(ApfsBack)
           total == CheckedMultiply(blocks, block_size)
           rest == size - image
       IN Answered("apfs",
            /\ image # None /\ Contains(offset, ApfsSuperblock) /\ good
            /\ block_size # 0 /\ blocks # 0 /\ total # None,
            image, IF total - rest = Sector THEN rest ELSE total, "medium", 0)

BtrfsBack == 65600
BtrfsSuperblock == 65536

btrfs ==
  /\ Asked(0, 8)
  /\ \E sum \in BOOLEAN, total \in U64 :
       LET image == rewind_to_structure_start(BtrfsBack)
       IN Answered("btrfs", image # None /\ Contains(image + BtrfsSuperblock, 4096) /\ sum,
                   image, total, "medium", 0)

\* carve_single: what the extractors of images and of RIFF write is the signature's range.
carve_single ==
  /\ walk = Nowhere /\ answer = Unanswered
  /\ \E n \in U64 :
       Answer("carve_single", offset <= size /\ n <= size - offset /\ n # 0, n, "high")

FilesystemsNext ==
  \/ cramfs \/ romfs \/ romfs_entry
  \/ android_sparse("android_sparse") \/ android_sparse("extract_android_sparse") \/ android_sparse_chunk
  \/ dtb \/ extract_dtb \/ extract_dtb_node
  \/ ext \/ mbr \/ extract_mbr \/ fat \/ efigpt \/ efigpt_entry \/ ntfs \/ apfs \/ btrfs \/ carve_single
=============================================================================
