---------------------------- MODULE FlashFilesystems ---------------------------
(***************************************************************************)
(* The parsers of SquashFS and of the filesystems of flash memory          *)
(* (lib/src/formats/b9a_squashfs.cpp, b9b_jffs2_yaffs.cpp, b9c_ubi.cpp).   *)
(* JFFS2, YAFFS and UBI images have no size of their own: it is found by   *)
(* following nodes, objects or volume headers.                             *)
(***************************************************************************)
EXTENDS Parsing

CONSTANTS
  YaffsMaxObject,    \* yaffs_max_obj_size
  YaffsPages,        \* page_sizes
  YaffsSpares,       \* spare_sizes
  Jffs2MaxPage,      \* jffs2_max_page_size
  VolumeHeaders,     \* max_volume_headers
  VolumeGaps         \* bound: the distances tried between volume headers

ASSUME FlashAssumption ==
  /\ YaffsMaxObject \in Nat /\ YaffsPages \subseteq Nat \ {0} /\ YaffsSpares \subseteq Nat
  /\ Jffs2MaxPage \in Nat /\ VolumeHeaders \in Nat /\ VolumeGaps \subseteq Nat \ {0}

-----------------------------------------------------------------------------
(* SquashFS                                                                *)

SquashfsMinimum == 120

SquashfsHeader(version) == IF version = 4 THEN 56 ELSE 119

parse_squashfs_header(good, total) == available > SquashfsMinimum /\ good /\ total > SquashfsMinimum

\* The first entry of the table of users is read where its offset in the data says.
parse_squashfs_uid_entry(table, version) == Contains(table, IF version = 4 THEN 8 ELSE 4)

\* The table of users is looked for from the image's offset on; its offset in
\* the data is compared with the size of the header.
squashfs ==
  /\ Asked(0, 4)
  /\ \E good \in BOOLEAN, version \in 1 .. 4, total, uid_start \in U64, uid \in U64 :
       LET table == CheckedAdd(offset, uid_start)
           header == SquashfsHeader(version)
       IN Answer("squashfs",
            /\ parse_squashfs_header(good, total) /\ total <= available
            /\ table # None /\ table > header /\ table <= size
            /\ parse_squashfs_uid_entry(table, version)
            /\ (uid = 0 \/ (uid > header /\ uid <= total)),
            total, "high")

-----------------------------------------------------------------------------
(* JFFS2: nodes, each found by its magic bytes after the end of the last   *)
(* one, but not far after it                                               *)

Jffs2Node == 12
Jffs2Nodes == 2

parse_jffs2_node_header(at, good) == Contains(at, Jffs2Node) /\ good

jffs2 ==
  /\ Asked(0, 4)
  /\ \E good \in BOOLEAN, n \in U32 :
       LET end == offset + Aligned(n, 4)
       IN IF ~parse_jffs2_node_header(offset, good) \/ end >= size THEN Reject("jffs2")
          ELSE Begin(Jffs2Node, [format |-> "jffs2", at |-> end, eof |-> end, nodes |-> 1])

\* The size is that of the last node's end, which nothing compares with the data.
jffs2_done == Answer("jffs2", walk.nodes > Jffs2Nodes, walk.eof - offset, "high")

\* Where the magic bytes are found next: at or after the end of the last node.
Jffs2Magics ==
  LET from == IF walk.at < walk.eof THEN walk.eof ELSE walk.at
  IN {p \in {from, from + 3, size - Jffs2Node} : from <= p}

\* With a bad header the search goes on one byte after.
jffs2_node ==
  /\ Walking("jffs2")
  /\ \/ jffs2_done
     \/ \E at \in Jffs2Magics :
          /\ Contains(at, 2)
          /\ IF at - walk.eof > Jffs2MaxPage \/ ~Contains(at, Jffs2Node) THEN jffs2_done
             ELSE \E good \in BOOLEAN, n \in U32 :
                    IF ~parse_jffs2_node_header(at, good) THEN GoOn([walk EXCEPT !.at = at + 1])
                    ELSE GoOn([walk EXCEPT !.at = at + 1, !.eof = at + Aligned(n, 4),
                                           !.nodes = AtMost(@ + 1, Jffs2Nodes + 1)])

-----------------------------------------------------------------------------
(* YAFFS: the sizes of a page and of its spare bytes are found first, then *)
(* objects, a file with its pages after it                                 *)

YaffsObjects == 2
YaffsHeader == 10
YaffsFileInfo == 268

\* The sizes of a page after which a magic, and of spare bytes after which the
\* header of an object lies in the data.
yaffs_page_size == {page \in YaffsPages : IsRangeSafe(size, offset + page, 4)}
yaffs_spare_size(page) ==
  {spare \in YaffsSpares : Contains(offset + (page + spare) * YaffsObjects, YaffsHeader)}

yaffs ==
  /\ Asked(0, 10)
  /\ \/ Reject("yaffs")
     \/ /\ offset + YaffsMaxObject * YaffsObjects < size
        /\ \E page \in yaffs_page_size : \E spare \in yaffs_spare_size(page) :
             Begin(page + spare, [format |-> "yaffs", page |-> page, block |-> page + spare,
                     at |-> 0, last |-> None, budget |-> available \div (page + spare) + 64])

yaffs_image_done == Answer("yaffs", walk.at > walk.block * YaffsObjects /\ walk.at <= available, walk.at, "medium")

\* The pages after a file's header.
yaffs_file_block_count(n) == (n + walk.page - 1) \div walk.page

yaffs_object ==
  /\ Walking("yaffs")
  /\ IF ~IsOffsetSafe(available, walk.at, walk.last) THEN yaffs_image_done
     ELSE IF walk.budget = 0 THEN Reject("yaffs")
     ELSE LET at == offset + walk.at
              Objects(blocks) ==
                LET added == CheckedMultiply(blocks, walk.block)
                IN IF added = None THEN Reject("yaffs")
                   ELSE GoOn([walk EXCEPT !.at = @ + added, !.last = walk.at, !.budget = @ - 1])
          IN \/ yaffs_image_done
             \/ Contains(at, YaffsHeader) /\ Objects(1)
             \/ /\ Contains(at, YaffsHeader)
                /\ IF ~Contains(at + YaffsFileInfo, 28) THEN Reject("yaffs")
                   ELSE \E n \in U32 : Objects(1 + yaffs_file_block_count(n))

-----------------------------------------------------------------------------
(* UBI: as many blocks as volume headers, of the distance between them     *)
(* that is met most often                                                  *)

UbiHeader == 64

parse_ubi_ec_header(good, data_offset, volume_id_offset) ==
  available >= UbiHeader /\ good /\ data_offset >= UbiHeader /\ volume_id_offset >= UbiHeader

ubi ==
  /\ Asked(0, 5)
  /\ \E good \in BOOLEAN, data_offset, volume_id_offset \in U32 :
       IF /\ parse_ubi_ec_header(good, data_offset, volume_id_offset)
          /\ available > data_offset /\ available > volume_id_offset
       THEN Begin(UbiHeader, [format |-> "ubi", at |-> 0, previous |-> 0, blocks |-> 0, candidates |-> <<>>])
       ELSE Reject("ubi")

\* The distances met, in the order they were first met, each with its count.
ubi_count(candidates, distance) ==
  IF \E i \in DOMAIN candidates : candidates[i].size = distance
  THEN [i \in DOMAIN candidates |->
          IF candidates[i].size = distance THEN [candidates[i] EXCEPT !.count = @ + 1] ELSE candidates[i]]
  ELSE Append(candidates, [size |-> distance, count |-> 1])

\* The first of those met most often.
leb_size(candidates) ==
  LET Best == {i \in DOMAIN candidates : \A j \in DOMAIN candidates : candidates[j].count <= candidates[i].count}
  IN candidates[CHOOSE i \in Best : \A j \in Best : i <= j].size

ubi_done ==
  IF walk.candidates = <<>> THEN Reject("ubi")
  ELSE LET total == CheckedMultiply(walk.blocks, leb_size(walk.candidates))
       IN Answer("ubi", total # None, total, "high")

parse_ubi_volume_header(at) == at <= available /\ UbiHeader <= available - at

ubi_volume_header ==
  /\ Walking("ubi")
  /\ \/ ubi_done
     \/ \E gap \in VolumeGaps :
          LET at == walk.at + gap
          IN /\ parse_ubi_volume_header(at)
             /\ IF walk.blocks = VolumeHeaders THEN Reject("ubi")
                ELSE GoOn([walk EXCEPT !.at = at, !.previous = at, !.blocks = @ + 1,
                        !.candidates = IF walk.previous = 0 THEN @ ELSE ubi_count(@, at - walk.previous)])

UbifsStructure == 4096

parse_ubifs_superblock_header(good) == Contains(offset, UbifsStructure) /\ good

ubifs ==
  /\ Asked(0, 4)
  /\ \E good \in BOOLEAN, leb, count \in U32 :
       Answer("ubifs", parse_ubifs_superblock_header(good) /\ CheckedMultiply(count, leb) # None,
              count * leb, "high")

QnxHeader == 64

parse_qnx_ifs_header(good) == Contains(offset, QnxHeader) /\ good

qnx_ifs ==
  /\ Asked(0, 6)
  /\ \E good \in BOOLEAN, total \in U32 :
       Answer("qnx_ifs", parse_qnx_ifs_header(good) /\ total <= available, total, "low")

FlashFilesystemsNext ==
  \/ squashfs \/ jffs2 \/ jffs2_node \/ yaffs \/ yaffs_object
  \/ ubi \/ ubi_volume_header \/ ubifs \/ qnx_ifs
=============================================================================
