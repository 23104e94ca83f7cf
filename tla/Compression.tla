------------------------------ MODULE Compression ------------------------------
(***************************************************************************)
(* The parsers of compressed streams (lib/src/formats/b1_compression.cpp)  *)
(* and the headers inspected for gzip and zlib (lib/src/                   *)
(* builtin_extractors.cpp).  Decoders are dry runs that use up some of the *)
(* input or fail.                                                          *)
(***************************************************************************)
EXTENDS Parsing

\* The header of a gzip member: the optional fields follow the ten fixed bytes.
GzipHeaders ==
  LET Extra(at) == {at} \cup {at + 4 + n : n \in {n \in U16 : Contains(at, 4) /\ Contains(at, 4 + n)}}
      Text(at) == {at} \cup {at + n : n \in {n \in {1, size - at} : Contains(at, n) /\ n > 0}}
      Crc(at) == {at} \cup {n \in {at + 2} : Contains(at, 2)}
  IN UNION {UNION {UNION {Crc(c) : c \in Text(t)} : t \in UNION {Text(x) : x \in Extra(e)}} :
              e \in {e \in {offset + 10} : Contains(offset, 10)}}

\* A deflate stream: the input it used up.
Inflated(from) == DryRuns(from)

GzipTrailer == 8

gzip ==
  /\ Asked(0, 3)
  /\ \/ Reject("gzip")
     \/ \E body \in GzipHeaders : \E n \in Inflated(body) \ {None} :
          LET total == body - offset + n + GzipTrailer
          IN Answered("gzip", Contains(offset, total), offset, total, "high", offset + 10)

inspect_zlib(n, sums) == n # None /\ Contains(offset + 2 + n, 4) /\ sums

zlib ==
  /\ Asked(0, 2)
  /\ \E n \in Inflated(offset + 2), sums \in BOOLEAN :
       Answer("zlib", inspect_zlib(n, sums), 2 + n + 4, "high")

extract_gpg_stream == Inflated(offset + 2)

gpg_signed ==
  /\ Asked(0, 2)
  /\ \E n \in extract_gpg_stream : Answer("gpg_signed", n # None, 2 + n, "high")

bzip2 ==
  /\ Asked(0, 10)
  /\ \E n \in DryRuns(offset) : Answer("bzip2", n # None, n, "high")

parse_lzma_header(zero, declared) ==
  Contains(offset, 14) /\ zero /\ declared >= 256 /\ (declared = W64 - 1 \/ declared < W32)

lzma ==
  /\ Asked(0, 5)
  /\ \E zero \in BOOLEAN, declared \in U64, n \in DryRuns(offset) :
       Answered("lzma", parse_lzma_header(zero, declared) /\ n # None, offset, n, "high",
                IF Contains(offset, 14) THEN offset + 14 ELSE 0)

compressd ==
  Asked(0, 3) /\ Found("compressd", 0, IF offset = 0 THEN "medium" ELSE "low")

-----------------------------------------------------------------------------
(* Streams that follow one another: xz                                     *)

xz ==
  Asked(0, 6) /\ Begin(12, [format |-> "xz", at |-> offset, last |-> None, headers |-> 0, total |-> 0])

\* The stream flags agree with their checksum.
parse_xz_header(at, good) == Contains(at, 12) /\ good

xz_done ==
  Answer("xz", walk.headers > 0, walk.total, "high")

xz_stream ==
  /\ Walking("xz")
  /\ \E good \in BOOLEAN, n \in DryRuns(walk.at) :
       IF ~Safe \/ ~parse_xz_header(walk.at, good) THEN xz_done
       ELSE IF n = None THEN Found("xz", walk.total, "high")
       ELSE GoOn([walk EXCEPT !.at = @ + n, !.last = walk.at, !.headers = 1, !.total = @ + n])

-----------------------------------------------------------------------------
(* Blocks that follow one another: zstd, lz4, lzop, lzfse                  *)

ZstdHeaderSize(single, dictionary, content) ==
  5 + (IF single THEN 0 ELSE 1) + << 0, 1, 2, 4 >>[dictionary + 1]
    + (CASE content = 0 -> (IF single THEN 1 ELSE 0) [] content = 1 -> 2
         [] content = 2 -> 4 [] content = 3 -> 8)

parse_zstd_header(unused) == Contains(offset, 5) /\ ~unused

zstd ==
  /\ Asked(0, 4)
  /\ \E unused, single, checksum \in BOOLEAN, dictionary \in 0 .. 3, content \in 0 .. 3 :
       IF ~parse_zstd_header(unused) THEN Reject("zstd")
       ELSE Begin(3, [format |-> "zstd", at |-> offset + ZstdHeaderSize(single, dictionary, content),
                   last |-> None, blocks |-> 0, trailer |-> IF checksum THEN 4 ELSE 0])

ZstdRawBlock == 0
ZstdRleBlock == 1
ZstdReserved == 3

zstd_block_size(kind, n) == 3 + (IF kind = ZstdRleBlock THEN 1 ELSE n)

zstd_block ==
  /\ Walking("zstd")
  /\ \E kind \in {ZstdRawBlock, ZstdRleBlock, ZstdReserved}, n \in U16, end \in BOOLEAN :
       LET next == walk.at + zstd_block_size(kind, n)
           blocks == Next2(walk.blocks)
       IN IF ~Safe \/ ~Contains(walk.at, 3) \/ kind = ZstdReserved THEN Reject("zstd")
          ELSE IF end THEN Answer("zstd", blocks >= 2, next - offset + walk.trailer, "high")
          ELSE GoOn([walk EXCEPT !.at = next, !.last = walk.at, !.blocks = blocks])

\* The descriptor's bytes up to its checksum byte, which is read for itself.
Lz4HeaderEnd(content, dictionary) == 6 + (IF content THEN 8 ELSE 0) + (IF dictionary THEN 4 ELSE 0)

lz4 ==
  /\ Asked(0, 4)
  /\ \E good, content, dictionary, block_checksum, checksum \in BOOLEAN :
       LET end == Lz4HeaderEnd(content, dictionary)
       IN IF ~Contains(offset, 6) \/ ~Contains(offset + 4, end - 4) \/ ~Contains(offset + end, 1)
            THEN Reject("lz4")
          ELSE IF ~good THEN Answered("lz4", FALSE, offset, 0, "none", offset + end + 1)
          ELSE Begin(4, [format |-> "lz4", at |-> offset + end + 1, last |-> None,
                      block_checksum |-> IF block_checksum THEN 4 ELSE 0,
                      trailer |-> IF checksum THEN 4 ELSE 0])

lz4_block_size(n) == 4 + n + walk.block_checksum

lz4_block ==
  /\ Walking("lz4")
  /\ \E n \in {0} \cup U32 :
       LET next == walk.at + lz4_block_size(n)
       IN IF ~Safe \/ ~Contains(walk.at, 4) THEN Reject("lz4")
          ELSE IF n = 0 THEN Found("lz4", next - offset + walk.trailer, "medium")
          ELSE GoOn([walk EXCEPT !.at = next, !.last = walk.at])

\* Blocks carry no checksum: the two flags that would ask for one are never
\* both set in one mask of the code, which tests their conjunction.
LzopBlockChecksum == 0

\* The second part of the header follows the filters, the file's name that.
LzopPart2(filter) == offset + 21 + (IF filter THEN 4 ELSE 0)
lzop_header_size(filter, name) == LzopPart2(filter) + 13 - offset + name + 4

lzop ==
  /\ Asked(0, 9)
  /\ \E good, filter \in BOOLEAN, name \in U8 :
       LET header == lzop_header_size(filter, name)
       IN IF ~Contains(offset, 21) \/ ~good \/ ~Contains(LzopPart2(filter), 13) THEN Reject("lzop")
          ELSE IF header > available THEN Answered("lzop", FALSE, offset, 0, "none", LzopPart2(filter) + 13)
          ELSE Begin(12, [format |-> "lzop", at |-> offset + header, last |-> None, blocks |-> 0])

lzop_end ==
  \E marker \in U32 :
    Answer("lzop", walk.blocks >= 2 /\ walk.at <= size /\ Contains(walk.at, 4) /\ marker = 0,
           walk.at + 4 - offset, "high")

lzop_block_header(good, compressed) == Contains(walk.at, 12) /\ good /\ compressed # 0

lzop_block ==
  /\ Walking("lzop")
  /\ \E good \in BOOLEAN, compressed \in U32 :
       IF ~Safe \/ ~lzop_block_header(good, compressed) THEN lzop_end
       ELSE GoOn([walk EXCEPT !.at = @ + 12 + compressed + LzopBlockChecksum,
                              !.last = walk.at, !.blocks = Next2(@)])

lzfse == Asked(0, 4) /\ Begin(8, [format |-> "lzfse", at |-> offset, last |-> None])

\* The header and the payload of a block of each type, where its fields can be read.
LzfseBlocks(at) ==
  LET Block(need, header, payload) == {[header |-> header, payload |-> p] : p \in {p \in payload : Contains(at, need)}}
      Payloads == {a + b : a, b \in U32}
  IN Block(8, 8, U32) \cup Block(50, 770, Payloads) \cup Block(12, 12, U32)
       \cup UNION {Block(32, h, Payloads) : h \in U32}

lzfse_block ==
  /\ Walking("lzfse")
  /\ \/ Reject("lzfse")
     \/ Safe /\ Contains(walk.at, 4) /\ Found("lzfse", walk.at + 4 - offset, "high")
     \/ Safe /\ \E block \in LzfseBlocks(walk.at) :
          GoOn([walk EXCEPT !.at = @ + block.header + block.payload, !.last = walk.at])

CompressionNext ==
  \/ gzip \/ zlib \/ gpg_signed \/ bzip2 \/ lzma \/ compressd
  \/ xz \/ xz_stream \/ zstd \/ zstd_block \/ lz4 \/ lz4_block
  \/ lzop \/ lzop_block \/ lzfse \/ lzfse_block
=============================================================================
