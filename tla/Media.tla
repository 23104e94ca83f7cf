---------------------------------- MODULE Media --------------------------------
(***************************************************************************)
(* The parsers of images, documents, keys and captures                     *)
(* (lib/src/formats/b2_media.cpp).  What pixels, names and text hold is    *)
(* left out; whether a marker or a text is accepted is a choice.           *)
(***************************************************************************)
EXTENDS Parsing

DibSizes == {12, 40, 108, 124}

bmp ==
  /\ Asked(0, 2)
  /\ \E file_size, pixels \in U32, dib \in {0} \cup DibSizes :
       Answer("bmp",
         /\ Contains(offset, 18) /\ file_size # 0 /\ pixels # 0
         /\ file_size <= available /\ pixels <= available
         /\ dib \in DibSizes /\ pixels >= 14 + dib,
         file_size, "medium")

pdf ==
  /\ Asked(0, 7)
  /\ \E good \in BOOLEAN :
       Answered("pdf", Contains(offset, 16) /\ good, offset, 0, "low",
                IF Contains(offset, 16) THEN offset + 16 ELSE 0)

riff ==
  /\ Asked(0, 4)
  /\ \E payload \in U32, text \in BOOLEAN :
       LET fits == Contains(offset, 12) /\ payload + 8 <= available
       IN Answered("riff", fits /\ text, offset, payload + 8, "medium", IF fits THEN offset + 12 ELSE 0)

\* What an extractor of this family carves: a range of the data, and not an empty one.
carve_range(format, found, n) == Answer(format, found /\ n # 0 /\ Contains(offset, n), n, "none")

\* Every chunk the table names must be readable; the size itself is not compared.
inspect_dxbc(one, chunk, chunks) ==
  /\ Contains(offset, 32) /\ one /\ chunks <= 32
  /\ chunks > 0 => Contains(offset + 32, 4 * chunks) /\ Contains(offset + chunk, 4)

dxbc ==
  /\ Asked(0, 4)
  /\ \E one \in BOOLEAN, total, chunk \in U32, chunks \in {0, 1, 32, 33} :
       Answer("dxbc", inspect_dxbc(one, chunk, chunks), total, "high")

extract_dxbc ==
  /\ Asked(0, 4)
  /\ \E one \in BOOLEAN, total, chunk \in U32, chunks \in {0, 1, 32, 33} :
       carve_range("extract_dxbc", inspect_dxbc(one, chunk, chunks), total)

-----------------------------------------------------------------------------
(* PEM: the first end marker, the line ends after it and the text between  *)

EndMarkers == {24, 25, 34}

inspect_pem ==
  UNION {{at + n - offset + ends : ends \in {e \in {0, 2} : Contains(at + n, e)}} :
           at \in {p \in Positions(offset) : Contains(p, 34)}, n \in EndMarkers}

parse_pem(format) ==
  \/ Reject(format)
  \/ \E n \in inspect_pem : Contains(offset, 26) /\ Found(format, n, "high")

extract_pem_named ==
  Asked(0, 26) /\ \E n \in {None} \cup inspect_pem : carve_range("extract_pem", n # None, n)

pem_certificate == Asked(0, 27) /\ parse_pem("pem_certificate")
pem_public_key == Asked(0, 26) /\ parse_pem("pem_public_key")
pem_private_key == Asked(0, 27) /\ parse_pem("pem_private_key")

-----------------------------------------------------------------------------
(* Marker by marker and chunk by chunk: jpeg, png                          *)

jpeg == Asked(0, 4) /\ Begin(4, [format |-> "jpeg", at |-> offset])

\* A marker with a length of its own, its two bytes and the prefix's; or None.
jpeg_segment(at, n) == IF Contains(at + 2, 2) /\ n >= 2 /\ Contains(at + 2, n) THEN at + 2 + n ELSE None

jpeg_marker ==
  /\ Walking("jpeg")
  /\ \/ Reject("jpeg")
     \/ Contains(walk.at, 2) /\ Answered("jpeg", TRUE, offset, walk.at + 2 - offset, "medium", walk.at + 2)
     \/ Contains(walk.at, 2) /\ GoOn([walk EXCEPT !.at = @ + 2])
     \/ \E n \in U16 :
          /\ Contains(walk.at, 2) /\ jpeg_segment(walk.at, n) # None
          /\ \/ GoOn([walk EXCEPT !.at = jpeg_segment(@, n)])
             \/ \E marker \in Positions(jpeg_segment(walk.at, n)) :   \* a scan, up to the next marker
                  Contains(marker, 2) /\ GoOn([walk EXCEPT !.at = marker])

png == Asked(0, 16) /\ Begin(12, [format |-> "png", at |-> offset + 8, first |-> TRUE])

png_chunk ==
  /\ Walking("png")
  /\ \E payload \in {13} \cup U32, kind \in {"IHDR", "IEND", "other"} :
       IF \/ ~Contains(walk.at, 12) \/ ~Contains(walk.at, payload + 12)
          \/ walk.first /\ (kind # "IHDR" \/ payload # 13) THEN Reject("png")
       ELSE IF kind = "IEND" THEN Found("png", walk.at + payload + 12 - offset, "high")
       ELSE GoOn([walk EXCEPT !.at = @ + payload + 12, !.first = FALSE])

-----------------------------------------------------------------------------
(* Block by block: gif and its sub-blocks, pcapng                          *)

\* gif_color_table_size
ColorTables == {0, 6, 768}

inspect_gif(table) == Contains(offset, 13) /\ offset + 13 + table <= size

gif ==
  /\ Asked(0, 6)
  /\ \E table \in ColorTables :
       IF ~inspect_gif(table) THEN Reject("gif")
       ELSE Begin(3, [format |-> "gif", at |-> offset + 13 + table, last |-> None,
                      sub |-> None, sub_last |-> None])

\* Where the sub-blocks of an image or of an extension begin.
gif_sub_blocks ==
  {walk.at + 10 + table + 1 : table \in {t \in ColorTables : Contains(walk.at, 10)}}
    \cup {walk.at + 2 + n : n \in {n \in {0} \cup {m + 1 : m \in U8} : Contains(walk.at, 3)}}

gif_block ==
  /\ Walking("gif") /\ walk.sub = None
  /\ \/ Reject("gif")
     \/ Safe /\ Answered("gif", TRUE, offset, walk.at + 1 - offset, "high", walk.at + 1)
     \/ Safe /\ \E start \in {s \in gif_sub_blocks : s <= size} :
          GoOn([walk EXCEPT !.sub = start, !.sub_last = None])

\* A sub-block of no bytes ends them; the block ends with it.
gif_sub_block ==
  /\ Walking("gif") /\ walk.sub # None
  /\ \E n \in {0} \cup U8 :
       IF ~IsOffsetSafe(size, walk.sub, walk.sub_last) THEN Reject("gif")
       ELSE IF n = 0 THEN GoOn([walk EXCEPT !.at = walk.sub + 1, !.last = walk.at,
                                            !.sub = None, !.sub_last = None])
       ELSE GoOn([walk EXCEPT !.sub = @ + n + 1, !.sub_last = walk.sub])

\* A block's size stands at both of its ends.
pcapng_block(at, n) == Contains(at, 8) /\ n >= 4 /\ Contains(at + n - 4, 4)

parse_pcapng_section(good, n) == Contains(offset, 20) /\ good /\ pcapng_block(offset, n)

pcapng ==
  /\ Asked(0, 4)
  /\ \E good \in BOOLEAN, n \in U32 :
       IF ~parse_pcapng_section(good, n) THEN Reject("pcapng")
       ELSE Begin(4, [format |-> "pcapng", at |-> offset + n, last |-> None, blocks |-> 1])

pcapng_next_block ==
  /\ Walking("pcapng")
  /\ \E good \in BOOLEAN, n \in U32 :
       IF ~Safe \/ ~good \/ ~pcapng_block(walk.at, n)
       THEN Answer("pcapng", walk.blocks >= 2 /\ walk.at >= offset, walk.at - offset, "high")
       ELSE GoOn([walk EXCEPT !.at = @ + n, !.last = walk.at, !.blocks = 2])

-----------------------------------------------------------------------------
(* Tag by tag: svg                                                         *)

svg == Asked(0, 5) /\ Begin(5, [format |-> "svg", at |-> offset, heads |-> 0, open |-> 0])

svg_tag ==
  /\ Walking("svg")
  /\ \/ Reject("svg")
     \/ \E at \in Positions(walk.at), opens, head \in BOOLEAN :
          LET heads == walk.heads + (IF head THEN 1 ELSE 0)
              open == walk.open + (IF opens THEN 1 ELSE -1)
          IN /\ Contains(at, IF opens THEN 5 ELSE 6)
             /\ IF open < 0 \/ heads > 1 THEN Reject("svg")
                ELSE IF heads = 1 /\ open = 0 THEN Found("svg", at - offset + 6, "medium")
                ELSE GoOn([walk EXCEPT !.at = at + 5, !.heads = heads, !.open = open])

MediaNext ==
  \/ bmp \/ pdf \/ riff \/ dxbc \/ extract_dxbc \/ extract_pem_named \/ pem_certificate \/ pem_public_key \/ pem_private_key
  \/ jpeg \/ jpeg_marker \/ png \/ png_chunk \/ gif \/ gif_block \/ gif_sub_block
  \/ pcapng \/ pcapng_next_block \/ svg \/ svg_tag
=============================================================================
