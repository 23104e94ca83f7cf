-------------------------------- MODULE Archives -------------------------------
(***************************************************************************)
(* The parsers of archives (lib/src/formats/b7_archives.cpp,               *)
(* zip_structures.hpp).  Entries are walked from header to header; what a  *)
(* name, a checksum or a date holds is left out, whether it is accepted is *)
(* a choice.                                                               *)
(***************************************************************************)
EXTENDS Parsing

\* parse_ascii_decimal and parse_ascii_hex: a number of so many digits, or None.
Digits(from, n, values) == {None} \cup (IF Contains(from, n) THEN values ELSE {})

deb ==
  /\ Asked(0, 24)
  /\ \E control \in Digits(offset + 120, 10, U32) :
       LET start == CheckedAdd(control, 130 + 2 + 48)
       IN IF control = None \/ start > available THEN Reject("deb")
          ELSE \E contents \in Digits(offset + start, 10, U32) :
                 LET total == CheckedAdd(start + 10, 2 + contents)
                 IN Answer("deb", contents # None /\ total # None /\ total <= available, total, "high")

\* A fault: the two fields are added first and their sum is compared.
sevenzip_adding_first ==
  /\ Asked(0, 6)
  /\ \E next_offset, next_size \in U64 :
       Answer("7zip", Contains(offset, 32) /\ Wrap(next_offset + next_size) <= available - 32,
              32 + next_offset + next_size, "high")

sevenzip ==
  /\ Asked(0, 6)
  /\ \E good \in BOOLEAN, next_offset, next_size \in U64 :
       IF ~Contains(offset, 32) \/ ~good THEN Reject("7zip")
       ELSE LET rest == available - 32
                fits == next_offset <= rest /\ next_size <= rest - next_offset
            IN Answered("7zip", fits, offset, 32 + next_offset + next_size, "high",
                        IF fits THEN offset + 32 + next_offset + next_size ELSE 0)

iso9660 ==
  /\ Asked(0, 8)
  /\ \E agree \in BOOLEAN, volume_size \in U32, block_size \in U16 :
       LET start == offset - 32768
       IN IF offset < 32768 \/ ~Contains(start + 32840, 68) \/ ~agree THEN Reject("iso9660")
          ELSE Answered("iso9660", CheckedMultiply(volume_size, block_size) # None, start,
                        CheckedMultiply(volume_size, block_size), "high", 0)

CabExtra == 20

cab ==
  /\ Asked(0, 8)
  /\ \E good, extra \in BOOLEAN, cabinet_size, extra_at, extra_size \in U32 :
       /\ ~extra => extra_at = cabinet_size /\ extra_size = 0
       /\ LET total == CheckedAdd(cabinet_size, extra_size)
          IN Answer("cab",
               /\ Contains(offset, 40) /\ good
               /\ extra => Contains(offset + 40, CabExtra) /\ extra_at = cabinet_size
               /\ total # None /\ total <= available,
               total, "medium")

\* The search for the marker that ends the archive; without it the size is 0.
rar ==
  /\ Asked(0, 6)
  /\ \E version \in {4, 5, None}, eof \in BOOLEAN, at \in Positions(offset) :
       LET marker == IF version = 4 THEN 7 ELSE 8
       IN IF ~Contains(offset, 7) \/ version = None THEN Reject("rar")
          ELSE IF eof /\ Contains(at, marker) THEN Found("rar", at - offset + marker, "medium")
          ELSE Found("rar", 0, "low")

\* The line feed before the last record, and the end of the line of that record.
parse_srecord(format) ==
  \/ Reject(format)
  \/ \E line \in Positions(offset), windows \in BOOLEAN :
       \E current \in Positions(line + 3) :
         LET feed == IF windows THEN current + 1 ELSE current
         IN /\ Contains(line, 3) /\ IsOffsetSafe(size, current, None)
            /\ Answered(format, Contains(feed, 1), offset, feed + 1 - offset, "high",
                        IF Contains(feed, 1) THEN feed + 1 ELSE current + 1)

srecord == Asked(0, 16) /\ parse_srecord("srecord")
srecord_generic == Asked(0, 2) /\ parse_srecord("srecord_generic")

arj ==
  /\ Asked(0, 2)
  /\ \E good \in BOOLEAN, header_size \in U8 :
       Answer("arj", Contains(offset, 24) /\ good /\ header_size <= available, header_size, "medium")

-----------------------------------------------------------------------------
(* Archives that are walked from entry to entry                            *)

tarball ==
  /\ Asked(0, 6)
  /\ IF offset < 257 THEN Reject("tarball")
     ELSE Begin(512, [format |-> "tarball", from |-> offset - 257, at |-> offset - 257,
                      last |-> None, total |-> 0, headers |-> 0])

TarBlocks(reported) == 512 * (1 + reported \div 512 + (IF reported % 512 # 0 THEN 1 ELSE 0))

TarHigh == 10

tarball_done(total, headers) ==
  Answered("tarball", total >= 512, walk.from, total, IF headers >= TarHigh THEN "high" ELSE "medium", 0)

\* A header with a good checksum counts even when it is not one of ustar's.
tarball_entry ==
  /\ Walking("tarball")
  /\ \E checksum, ustar \in BOOLEAN, reported \in U32 :
       LET total == CheckedAdd(walk.total, TarBlocks(reported))
           next == walk.at + TarBlocks(reported)
           headers == AtMost(walk.headers + 1, TarHigh)
       IN IF ~Safe \/ ~Contains(walk.at, 512) \/ ~checksum THEN tarball_done(walk.total, walk.headers)
          ELSE IF ~ustar \/ total = None THEN tarball_done(walk.total, headers)
          ELSE IF next > size THEN tarball_done(total, headers)
          ELSE GoOn([walk EXCEPT !.at = next, !.last = walk.at, !.total = total, !.headers = headers])

cpio == Asked(0, 6) /\ Begin(111, [format |-> "cpio", at |-> offset, last |-> None, total |-> 0, headers |-> 0])

\* The padded sizes of an entry's header, with its name, and of its contents.
cpio_entries(at) ==
  {Aligned(110 + name, 4) + Aligned(contents, 4) : contents \in U32,
     name \in {n \in U32 \ {0} : Contains(at, 111) /\ n - 1 <= size /\ Contains(at + 110, n - 1)}}

cpio_entry ==
  /\ Walking("cpio")
  /\ \/ Reject("cpio")                                   \* there is no entry where it should be
     \/ Safe /\ \E entry \in cpio_entries(walk.at), trailer \in BOOLEAN :
          LET total == CheckedAdd(walk.total, entry)
              next == offset + total
          IN IF trailer THEN Answer("cpio", walk.headers >= 1, total, "high")
             ELSE IF next > size THEN Reject("cpio")
             ELSE GoOn([walk EXCEPT !.at = next, !.last = walk.at, !.total = total, !.headers = 1])

\* parse_local_header: the size of an entry, with its header, or None.
zip_entry_size(at, name, extra, compressed, uncompressed) ==
  LET header == 30 + name + extra
      contents == IF compressed > 0 THEN compressed ELSE uncompressed
      rest == size - at
  IN IF Contains(at, 30) /\ header <= rest /\ contents <= rest - header
     THEN header + contents ELSE None

LocalHeaders(at) ==
  {None} \cup {zip_entry_size(at, name, 0, compressed, 5) : name \in U16, compressed \in U32}

\* find_eocd: the end of the end-of-central-directory record found first, or None.
find_eocd ==
  {None} \cup UNION {{at + 22 + n : n \in {n \in U16 : Contains(at, 22 + n)}} : at \in Positions(offset)}

\* The size comes from the record at the end or, without it, from the entries.
zip_archive(format) ==
  /\ Asked(0, 4)
  /\ \E first \in LocalHeaders(offset), eocd \in find_eocd :
       IF first = None THEN Reject(format)
       ELSE IF eocd # None THEN Found(format, eocd - offset, "high")
       ELSE Begin(30, [format |-> format, at |-> offset + first])

zip == zip_archive("zip")

zip_entry ==
  /\ walk.format \in {"zip", "dahua_zip"}
  /\ \E next \in LocalHeaders(walk.at) :
       IF walk.at >= size \/ next = None
       THEN Answer(walk.format, walk.at > offset, walk.at - offset, "high")
       ELSE GoOn([walk EXCEPT !.at = @ + next])

-----------------------------------------------------------------------------
(* Matter OTA: elements with tags, in the header that follows sixteen bytes *)

MatterFixed == 16

\* The parser asks for the header, and the extractor does again.
matter_ota(format) ==
  /\ Asked(0, 4)
  /\ \E header_size \in U32 :
       IF ~Contains(offset, MatterFixed) \/ ~Contains(offset + MatterFixed, header_size) THEN Reject(format)
       ELSE BeginWithin(header_size, 2, [format |-> format, at |-> 0, last |-> None, limit |-> header_size, payload |-> 0])

\* The payload is carved only if it lies in the data.  Where it does not, the
\* extractor reports success with the size in the header and writes nothing.
matter_ota_done ==
  \E exact \in BOOLEAN :   \* whether the size in the header is that of its parts
    LET total == CheckedAdd(walk.payload, MatterFixed + walk.limit)
        start == offset + MatterFixed + walk.limit
    IN IF total = None \/ ~exact THEN Reject(walk.format)
       ELSE IF walk.format = "matter_ota" THEN Found("matter_ota", walk.limit, "high")
       ELSE IF RangeInBounds(start, walk.payload)
       THEN Answered("extract_matter_ota", TRUE, start, walk.payload, "high", 0)
       ELSE Found("matter_ota_uncarved", total, "high")

\* An element is a control octet, a tag octet if it has one and its field or
\* its string, with the length of that; it must lie in the header.
tlv_elements(at) ==
  LET Inside(n) == at + n <= walk.limit
      Field(tag) == {[tagged |-> tag = 2, field |-> TRUE, consumed |-> tag + width] :
                       width \in {w \in {0, 1, 8} : Inside(tag + w)}}
      String(tag) == {[tagged |-> tag = 2, field |-> FALSE, consumed |-> tag + width + n] :
                        width \in {w \in {1, 8} : Inside(tag + w)}, n \in {n \in U8 : Inside(tag + 8 + n)}}
  IN UNION {Field(tag) \cup String(tag) : tag \in {t \in {1, 2} : Inside(t)}}

\* The field tagged as the payload's size is kept, other tags are passed over if they are known.
matter_ota_element ==
  /\ walk.format \in {"matter_ota", "extract_matter_ota"}
  /\ IF ~IsOffsetSafe(walk.limit, walk.at, walk.last) THEN matter_ota_done
     ELSE \/ Reject(walk.format)
          \/ \E element \in tlv_elements(walk.at) :
               \E payload \in {walk.payload} \cup (IF element.tagged /\ element.field THEN U64 ELSE {}) :
                 GoOn([walk EXCEPT !.at = @ + element.consumed, !.last = walk.at, !.payload = payload])

ArchivesNext ==
  \/ deb \/ sevenzip \/ iso9660 \/ cab \/ rar \/ srecord \/ srecord_generic \/ arj
  \/ tarball \/ tarball_entry \/ cpio \/ cpio_entry \/ zip \/ zip_entry
  \/ matter_ota("matter_ota") \/ matter_ota("extract_matter_ota") \/ matter_ota_element
=============================================================================
