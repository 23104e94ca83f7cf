----------------------------- MODULE FormatsProofs ----------------------------
(***************************************************************************)
(* For data of any size, any offset and any values of the fields: what a   *)
(* parser claims and reads lies in the data, no size wraps around, and     *)
(* every walk goes on.  And of the lengths of the strings they read: the   *)
(* memo never claims what is untrue, changes no answer, and reads no byte  *)
(* twice for views asked for in ascending order.                           *)
(***************************************************************************)
EXTENDS Formats, CStringMemo, SequenceTheorems, FiniteSetTheorems, WellFoundedInduction, TLAPS

-----------------------------------------------------------------------------
(* Arithmetic                                                              *)

\* A non-empty set of natural numbers has a least element.
LEMMA LeastNatural ==
  ASSUME NEW T, T \subseteq Nat, T # {}
  PROVE  \E x \in T : \A y \in T : x <= y
<1> DEFINE U == {0 .. x : x \in T}
<1>1. U \subseteq FiniteSubsetsOf(Nat)
  <2> SUFFICES ASSUME NEW x \in T PROVE 0 .. x \in FiniteSubsetsOf(Nat)
    OBVIOUS
  <2>1. IsFiniteSet(0 .. x)
    BY FS_Interval
  <2> QED BY <2>1 DEF FiniteSubsetsOf
<1>2. PICK u \in U : \A v \in U : <<v, u>> \notin StrictSubsetOrdering(Nat)
  <2>1. U # {}
    OBVIOUS
  <2> HIDE DEF U
  <2> QED BY <1>1, <2>1, FS_StrictSubsetOrderingWellFounded, WFMin
<1>3. PICK x \in T : u = 0 .. x
  OBVIOUS
<1>4. ASSUME NEW y \in T, y < x PROVE FALSE
  <2>1. 0 .. y \subseteq 0 .. x
    BY <1>4
  <2>2. x \in 0 .. x /\ x \notin 0 .. y
    BY <1>4
  <2>3. <<0 .. y, 0 .. x>> \in StrictSubsetOrdering(Nat)
    BY <2>1, <2>2 DEF StrictSubsetOrdering
  <2> QED BY <2>3, <1>2, <1>3
<1> QED BY <1>4

LEMMA Remainder ==
  ASSUME NEW m \in Nat, 0 < m, NEW n \in Nat, n < m
  PROVE  n % m = n
OBVIOUS

LEMMA Quotient ==
  ASSUME NEW m \in Nat, 0 < m, NEW n \in Nat
  PROVE  n \div m \in Nat /\ m * (n \div m) <= n
OBVIOUS

\* A value of 64 bits is what it is after it wrapped around.
LEMMA WrapKeeps == ASSUME NEW n \in 0 .. W64 - 1 PROVE Wrap(n) = n
<1>1. W64 \in Nat /\ 0 < W64 /\ n \in Nat /\ n < W64
  BY WidthAssumption
<1> QED
  BY <1>1, Remainder DEF Wrap

\* A product of naturals grows with either of them.
LEMMA ProductGrows ==
  ASSUME NEW a \in Nat, NEW b \in Nat, NEW c \in Nat, b <= c
  PROVE  a * b \in Nat /\ a * b <= a * c
OBVIOUS

\* A product that is given is the product, and fits.
LEMMA ProductFits ==
  ASSUME NEW a \in Nat, NEW b \in Nat, CheckedMultiply(a, b) # None
  PROVE  CheckedMultiply(a, b) = a * b /\ a * b \in 0 .. W64 - 1
<1>1. CheckedMultiply(a, b) = a * b /\ (a = 0 \/ ~(b > (W64 - 1) \div a))
  BY DEF CheckedMultiply
<1>2. a * b \in Nat /\ W64 - 1 \in Nat
  BY WidthAssumption, ProductGrows
<1>3. CASE a = 0
  BY <1>1, <1>2, <1>3
<1>4. CASE a # 0
  <2>1. PICK q \in Nat : q = (W64 - 1) \div a /\ a * q <= W64 - 1
    BY <1>2, <1>4, Quotient
  <2>2. b <= q
    BY <1>1, <1>4, <2>1
  <2>3. a * b <= a * q /\ a * q \in Nat
    BY <2>1, <2>2, ProductGrows
  <2> QED
    BY <1>1, <1>2, <2>1, <2>3
<1> QED
  BY <1>3, <1>4

LEMMA AlignedUp ==
  ASSUME NEW n \in Nat
  PROVE  /\ Aligned(n, 4) \in Nat /\ n <= Aligned(n, 4) /\ Aligned(n, 4) <= n + 3
         /\ Aligned(n, 16) \in Nat /\ n <= Aligned(n, 16) /\ Aligned(n, 16) <= n + 15
BY DEF Aligned

-----------------------------------------------------------------------------
(* The invariant                                                           *)

\* What the properties say of one answer.
Sound(a) ==
  /\ a.found /\ a.format \notin Unchecked => a.from >= 0 /\ a.from + a.size <= size
  /\ a.read <= size
  /\ a.size = a.total

Lasts == Nat \cup {None}

\* Where the loop over the entries of each format can be: at a place, mostly
\* after the last one, with what it counts.
Loop(w, format, counts) ==
  /\ DOMAIN w = {"format", "at"} \cup counts /\ w.format = format
  /\ w.at \in Nat
LastLoop(w, format, counts) == Loop(w, format, {"last"} \cup counts) /\ w.last \in Lasts

XzLoop(w) ==
  /\ LastLoop(w, "xz", {"headers", "total"}) /\ w.headers \in Nat /\ w.total \in Nat
  /\ w.at = offset + w.total /\ w.at <= size
ZstdLoop(w) ==
  /\ LastLoop(w, "zstd", {"blocks", "trailer"}) /\ w.blocks \in Nat /\ w.trailer \in {0, 4}
  /\ w.at >= offset
Lz4Loop(w) ==
  /\ LastLoop(w, "lz4", {"block_checksum", "trailer"}) /\ w.block_checksum \in {0, 4} /\ w.trailer \in {0, 4}
  /\ w.at >= offset
LzopLoop(w) == LastLoop(w, "lzop", {"blocks"}) /\ w.blocks \in Nat /\ w.at >= offset
LzfseLoop(w) == LastLoop(w, "lzfse", {}) /\ w.at >= offset
JpegLoop(w) == Loop(w, "jpeg", {}) /\ w.at >= offset
PngLoop(w) == Loop(w, "png", {"first"}) /\ w.first \in BOOLEAN /\ w.at >= offset
GifLoop(w) ==
  /\ LastLoop(w, "gif", {"sub", "sub_last"}) /\ w.sub \in Lasts /\ w.sub_last \in Lasts
  /\ w.at >= offset /\ (w.sub # None => w.sub > w.at)
PcapngLoop(w) == LastLoop(w, "pcapng", {"blocks"}) /\ w.blocks \in Nat /\ w.at >= offset /\ w.at <= size
SvgLoop(w) == Loop(w, "svg", {"heads", "open"}) /\ w.heads \in Nat /\ w.open \in Nat /\ w.at >= offset
DpapiLoop(w) == Loop(w, "dpapi", {"part"}) /\ w.part \in 1 .. 6
TarballLoop(w) ==
  /\ LastLoop(w, "tarball", {"from", "total", "headers"}) /\ w.from \in Nat /\ w.headers \in Nat
  /\ w.total \in Nat /\ w.total < W64
CpioLoop(w) ==
  /\ LastLoop(w, "cpio", {"total", "headers"}) /\ w.total \in Nat /\ w.headers \in Nat
  /\ w.at = offset + w.total /\ w.at <= size
ZipLoop(w) == Loop(w, w.format, {}) /\ w.at >= offset /\ w.at <= size
MatterLoop(w) ==
  /\ LastLoop(w, w.format, {"limit", "payload"}) /\ w.limit \in Nat /\ w.payload \in Nat
  /\ offset + MatterFixed + w.limit <= size
WinceLoop(w) == LastLoop(w, "wince", {"blocks"}) /\ w.blocks \in Nat /\ w.at >= offset
CsmanLoop(w) ==
  /\ LastLoop(w, "csman", {"entries", "stored", "limit"})
  /\ w.entries \in Nat /\ w.stored \in Nat /\ w.limit \in Nat
  /\ offset + CsmanHeader + w.stored <= size
RomfsLoop(w) ==
  /\ LastLoop(w, "romfs", {"limit", "above", "budget", "entries"})
  /\ w.limit \in Nat /\ w.budget \in Nat
  /\ w.above \in Seq([next : Nat, at : Nat])
  /\ offset + w.limit <= size
SparseLoop(w) ==
  /\ LastLoop(w, w.format, {"block_size", "blocks", "chunks"})
  /\ w.block_size \in Nat /\ w.blocks \in Nat /\ w.chunks \in Int
  /\ w.at >= offset /\ w.at <= size + W32
  /\ w.format = "extract_android_sparse" => w.at <= size
DtbLoop(w) == LastLoop(w, "extract_dtb", {"limit"}) /\ w.limit \in Nat /\ offset + w.limit <= size
EfigptLoop(w) ==
  /\ LastLoop(w, "efigpt", {"from", "table", "limit", "entry_size", "total"})
  /\ w.from \in Nat /\ w.table \in Nat /\ w.limit \in Nat /\ w.entry_size \in Nat /\ w.total \in Nat
  /\ w.from <= offset
Jffs2Loop(w) ==
  /\ Loop(w, "jffs2", {"eof", "nodes"}) /\ w.eof \in Nat /\ w.nodes \in Nat
  /\ w.eof >= offset /\ w.eof <= size + W32 + 4
YaffsLoop(w) ==
  /\ LastLoop(w, "yaffs", {"page", "block", "budget"})
  /\ w.page \in Nat \ {0} /\ w.block \in Nat /\ w.budget \in Nat
UbiLoop(w) ==
  /\ Loop(w, "ubi", {"previous", "blocks", "candidates"})
  /\ w.previous \in Nat /\ w.blocks \in Nat /\ w.candidates \in Seq([size : Nat, count : Nat])
  /\ w.previous <= w.at
VxworksLoop(w) ==
  /\ LastLoop(w, "vxworks_symtab", {"from", "entries"}) /\ w.from \in Nat /\ w.entries \in Nat
  /\ w.from <= w.at /\ w.at <= size

Shaped(w) ==
  \/ w = Nowhere
  \/ XzLoop(w) \/ ZstdLoop(w) \/ Lz4Loop(w) \/ LzopLoop(w) \/ LzfseLoop(w)
  \/ JpegLoop(w) \/ PngLoop(w) \/ GifLoop(w) \/ PcapngLoop(w) \/ SvgLoop(w) \/ DpapiLoop(w)
  \/ TarballLoop(w) \/ CpioLoop(w)
  \/ w.format \in {"zip", "dahua_zip"} /\ ZipLoop(w)
  \/ w.format \in {"matter_ota", "extract_matter_ota"} /\ MatterLoop(w)
  \/ WinceLoop(w) \/ CsmanLoop(w) \/ RomfsLoop(w)
  \/ w.format \in {"android_sparse", "extract_android_sparse"} /\ SparseLoop(w)
  \/ DtbLoop(w) \/ EfigptLoop(w) \/ Jffs2Loop(w) \/ YaffsLoop(w) \/ UbiLoop(w) \/ VxworksLoop(w)

FormatsInv ==
  /\ size \in DataSizes /\ offset \in Nat /\ offset <= size
  /\ answer # Unanswered => Sound(answer)
  /\ Shaped(walk)
  /\ walk = Nowhere \/ answer = Unanswered

\* What WalksAdvance says of a loop that goes on.
Advances(v, w) ==
  \/ ~Stuck(v) /\ (Position(w) > Position(v) \/ Stuck(w))
  \/ v.format = "romfs" /\ (w.budget < v.budget \/ Len(w.above) < Len(v.above))

\* What a step of a parser must do: the data stays, an answer is sound, a walk
\* is where it can be, and further on.
Kept ==
  /\ UNCHANGED <<size, offset>>
  /\ answer' # Unanswered => Sound(answer')
  /\ Shaped(walk')
  /\ walk' = Nowhere \/ answer' = Unanswered
  /\ walk # Nowhere /\ walk' # Nowhere => Advances(walk, walk')

LEMMA Bounds ==
  ASSUME FormatsInv
  PROVE  size \in Nat /\ offset \in Nat /\ offset <= size /\ 2 * size <= W64
BY WidthAssumption DEF FormatsInv

-----------------------------------------------------------------------------
(* The ways a step ends                                                    *)

\* A sound answer.
LEMMA Answering ==
  ASSUME UNCHANGED <<size, offset>>, walk' = Nowhere, Sound(answer')
  PROVE  Kept
BY DEF Kept, Shaped

LEMMA Rejecting ==
  ASSUME FormatsInv, NEW format, Reject(format)
  PROVE  Kept
<1>1. Sound(answer')
  BY Bounds DEF Reject, Answer, Answered, Sound
<1> QED
  BY <1>1, Answering DEF Reject, Answer, Answered

\* A loop is begun.
LEMMA Beginning ==
  ASSUME FormatsInv, NEW n, NEW unit, NEW w, walk = Nowhere, answer = Unanswered,
         BeginWithin(n, unit, w), Shaped(w)
  PROVE  Kept
BY DEF BeginWithin, Kept

\* A loop goes on.
LEMMA GoingOn ==
  ASSUME FormatsInv, NEW w, walk # Nowhere, GoOn(w), Shaped(w), Advances(walk, w)
  PROVE  Kept
BY DEF FormatsInv, GoOn, Kept

\* The format of a walk tells where it can be.
LEMMA FormatTells ==
  ASSUME FormatsInv
  PROVE  /\ walk.format # "none" => walk # Nowhere /\ answer = Unanswered
         /\ walk.format = "xz" => XzLoop(walk)
         /\ walk.format = "zstd" => ZstdLoop(walk)
         /\ walk.format = "lz4" => Lz4Loop(walk)
         /\ walk.format = "lzop" => LzopLoop(walk)
         /\ walk.format = "lzfse" => LzfseLoop(walk)
         /\ walk.format = "jpeg" => JpegLoop(walk)
         /\ walk.format = "png" => PngLoop(walk)
         /\ walk.format = "gif" => GifLoop(walk)
         /\ walk.format = "pcapng" => PcapngLoop(walk)
         /\ walk.format = "svg" => SvgLoop(walk)
         /\ walk.format = "dpapi" => DpapiLoop(walk)
         /\ walk.format = "tarball" => TarballLoop(walk)
         /\ walk.format = "cpio" => CpioLoop(walk)
         /\ walk.format \in {"zip", "dahua_zip"} => ZipLoop(walk)
         /\ walk.format \in {"matter_ota", "extract_matter_ota"} => MatterLoop(walk)
         /\ walk.format = "wince" => WinceLoop(walk)
         /\ walk.format = "csman" => CsmanLoop(walk)
         /\ walk.format = "romfs" => RomfsLoop(walk)
         /\ walk.format \in {"android_sparse", "extract_android_sparse"} => SparseLoop(walk)
         /\ walk.format = "extract_dtb" => DtbLoop(walk)
         /\ walk.format = "efigpt" => EfigptLoop(walk)
         /\ walk.format = "jffs2" => Jffs2Loop(walk)
         /\ walk.format = "yaffs" => YaffsLoop(walk)
         /\ walk.format = "ubi" => UbiLoop(walk)
         /\ walk.format = "vxworks_symtab" => VxworksLoop(walk)
BY DEF FormatsInv, Shaped, Nowhere, Loop, LastLoop, XzLoop, ZstdLoop, Lz4Loop, LzopLoop, LzfseLoop, JpegLoop, PngLoop,
       GifLoop, PcapngLoop, SvgLoop, DpapiLoop, TarballLoop, CpioLoop, ZipLoop, MatterLoop, WinceLoop,
       CsmanLoop, RomfsLoop, SparseLoop, DtbLoop, EfigptLoop, Jffs2Loop, YaffsLoop, UbiLoop, VxworksLoop

\* A loop that tests its offset goes on to a later one, or back.
LEMMA OnwardWithin ==
  ASSUME FormatsInv, NEW limit, NEW w, walk # Nowhere, GoOn(w), Shaped(w), walk.format # "gif", w.format # "gif",
         IsOffsetSafe(limit, walk.at, walk.last), walk.at \in Nat, walk.last \in Lasts,
         w.at > walk.at \/ ("last" \in DOMAIN w /\ w.last >= w.at)
  PROVE  Kept
<1>1. ~(walk.last >= walk.at)
  BY DEF IsOffsetSafe, Lasts, None
<1>2. Advances(walk, w)
  BY <1>1, Zenon DEF Advances, Stuck, Position
<1> QED
  BY <1>2, GoingOn

LEMMA Onward ==
  ASSUME FormatsInv, NEW w, walk # Nowhere, GoOn(w), Shaped(w), walk.format # "gif", w.format # "gif",
         Safe, walk.at \in Nat, walk.last \in Lasts,
         w.at > walk.at \/ ("last" \in DOMAIN w /\ w.last >= w.at)
  PROVE  Kept
BY OnwardWithin DEF Safe

\* A loop that has no such test goes on to a later offset.
LEMMA Further ==
  ASSUME FormatsInv, NEW w, walk # Nowhere, GoOn(w), Shaped(w), walk.format # "gif", w.format # "gif",
         "last" \notin DOMAIN walk, w.at > walk.at
  PROVE  Kept
<1>1. Advances(walk, w)
  BY Zenon DEF Advances, Stuck, Position
<1> QED
  BY <1>1, GoingOn

LEMMA PositionsAhead ==
  ASSUME FormatsInv, NEW from \in Nat, NEW p \in Positions(from)
  PROVE  p \in Nat /\ from <= p /\ p <= size
BY Bounds DEF Positions

LEMMA Carving ==
  ASSUME FormatsInv, NEW format, NEW found, NEW n, found => n \in Nat, carve_range(format, found, n)
  PROVE  Kept
BY Answering, Bounds, WidthAssumption, WrapKeeps DEF carve_range, Answer, Answered, Sound, Contains

-----------------------------------------------------------------------------
(* Compressed streams                                                      *)

\* A header that is read ends in the data or where the next read is checked.
LEMMA GzipHeaderIsAhead ==
  ASSUME FormatsInv, NEW body \in GzipHeaders
  PROVE  body \in Nat /\ body >= offset + 10 /\ Contains(offset, 10)
<1> DEFINE Extra(at) == {at} \cup {at + 4 + n : n \in {n \in U16 : Contains(at, 4) /\ Contains(at, 4 + n)}}
           Text(at) == {at} \cup {at + n : n \in {n \in {1, size - at} : Contains(at, n) /\ n > 0}}
           Crc(at) == {at} \cup {n \in {at + 2} : Contains(at, 2)}
           After(at) == {n \in Nat : n >= at}
<1>1. \A at \in Nat : Extra(at) \subseteq After(at) /\ Text(at) \subseteq After(at) /\ Crc(at) \subseteq After(at)
  BY WidthAssumption, Bounds
<1>2. body \in UNION {UNION {UNION {Crc(c) : c \in Text(t)} : t \in UNION {Text(x) : x \in Extra(e)}} :
                        e \in {e \in {offset + 10} : Contains(offset, 10)}}
  BY DEF GzipHeaders
<1> HIDE DEF Extra, Text, Crc
<1>3. PICK e \in {e \in {offset + 10} : Contains(offset, 10)} :
        body \in UNION {UNION {Crc(c) : c \in Text(t)} : t \in UNION {Text(x) : x \in Extra(e)}}
  BY <1>2, Zenon
<1>4. PICK t \in UNION {Text(x) : x \in Extra(e)} : body \in UNION {Crc(c) : c \in Text(t)}
  BY <1>3, Zenon
<1>5. PICK x \in Extra(e) : t \in Text(x)
  BY <1>4, Zenon
<1>6. PICK c \in Text(t) : body \in Crc(c)
  BY <1>4, Zenon
<1>7. e \in Nat /\ e = offset + 10 /\ Contains(offset, 10)
  BY <1>3, Bounds
<1>8. x \in Nat /\ x >= e
  BY <1>1, <1>5, <1>7
<1>9. t \in Nat /\ t >= x
  BY <1>1, <1>5, <1>8
<1>10. c \in Nat /\ c >= t
  BY <1>1, <1>6, <1>9
<1> QED
  BY <1>1, <1>6, <1>7, <1>8, <1>9, <1>10, Bounds

LEMMA DryRunEnds ==
  ASSUME NEW from \in Int, NEW n \in DryRuns(from), n # None, size \in Nat
  PROVE  n \in Nat /\ 0 < n /\ from + n <= size
BY DEF DryRuns, Contains

LEMMA gzipKeeps ==
  ASSUME FormatsInv, gzip PROVE Kept
<1>1. CASE Reject("gzip")
  BY <1>1, Rejecting
<1>2. CASE ~Reject("gzip")
  <2>1. PICK body \in GzipHeaders : \E n \in Inflated(body) \ {None} :
          LET total == body - offset + n + GzipTrailer
          IN Answered("gzip", Contains(offset, total), offset, total, "high", offset + 10)
    BY <1>2 DEF gzip
  <2>2. body \in Nat /\ body >= offset + 10 /\ Contains(offset, 10)
    BY GzipHeaderIsAhead
  <2> QED
    BY <2>1, <2>2, DryRunEnds, Answering, Bounds, WidthAssumption, WrapKeeps
       DEF Inflated, GzipTrailer, Answered, Sound, Contains
<1> QED
  BY <1>1, <1>2

LEMMA zlibKeeps ==
  ASSUME FormatsInv, zlib PROVE Kept
BY DryRunEnds, Answering, Bounds, WidthAssumption, WrapKeeps
   DEF zlib, inspect_zlib, Inflated, Answer, Answered, Sound, Contains

LEMMA gpg_signedKeeps ==
  ASSUME FormatsInv, gpg_signed PROVE Kept
BY DryRunEnds, Answering, Bounds, WidthAssumption, WrapKeeps
   DEF gpg_signed, extract_gpg_stream, Inflated, Answer, Answered, Sound

LEMMA bzip2Keeps ==
  ASSUME FormatsInv, bzip2 PROVE Kept
BY DryRunEnds, Answering, Bounds, WidthAssumption, WrapKeeps DEF bzip2, Answer, Answered, Sound

LEMMA lzmaKeeps ==
  ASSUME FormatsInv, lzma PROVE Kept
BY DryRunEnds, Answering, Bounds, WidthAssumption, WrapKeeps DEF lzma, parse_lzma_header, Answered, Sound, Contains

LEMMA compressdKeeps ==
  ASSUME FormatsInv, compressd PROVE Kept
BY Answering, Bounds, WidthAssumption, WrapKeeps DEF compressd, Found, Answer, Answered, Sound

LEMMA xzKeeps ==
  ASSUME FormatsInv, xz PROVE Kept
<1>1. XzLoop([format |-> "xz", at |-> offset, last |-> None, headers |-> 0, total |-> 0])
  BY Bounds DEF XzLoop, LastLoop, Loop, Lasts
<1> QED
  BY <1>1, Beginning DEF xz, Asked, Begin, Shaped

LEMMA xz_streamKeeps ==
  ASSUME FormatsInv, xz_stream PROVE Kept
<1>1. XzLoop(walk) /\ walk # Nowhere /\ answer = Unanswered
  BY FormatTells DEF xz_stream, Walking
<1>2. CASE xz_done
  BY <1>1, <1>2, Answering, Bounds, WidthAssumption, WrapKeeps DEF xz_done, XzLoop, Answer, Answered, Sound
<1>3. CASE Found("xz", walk.total, "high")
  BY <1>1, <1>3, Answering, Bounds, WidthAssumption, WrapKeeps DEF XzLoop, Found, Answer, Answered, Sound
<1>4. ASSUME NEW n \in DryRuns(walk.at), n # None, Safe,
             GoOn([walk EXCEPT !.at = @ + n, !.last = walk.at, !.headers = 1, !.total = @ + n])
      PROVE  Kept
  <2> DEFINE w == [walk EXCEPT !.at = @ + n, !.last = walk.at, !.headers = 1, !.total = @ + n]
  <2>1. n \in Nat /\ 0 < n /\ walk.at + n <= size
    BY <1>1, <1>4, DryRunEnds, Bounds DEF XzLoop, LastLoop, Loop
  <2>2. XzLoop(w) /\ w.at > walk.at
    BY <1>1, <2>1, Bounds DEF XzLoop, LastLoop, Loop, Lasts
  <2>3. GoOn(w)
    BY <1>4
  <2> HIDE DEF w
  <2> QED
    BY <1>1, <1>4, <2>2, <2>3, Onward DEF XzLoop, LastLoop, Loop, Shaped
<1> QED
  BY <1>2, <1>3, <1>4 DEF xz_stream

LEMMA zstdKeeps ==
  ASSUME FormatsInv, zstd PROVE Kept
<1>1. CASE Reject("zstd")
  BY <1>1, Rejecting
<1>2. ASSUME NEW single \in BOOLEAN, NEW checksum \in BOOLEAN, NEW dictionary \in 0 .. 3, NEW content \in 0 .. 3,
             Begin(3, [format |-> "zstd", at |-> offset + ZstdHeaderSize(single, dictionary, content),
                       last |-> None, blocks |-> 0, trailer |-> IF checksum THEN 4 ELSE 0])
      PROVE  Kept
  <2>1. ZstdHeaderSize(single, dictionary, content) \in Nat
    BY DEF ZstdHeaderSize
  <2>2. ZstdLoop([format |-> "zstd", at |-> offset + ZstdHeaderSize(single, dictionary, content),
                  last |-> None, blocks |-> 0, trailer |-> IF checksum THEN 4 ELSE 0])
    BY <2>1, Bounds DEF ZstdLoop, LastLoop, Loop, Lasts
  <2> QED
    BY <1>2, <2>2, Beginning DEF zstd, Asked, Begin, Shaped
<1> QED
  BY <1>1, <1>2 DEF zstd

LEMMA zstd_blockKeeps ==
  ASSUME FormatsInv, zstd_block PROVE Kept
<1>1. ZstdLoop(walk) /\ walk # Nowhere /\ answer = Unanswered
  BY FormatTells DEF zstd_block, Walking
<1>2. PICK kind \in {ZstdRawBlock, ZstdRleBlock, ZstdReserved}, n \in U16, end \in BOOLEAN :
        LET next == walk.at + zstd_block_size(kind, n)
            blocks == Next2(walk.blocks)
        IN IF ~Safe \/ ~Contains(walk.at, 3) \/ kind = ZstdReserved THEN Reject("zstd")
           ELSE IF end THEN Answer("zstd", blocks >= 2, next - offset + walk.trailer, "high")
           ELSE GoOn([walk EXCEPT !.at = next, !.last = walk.at, !.blocks = blocks])
  BY DEF zstd_block
<1> DEFINE next == walk.at + zstd_block_size(kind, n)
           blocks == Next2(walk.blocks)
           w == [walk EXCEPT !.at = next, !.last = walk.at, !.blocks = blocks]
<1>3. next \in Nat /\ next > walk.at /\ next <= walk.at + 3 + 65535 /\ blocks \in Nat
  BY <1>1, WidthAssumption DEF ZstdLoop, LastLoop, Loop, zstd_block_size, Next2, AtMost
<1> HIDE DEF next, blocks
<1>4. ZstdLoop(w) /\ w.at > walk.at
  BY <1>1, <1>3, Bounds DEF ZstdLoop, LastLoop, Loop, Lasts
<1> HIDE DEF w
<1>5. ASSUME Safe, Answer("zstd", blocks >= 2, next - offset + walk.trailer, "high")
      PROVE  Kept
  BY <1>1, <1>3, <1>5, Answering, Bounds, WidthAssumption, WrapKeeps
     DEF ZstdLoop, LastLoop, Loop, Safe, IsOffsetSafe, Answer, Answered, Sound, Unchecked
<1>6. ASSUME Safe, GoOn(w)
      PROVE  Kept
  BY <1>1, <1>4, <1>6, Onward DEF ZstdLoop, LastLoop, Loop, Shaped
<1> QED
  BY <1>2, <1>5, <1>6, Rejecting DEF next, blocks, w

LEMMA lz4Keeps ==
  ASSUME FormatsInv, lz4 PROVE Kept
<1>1. PICK good, content, dictionary, block_checksum, checksum \in BOOLEAN :
        LET end == Lz4HeaderEnd(content, dictionary)
        IN IF ~Contains(offset, 6) \/ ~Contains(offset + 4, end - 4) \/ ~Contains(offset + end, 1)
             THEN Reject("lz4")
           ELSE IF ~good THEN Answered("lz4", FALSE, offset, 0, "none", offset + end + 1)
           ELSE Begin(4, [format |-> "lz4", at |-> offset + end + 1, last |-> None,
                       block_checksum |-> IF block_checksum THEN 4 ELSE 0,
                       trailer |-> IF checksum THEN 4 ELSE 0])
  BY DEF lz4
<1> DEFINE end == Lz4HeaderEnd(content, dictionary)
           w == [format |-> "lz4", at |-> offset + end + 1, last |-> None,
                 block_checksum |-> IF block_checksum THEN 4 ELSE 0, trailer |-> IF checksum THEN 4 ELSE 0]
<1>2. end \in Nat
  BY DEF Lz4HeaderEnd
<1> HIDE DEF end
<1>3. Lz4Loop(w)
  BY <1>2, Bounds DEF Lz4Loop, LastLoop, Loop, Lasts
<1> HIDE DEF w
<1>4. ASSUME Contains(offset + end, 1), Answered("lz4", FALSE, offset, 0, "none", offset + end + 1)
      PROVE  Kept
  BY <1>2, <1>4, Answering, Bounds DEF Contains, Answered, Sound
<1>5. ASSUME Begin(4, w)
      PROVE  Kept
  BY <1>3, <1>5, Beginning DEF lz4, Asked, Begin, Shaped
<1> QED
  BY <1>1, <1>4, <1>5, Rejecting DEF end, w

LEMMA lz4_blockKeeps ==
  ASSUME FormatsInv, lz4_block PROVE Kept
<1>1. Lz4Loop(walk) /\ walk # Nowhere /\ answer = Unanswered
  BY FormatTells DEF lz4_block, Walking
<1>2. PICK n \in {0} \cup U32 :
        LET next == walk.at + lz4_block_size(n)
        IN IF ~Safe \/ ~Contains(walk.at, 4) THEN Reject("lz4")
           ELSE IF n = 0 THEN Found("lz4", next - offset + walk.trailer, "medium")
           ELSE GoOn([walk EXCEPT !.at = next, !.last = walk.at])
  BY DEF lz4_block
<1> DEFINE next == walk.at + lz4_block_size(n)
           w == [walk EXCEPT !.at = next, !.last = walk.at]
<1>3. next \in Nat /\ next > walk.at /\ next <= walk.at + 8 + W32
  BY <1>1, WidthAssumption DEF Lz4Loop, LastLoop, Loop, lz4_block_size
<1> HIDE DEF next
<1>4. Lz4Loop(w) /\ w.at > walk.at
  BY <1>1, <1>3, Bounds DEF Lz4Loop, LastLoop, Loop, Lasts
<1> HIDE DEF w
<1>5. ASSUME Safe, Found("lz4", next - offset + walk.trailer, "medium")
      PROVE  Kept
  BY <1>1, <1>3, <1>5, Answering, Bounds, WidthAssumption, WrapKeeps
     DEF Lz4Loop, LastLoop, Loop, Safe, IsOffsetSafe, Found, Answer, Answered, Sound, Unchecked
<1>6. ASSUME Safe, GoOn(w)
      PROVE  Kept
  BY <1>1, <1>4, <1>6, Onward DEF Lz4Loop, LastLoop, Loop, Shaped
<1> QED
  BY <1>2, <1>5, <1>6, Rejecting DEF next, w

LEMMA lzopKeeps ==
  ASSUME FormatsInv, lzop PROVE Kept
<1>1. PICK good, filter \in BOOLEAN, name \in U8 :
        LET header == lzop_header_size(filter, name)
        IN IF ~Contains(offset, 21) \/ ~good \/ ~Contains(LzopPart2(filter), 13) THEN Reject("lzop")
           ELSE IF header > available THEN Answered("lzop", FALSE, offset, 0, "none", LzopPart2(filter) + 13)
           ELSE Begin(12, [format |-> "lzop", at |-> offset + header, last |-> None, blocks |-> 0])
  BY DEF lzop
<1> DEFINE header == lzop_header_size(filter, name)
           w == [format |-> "lzop", at |-> offset + header, last |-> None, blocks |-> 0]
<1>2. header \in Nat /\ LzopPart2(filter) \in Nat
  BY Bounds, WidthAssumption DEF lzop_header_size, LzopPart2
<1> HIDE DEF header
<1>3. LzopLoop(w)
  BY <1>2, Bounds DEF LzopLoop, LastLoop, Loop, Lasts
<1> HIDE DEF w
<1>4. ASSUME Contains(LzopPart2(filter), 13), Answered("lzop", FALSE, offset, 0, "none", LzopPart2(filter) + 13)
      PROVE  Kept
  BY <1>2, <1>4, Answering, Bounds DEF Contains, Answered, Sound
<1>5. ASSUME Begin(12, w)
      PROVE  Kept
  BY <1>3, <1>5, Beginning DEF lzop, Asked, Begin, Shaped
<1> QED
  BY <1>1, <1>4, <1>5, Rejecting DEF header, w

LEMMA lzop_blockKeeps ==
  ASSUME FormatsInv, lzop_block PROVE Kept
<1>1. LzopLoop(walk) /\ walk # Nowhere /\ answer = Unanswered
  BY FormatTells DEF lzop_block, Walking
<1>2. CASE lzop_end
  BY <1>1, <1>2, Answering, Bounds, WidthAssumption, WrapKeeps
     DEF lzop_end, LzopLoop, LastLoop, Loop, Contains, Answer, Answered, Sound
<1>3. ASSUME NEW compressed \in U32, Safe,
             GoOn([walk EXCEPT !.at = @ + 12 + compressed + LzopBlockChecksum,
                               !.last = walk.at, !.blocks = Next2(@)])
      PROVE  Kept
  <2> DEFINE w == [walk EXCEPT !.at = @ + 12 + compressed + LzopBlockChecksum,
                               !.last = walk.at, !.blocks = Next2(@)]
  <2>1. LzopLoop(w) /\ w.at > walk.at
    BY <1>1, Bounds, WidthAssumption DEF LzopLoop, LastLoop, Loop, Lasts, LzopBlockChecksum, Next2, AtMost
  <2>2. GoOn(w)
    BY <1>3
  <2> HIDE DEF w
  <2> QED
    BY <1>1, <1>3, <2>1, <2>2, Onward DEF LzopLoop, LastLoop, Loop, Shaped
<1> QED
  BY <1>2, <1>3 DEF lzop_block

LEMMA lzfseKeeps ==
  ASSUME FormatsInv, lzfse PROVE Kept
<1>1. LzfseLoop([format |-> "lzfse", at |-> offset, last |-> None])
  BY Bounds DEF LzfseLoop, LastLoop, Loop, Lasts
<1> QED
  BY <1>1, Beginning DEF lzfse, Asked, Begin, Shaped

\* A block has a header, so the next one lies further on.
LEMMA LzfseBlocksGrow ==
  ASSUME NEW at, NEW block \in LzfseBlocks(at)
  PROVE  block.header \in Nat /\ block.payload \in Nat
<1> DEFINE Payloads == {a + b : a, b \in U32}
<1>1. U32 \subseteq Nat /\ Payloads \subseteq Nat
  BY WidthAssumption
<1> HIDE DEF Payloads
<1> DEFINE Block(need, header, payload) ==
             {[header |-> header, payload |-> p] : p \in {p \in payload : Contains(at, need)}}
<1>2. \A need, header : /\ Block(need, header, U32) \subseteq [header : {header}, payload : U32]
                        /\ Block(need, header, Payloads) \subseteq [header : {header}, payload : Payloads]
  OBVIOUS
<1>3. block \in Block(8, 8, U32) \cup Block(50, 770, Payloads) \cup Block(12, 12, U32)
                  \cup UNION {Block(32, h, Payloads) : h \in U32}
  BY DEF LzfseBlocks, Payloads
<1> HIDE DEF Block
<1> QED
  BY <1>1, <1>2, <1>3

LEMMA lzfse_blockKeeps ==
  ASSUME FormatsInv, lzfse_block PROVE Kept
<1>1. LzfseLoop(walk) /\ walk # Nowhere /\ answer = Unanswered
  BY FormatTells DEF lzfse_block, Walking
<1>2. ASSUME Contains(walk.at, 4), Found("lzfse", walk.at + 4 - offset, "high")
      PROVE  Kept
  BY <1>1, <1>2, Answering, Bounds, WidthAssumption, WrapKeeps
     DEF LzfseLoop, LastLoop, Loop, Contains, Found, Answer, Answered, Sound
<1>3. ASSUME NEW block \in LzfseBlocks(walk.at), Safe,
             GoOn([walk EXCEPT !.at = @ + block.header + block.payload, !.last = walk.at])
      PROVE  Kept
  <2> DEFINE w == [walk EXCEPT !.at = @ + block.header + block.payload, !.last = walk.at]
  <2>1. block.header \in Nat /\ block.payload \in Nat
    BY LzfseBlocksGrow
  <2>2. LzfseLoop(w) /\ (w.at > walk.at \/ w.last >= w.at)
    BY <1>1, <2>1, Bounds DEF LzfseLoop, LastLoop, Loop, Lasts
  <2>3. GoOn(w)
    BY <1>3
  <2> HIDE DEF w
  <2> QED
    BY <1>1, <1>3, <2>2, <2>3, Onward DEF LzfseLoop, LastLoop, Loop, Shaped
<1> QED
  BY <1>2, <1>3, Rejecting DEF lzfse_block

LEMMA CompressionKeeps ==
  ASSUME FormatsInv, CompressionNext PROVE Kept
BY gzipKeeps, zlibKeeps, gpg_signedKeeps, bzip2Keeps, lzmaKeeps, compressdKeeps, xzKeeps, xz_streamKeeps, zstdKeeps,
   zstd_blockKeeps, lz4Keeps, lz4_blockKeeps, lzopKeeps, lzop_blockKeeps, lzfseKeeps, lzfse_blockKeeps
   DEF CompressionNext

-----------------------------------------------------------------------------
(* Images, documents and captures                                          *)

LEMMA bmpKeeps ==
  ASSUME FormatsInv, bmp PROVE Kept
BY Answering, Bounds, WidthAssumption, WrapKeeps DEF bmp, Answer, Answered, Sound, available

LEMMA pdfKeeps ==
  ASSUME FormatsInv, pdf PROVE Kept
BY Answering, Bounds, WidthAssumption, WrapKeeps DEF pdf, Answered, Sound, Contains

LEMMA riffKeeps ==
  ASSUME FormatsInv, riff PROVE Kept
BY Answering, Bounds, WidthAssumption, WrapKeeps DEF riff, Answered, Sound, Contains, available

LEMMA dxbcKeeps ==
  ASSUME FormatsInv, dxbc PROVE Kept
BY Answering, Bounds, WidthAssumption, WrapKeeps DEF dxbc, Answer, Answered, Sound, Unchecked

LEMMA extract_dxbcKeeps ==
  ASSUME FormatsInv, extract_dxbc PROVE Kept
<1>1. PICK one \in BOOLEAN, total \in U32, chunk \in U32, chunks \in {0, 1, 32, 33} :
        carve_range("extract_dxbc", inspect_dxbc(one, chunk, chunks), total)
  BY DEF extract_dxbc
<1> QED
  BY <1>1, Carving, WidthAssumption

LEMMA PemEndsInside ==
  ASSUME FormatsInv, NEW n \in inspect_pem
  PROVE  n \in Nat /\ offset + n <= size
<1>1. PICK at \in {p \in Positions(offset) : Contains(p, 34)}, m \in EndMarkers, ends \in {0, 2} :
        Contains(at + m, ends) /\ n = at + m - offset + ends
  BY DEF inspect_pem
<1>2. at \in Nat /\ offset <= at
  BY PositionsAhead, Bounds
<1> QED
  BY <1>1, <1>2, Bounds DEF EndMarkers, Contains

LEMMA extract_pem_namedKeeps ==
  ASSUME FormatsInv, extract_pem_named PROVE Kept
<1>1. PICK n \in {None} \cup inspect_pem : carve_range("extract_pem", n # None, n)
  BY DEF extract_pem_named
<1> QED
  BY <1>1, PemEndsInside, Carving

LEMMA parse_pemKeeps ==
  ASSUME FormatsInv, NEW format, parse_pem(format) PROVE Kept
BY PemEndsInside, Rejecting, Answering, Bounds, WidthAssumption, WrapKeeps
   DEF parse_pem, Found, Answer, Answered, Sound

LEMMA jpegKeeps ==
  ASSUME FormatsInv, jpeg PROVE Kept
<1>1. JpegLoop([format |-> "jpeg", at |-> offset])
  BY Bounds DEF JpegLoop, Loop
<1> QED
  BY <1>1, Beginning DEF jpeg, Asked, Begin, Shaped

LEMMA jpeg_markerKeeps ==
  ASSUME FormatsInv, jpeg_marker PROVE Kept
<1>1. JpegLoop(walk) /\ walk # Nowhere /\ answer = Unanswered
  BY FormatTells DEF jpeg_marker, Walking
<1>2. ASSUME Contains(walk.at, 2), Answered("jpeg", TRUE, offset, walk.at + 2 - offset, "medium", walk.at + 2)
      PROVE  Kept
  BY <1>1, <1>2, Answering, Bounds, WidthAssumption, WrapKeeps DEF JpegLoop, Loop, Contains, Answered, Sound
<1>3. ASSUME NEW at \in Nat, at > walk.at, GoOn([walk EXCEPT !.at = at])
      PROVE  Kept
  <2> DEFINE w == [walk EXCEPT !.at = at]
  <2>1. JpegLoop(w) /\ w.at > walk.at
    BY <1>1, <1>3, Bounds DEF JpegLoop, Loop
  <2>2. GoOn(w)
    BY <1>3
  <2> HIDE DEF w
  <2> QED
    BY <1>1, <2>1, <2>2, Further DEF JpegLoop, Loop, Shaped
<1>4. ASSUME NEW n \in U16, jpeg_segment(walk.at, n) # None
      PROVE  jpeg_segment(walk.at, n) \in Nat /\ jpeg_segment(walk.at, n) > walk.at
  BY <1>1, <1>4, WidthAssumption DEF JpegLoop, Loop, jpeg_segment
<1>5. ASSUME NEW n \in U16, jpeg_segment(walk.at, n) # None,
             NEW marker \in Positions(jpeg_segment(walk.at, n))
      PROVE  marker \in Nat /\ marker > walk.at
  BY <1>1, <1>4, <1>5, PositionsAhead DEF JpegLoop, Loop
<1>6. walk.at \in Nat /\ walk.at + 2 \in Nat /\ walk.at + 2 > walk.at
  BY <1>1 DEF JpegLoop, Loop
<1> QED
  BY <1>2, <1>3, <1>4, <1>5, <1>6, Rejecting DEF jpeg_marker

LEMMA pngKeeps ==
  ASSUME FormatsInv, png PROVE Kept
<1>1. PngLoop([format |-> "png", at |-> offset + 8, first |-> TRUE])
  BY Bounds DEF PngLoop, Loop
<1> QED
  BY <1>1, Beginning DEF png, Asked, Begin, Shaped

LEMMA png_chunkKeeps ==
  ASSUME FormatsInv, png_chunk PROVE Kept
<1>1. PngLoop(walk) /\ walk # Nowhere /\ answer = Unanswered
  BY FormatTells DEF png_chunk, Walking
<1>2. ASSUME NEW payload \in {13} \cup U32
      PROVE  payload \in Nat
  BY WidthAssumption
<1>3. ASSUME NEW payload \in Nat, Contains(walk.at, payload + 12),
             Found("png", walk.at + payload + 12 - offset, "high")
      PROVE  Kept
  BY <1>1, <1>3, Answering, Bounds, WidthAssumption, WrapKeeps
     DEF PngLoop, Loop, Contains, Found, Answer, Answered, Sound
<1>4. ASSUME NEW payload \in Nat, GoOn([walk EXCEPT !.at = @ + payload + 12, !.first = FALSE])
      PROVE  Kept
  <2> DEFINE w == [walk EXCEPT !.at = @ + payload + 12, !.first = FALSE]
  <2>1. PngLoop(w) /\ w.at > walk.at
    BY <1>1, Bounds DEF PngLoop, Loop
  <2>2. GoOn(w)
    BY <1>4
  <2> HIDE DEF w
  <2> QED
    BY <1>1, <2>1, <2>2, Further DEF PngLoop, Loop, Shaped
<1> QED
  BY <1>2, <1>3, <1>4, Rejecting DEF png_chunk

LEMMA gifKeeps ==
  ASSUME FormatsInv, gif PROVE Kept
<1>1. ASSUME NEW table \in ColorTables
      PROVE  GifLoop([format |-> "gif", at |-> offset + 13 + table, last |-> None, sub |-> None, sub_last |-> None])
  BY Bounds DEF GifLoop, LastLoop, Loop, Lasts, ColorTables
<1> QED
  BY <1>1, Rejecting, Beginning DEF gif, Asked, Begin, Shaped

LEMMA gif_blockKeeps ==
  ASSUME FormatsInv, gif_block PROVE Kept
<1>1. GifLoop(walk) /\ walk # Nowhere /\ answer = Unanswered /\ walk.sub = None
  BY FormatTells DEF gif_block, Walking
<1>2. ASSUME Safe, Answered("gif", TRUE, offset, walk.at + 1 - offset, "high", walk.at + 1)
      PROVE  Kept
  BY <1>1, <1>2, Answering, Bounds, WidthAssumption, WrapKeeps
     DEF GifLoop, LastLoop, Loop, Safe, IsOffsetSafe, Answered, Sound
<1>3. ASSUME NEW start \in gif_sub_blocks
      PROVE  start \in Nat /\ start > walk.at
  BY <1>1, <1>3, WidthAssumption DEF GifLoop, LastLoop, Loop, gif_sub_blocks, ColorTables
<1>4. ASSUME Safe, NEW start \in gif_sub_blocks, GoOn([walk EXCEPT !.sub = start, !.sub_last = None])
      PROVE  Kept
  <2> DEFINE w == [walk EXCEPT !.sub = start, !.sub_last = None]
  <2>1. GifLoop(w) /\ w.sub = start
    BY <1>1, <1>3, Bounds DEF GifLoop, LastLoop, Loop, Lasts
  <2>2. GoOn(w)
    BY <1>4
  <2> HIDE DEF w
  <2>3. ~Stuck(walk) /\ Position(w) > Position(walk)
    BY <1>1, <1>3, <1>4, <2>1 DEF GifLoop, LastLoop, Loop, Lasts, Safe, IsOffsetSafe, Stuck, Position, None
  <2> QED
    BY <1>1, <2>1, <2>2, <2>3, GoingOn DEF Shaped, Advances
<1> QED
  BY <1>2, <1>4, Rejecting DEF gif_block

LEMMA gif_sub_blockKeeps ==
  ASSUME FormatsInv, gif_sub_block PROVE Kept
<1>1. GifLoop(walk) /\ walk # Nowhere /\ answer = Unanswered /\ walk.sub # None
  BY FormatTells DEF gif_sub_block, Walking
<1>2. PICK n \in {0} \cup U8 :
        IF ~IsOffsetSafe(size, walk.sub, walk.sub_last) THEN Reject("gif")
        ELSE IF n = 0 THEN GoOn([walk EXCEPT !.at = walk.sub + 1, !.last = walk.at,
                                             !.sub = None, !.sub_last = None])
        ELSE GoOn([walk EXCEPT !.sub = @ + n + 1, !.sub_last = walk.sub])
  BY DEF gif_sub_block
<1>3. n \in Nat
  BY WidthAssumption
<1> DEFINE after == [walk EXCEPT !.at = walk.sub + 1, !.last = walk.at, !.sub = None, !.sub_last = None]
           next == [walk EXCEPT !.sub = @ + n + 1, !.sub_last = walk.sub]
<1>4. GifLoop(after) /\ after.at = walk.sub + 1 /\ after.sub = None
  BY <1>1, Bounds DEF GifLoop, LastLoop, Loop, Lasts, None
<1>5. GifLoop(next) /\ next.sub = walk.sub + n + 1
  BY <1>1, <1>3, Bounds DEF GifLoop, LastLoop, Loop, Lasts, None
<1> HIDE DEF after, next
<1>6. ASSUME IsOffsetSafe(size, walk.sub, walk.sub_last)
      PROVE  /\ ~Stuck(walk) /\ Position(after) > Position(walk) /\ Position(next) > Position(walk)
  BY <1>1, <1>3, <1>4, <1>5, <1>6 DEF GifLoop, LastLoop, Loop, Lasts, IsOffsetSafe, Stuck, Position, None
<1>7. ASSUME IsOffsetSafe(size, walk.sub, walk.sub_last), GoOn(after) \/ GoOn(next)
      PROVE  Kept
  BY <1>1, <1>4, <1>5, <1>6, <1>7, GoingOn DEF Shaped, Advances
<1> QED
  BY <1>2, <1>7, Rejecting DEF after, next

LEMMA pcapngKeeps ==
  ASSUME FormatsInv, pcapng PROVE Kept
<1>1. ASSUME NEW n \in U32, pcapng_block(offset, n)
      PROVE  PcapngLoop([format |-> "pcapng", at |-> offset + n, last |-> None, blocks |-> 1])
  BY <1>1, Bounds, WidthAssumption DEF pcapng_block, Contains, PcapngLoop, LastLoop, Loop, Lasts
<1> QED
  BY <1>1, Rejecting, Beginning DEF pcapng, parse_pcapng_section, Asked, Begin, Shaped

LEMMA pcapng_next_blockKeeps ==
  ASSUME FormatsInv, pcapng_next_block PROVE Kept
<1>1. PcapngLoop(walk) /\ walk # Nowhere /\ answer = Unanswered
  BY FormatTells DEF pcapng_next_block, Walking
<1>2. ASSUME Answer("pcapng", walk.blocks >= 2 /\ walk.at >= offset, walk.at - offset, "high")
      PROVE  Kept
  BY <1>1, <1>2, Answering, Bounds, WidthAssumption, WrapKeeps DEF PcapngLoop, LastLoop, Loop, Answer, Answered, Sound
<1>3. ASSUME Safe, NEW n \in U32, pcapng_block(walk.at, n),
             GoOn([walk EXCEPT !.at = @ + n, !.last = walk.at, !.blocks = 2])
      PROVE  Kept
  <2> DEFINE w == [walk EXCEPT !.at = @ + n, !.last = walk.at, !.blocks = 2]
  <2>1. PcapngLoop(w) /\ w.at > walk.at
    BY <1>1, <1>3, Bounds, WidthAssumption DEF pcapng_block, Contains, PcapngLoop, LastLoop, Loop, Lasts
  <2>2. GoOn(w)
    BY <1>3
  <2> HIDE DEF w
  <2> QED
    BY <1>1, <1>3, <2>1, <2>2, Onward DEF PcapngLoop, LastLoop, Loop, Shaped
<1> QED
  BY <1>2, <1>3 DEF pcapng_next_block

LEMMA svgKeeps ==
  ASSUME FormatsInv, svg PROVE Kept
<1>1. SvgLoop([format |-> "svg", at |-> offset, heads |-> 0, open |-> 0])
  BY Bounds DEF SvgLoop, Loop
<1> QED
  BY <1>1, Beginning DEF svg, Asked, Begin, Shaped

LEMMA svg_tagKeeps ==
  ASSUME FormatsInv, svg_tag PROVE Kept
<1>1. SvgLoop(walk) /\ walk # Nowhere /\ answer = Unanswered
  BY FormatTells DEF svg_tag, Walking
<1>2. CASE Reject("svg")
  BY <1>2, Rejecting
<1>3. CASE ~Reject("svg")
  <2>1. PICK at \in Positions(walk.at), opens \in BOOLEAN, head \in BOOLEAN :
          LET heads == walk.heads + (IF head THEN 1 ELSE 0)
              open == walk.open + (IF opens THEN 1 ELSE -1)
          IN /\ Contains(at, IF opens THEN 5 ELSE 6)
             /\ ~(open < 0 \/ heads > 1)
             /\ IF heads = 1 /\ open = 0 THEN Found("svg", at - offset + 6, "medium")
                ELSE GoOn([walk EXCEPT !.at = at + 5, !.heads = heads, !.open = open])
    BY <1>3 DEF svg_tag
  <2> DEFINE heads == walk.heads + (IF head THEN 1 ELSE 0)
             open == walk.open + (IF opens THEN 1 ELSE -1)
             w == [walk EXCEPT !.at = at + 5, !.heads = heads, !.open = open]
  <2>2. at \in Nat /\ walk.at <= at /\ offset <= at /\ heads \in Nat /\ open \in Nat
    BY <1>1, <2>1, PositionsAhead, Bounds DEF SvgLoop, Loop
  <2>3. open = 0 => ~opens
    BY <1>1 DEF SvgLoop
  <2> HIDE DEF heads, open
  <2>4. SvgLoop(w) /\ w.at > walk.at
    BY <1>1, <2>2, Bounds DEF SvgLoop, Loop
  <2> HIDE DEF w
  <2>5. ASSUME open = 0, Contains(at, IF opens THEN 5 ELSE 6), Found("svg", at - offset + 6, "medium")
        PROVE  Kept
    BY <2>2, <2>3, <2>5, Answering, Bounds, WidthAssumption, WrapKeeps DEF Contains, Found, Answer, Answered, Sound
  <2>6. ASSUME GoOn(w)
        PROVE  Kept
    BY <1>1, <2>4, <2>6, Further DEF SvgLoop, Loop, Shaped
  <2> QED
    BY <2>1, <2>5, <2>6 DEF heads, open, w
<1> QED
  BY <1>2, <1>3

LEMMA MediaKeeps ==
  ASSUME FormatsInv, MediaNext PROVE Kept
<1>1. ASSUME pem_certificate \/ pem_public_key \/ pem_private_key
      PROVE  Kept
  BY <1>1, parse_pemKeeps DEF pem_certificate, pem_public_key, pem_private_key
<1> QED
  BY <1>1, bmpKeeps, pdfKeeps, riffKeeps, dxbcKeeps, extract_dxbcKeeps, extract_pem_namedKeeps, jpegKeeps,
     jpeg_markerKeeps, pngKeeps, png_chunkKeeps, gifKeeps, gif_blockKeeps, gif_sub_blockKeeps, pcapngKeeps,
     pcapng_next_blockKeeps, svgKeeps, svg_tagKeeps
     DEF MediaNext

-----------------------------------------------------------------------------
(* Constants, encrypted images and the headers of vendors                  *)

LEMMA tablesKeep ==
  ASSUME FormatsInv, crc32 \/ sha256 \/ md5 \/ aes_sbox \/ aes_forward_table \/ aes_reverse_table
                     \/ aes_rcon \/ aes_acceleration_table
  PROVE  Kept
<1>1. ASSUME NEW format, NEW n \in {8, 10, 16, 24, 40}, HashConstants(format) \/ ConstantTable(format, n)
      PROVE  Kept
  BY <1>1, Answering, Bounds, WidthAssumption, WrapKeeps
     DEF HashConstants, ConstantTable, Asked, Contains, Found, Answer, Answered, Sound
<1> QED
  BY <1>1 DEF crc32, sha256, md5, aes_sbox, aes_forward_table, aes_reverse_table, aes_rcon, aes_acceleration_table

LEMMA pkcs_der_hashKeeps ==
  ASSUME FormatsInv, pkcs_der_hash PROVE Kept
BY Answering, Bounds, WidthAssumption, WrapKeeps
   DEF pkcs_der_hash, der_hash_table, Asked, Contains, Found, Answer, Answered, Sound

LEMMA rsaKeeps ==
  ASSUME FormatsInv, rsa PROVE Kept
BY Answering, Bounds, WidthAssumption, WrapKeeps DEF rsa, RsaTerminators, Contains, Answered, Sound

LEMMA luksKeeps ==
  ASSUME FormatsInv, luks PROVE Kept
BY Answering, Bounds, WidthAssumption, WrapKeeps DEF luks, Answer, Answered, Sound

LEMMA dpapiKeeps ==
  ASSUME FormatsInv, dpapi PROVE Kept
<1>1. DpapiLoop([format |-> "dpapi", at |-> offset, part |-> 1])
  BY Bounds DEF DpapiLoop, Loop
<1> QED
  BY <1>1, Beginning DEF dpapi, Asked, Begin, Shaped

LEMMA dpapi_partKeeps ==
  ASSUME FormatsInv, dpapi_part PROVE Kept
<1>1. DpapiLoop(walk) /\ walk # Nowhere /\ answer = Unanswered
  BY FormatTells DEF dpapi_part, Walking
<1>2. PICK n \in U32 :
        LET fixed == DpapiParts[walk.part]
            next == walk.at + fixed + n
        IN IF ~Contains(walk.at, fixed) \/ ~Contains(walk.at + fixed, n) \/ (walk.part = 1 /\ n % 2 # 0)
             THEN Reject("dpapi")
           ELSE IF walk.part = Len(DpapiParts) THEN Found("dpapi", 0, "medium")
           ELSE GoOn([walk EXCEPT !.at = next, !.part = @ + 1])
  BY DEF dpapi_part
<1> DEFINE fixed == DpapiParts[walk.part]
           next == walk.at + fixed + n
           w == [walk EXCEPT !.at = next, !.part = @ + 1]
<1>3. fixed \in {4, 12, 48} /\ Len(DpapiParts) = 6
  BY <1>1 DEF DpapiLoop, DpapiParts
<1> HIDE DEF fixed
<1>4. next \in Nat /\ next > walk.at
  BY <1>1, <1>3, WidthAssumption DEF DpapiLoop, Loop
<1> HIDE DEF next
<1>5. ASSUME walk.part # 6
      PROVE  DpapiLoop(w) /\ w.at > walk.at
  BY <1>1, <1>4, <1>5 DEF DpapiLoop, Loop
<1> HIDE DEF w
<1>6. ASSUME Found("dpapi", 0, "medium")
      PROVE  Kept
  BY <1>6, Answering, Bounds, WidthAssumption, WrapKeeps DEF Found, Answer, Answered, Sound
<1>7. ASSUME walk.part # 6, GoOn(w)
      PROVE  Kept
  BY <1>1, <1>5, <1>7, Further DEF DpapiLoop, Loop, Shaped
<1> QED
  BY <1>2, <1>3, <1>6, <1>7, Rejecting DEF fixed, next, w

LEMMA ConstantsKeeps ==
  ASSUME FormatsInv, ConstantsNext PROVE Kept
BY tablesKeep, pkcs_der_hashKeeps, rsaKeeps, luksKeeps, dpapiKeeps, dpapi_partKeeps DEF ConstantsNext

LEMMA headersKeep ==
  ASSUME FormatsInv, encrpted_img \/ encfw \/ openssl PROVE Kept
BY Answering, Bounds, WidthAssumption, WrapKeeps DEF encrpted_img, encfw, openssl, Found, Answer, Answered, Sound

LEMMA shrsKeeps ==
  ASSUME FormatsInv, shrs PROVE Kept
BY Answering, Bounds, WidthAssumption, WrapKeeps DEF shrs, ShrsHeader, Answer, Answered, Sound, Unchecked

LEMMA autelKeeps ==
  ASSUME FormatsInv, autel PROVE Kept
BY Answering, Bounds, WidthAssumption, WrapKeeps DEF autel, AutelHeader, Answer, Answered, Sound, Unchecked

LEMMA autel_deobfuscateKeeps ==
  ASSUME FormatsInv, autel_deobfuscate PROVE Kept
BY Answering, Bounds, WidthAssumption, WrapKeeps
   DEF autel_deobfuscate, AutelHeader, IsRangeSafe, Answered, Sound

LEMMA dlink_tlvKeeps ==
  ASSUME FormatsInv, dlink_tlv PROVE Kept
BY Answering, Bounds, WidthAssumption, WrapKeeps
   DEF dlink_tlv, TlvHeader, TlvHashed, Answered, Sound

LEMMA dkbsKeeps ==
  ASSUME FormatsInv, dkbs PROVE Kept
BY Answering, Bounds, WidthAssumption, WrapKeeps
   DEF dkbs, inspect_dkbs, DkbsHeader, Contains, Answered, Sound

LEMMA dmsKeeps ==
  ASSUME FormatsInv, dms PROVE Kept
BY Answering, Bounds, WidthAssumption, WrapKeeps DEF dms, Answered, Sound, Unchecked

LEMMA extract_swapped_u16Keeps ==
  ASSUME FormatsInv, extract_swapped_u16 PROVE Kept
<1>1. PICK n \in Nat : n = available \div 4 /\ 4 * n <= available
  BY Quotient, Bounds DEF available
<1>2. Answer("extract_swapped_u16", n > 0, n * 4, "high")
  BY <1>1 DEF extract_swapped_u16
<1> QED
  BY <1>1, <1>2, Answering, Bounds, WidthAssumption, WrapKeeps DEF available, Answer, Answered, Sound

LEMMA arcadyanKeeps ==
  ASSUME FormatsInv, arcadyan PROVE Kept
BY Answering, Bounds, WidthAssumption, WrapKeeps DEF arcadyan, Answered, Sound

LEMMA EncryptedKeeps ==
  ASSUME FormatsInv, EncryptedNext PROVE Kept
BY headersKeep, shrsKeeps, autelKeeps, autel_deobfuscateKeeps, dlink_tlvKeeps, dkbsKeeps, dmsKeeps,
   extract_swapped_u16Keeps, arcadyanKeeps DEF EncryptedNext

LEMMA dlobKeeps ==
  ASSUME FormatsInv, dlob PROVE Kept
BY Answering, Bounds, WidthAssumption, WrapKeeps
   DEF dlob, available_from, DlobPartOne, DlobPartTwo, Answer, Answered, Sound

LEMMA packimgKeeps ==
  ASSUME FormatsInv, packimg PROVE Kept
BY Answering, Bounds, WidthAssumption, WrapKeeps
   DEF packimg, available_from, PackimgHeader, Answer, Answered, Sound

LEMMA chkKeeps ==
  ASSUME FormatsInv, chk PROVE Kept
BY Answering, Bounds, WidthAssumption, WrapKeeps
   DEF chk, available_from, ChkStructure, ChkMost, Answer, Answered, Sound

LEMMA cfeKeeps ==
  ASSUME FormatsInv, cfe PROVE Kept
BY Answering, Bounds, WidthAssumption, WrapKeeps DEF cfe, CfeMagic, Answered, Sound

LEMMA seamaKeeps ==
  ASSUME FormatsInv, seama PROVE Kept
BY Answering, Bounds, WidthAssumption, WrapKeeps
   DEF seama, available_from, SeamaStructure, Answer, Answered, Sound

LEMMA rtkKeeps ==
  ASSUME FormatsInv, rtk PROVE Kept
BY Answering, Bounds, WidthAssumption, WrapKeeps
   DEF rtk, available_from, Answer, Answered, Sound, Unchecked

LEMMA binhdrKeeps ==
  ASSUME FormatsInv, binhdr PROVE Kept
BY Answering, Bounds, WidthAssumption, WrapKeeps DEF binhdr, BinhdrBack, Answered, Sound

LEMMA tplinkKeeps ==
  ASSUME FormatsInv, tplink \/ tplink_rtos PROVE Kept
BY Answering, Bounds, WidthAssumption, WrapKeeps
   DEF tplink, tplink_rtos, available_from, TplinkHeader, Answer, Answered, Sound

LEMMA ubootKeeps ==
  ASSUME FormatsInv, uboot PROVE Kept
BY Answering, Bounds, WidthAssumption, WrapKeeps
   DEF uboot, UbootNumber, Strings, Contains, Answered, Sound

LEMMA logfsKeeps ==
  ASSUME FormatsInv, logfs PROVE Kept
BY Answering, Bounds, WidthAssumption, WrapKeeps
   DEF logfs, LogfsBack, Answered, Sound, Unchecked

LEMMA android_bootimgKeeps ==
  ASSUME FormatsInv, android_bootimg PROVE Kept
BY Answering, Bounds, WidthAssumption, WrapKeeps DEF android_bootimg, Answer, Answered, Sound

LEMMA VendorHeadersKeeps ==
  ASSUME FormatsInv, VendorHeadersNext PROVE Kept
BY dlobKeeps, packimgKeeps, chkKeeps, cfeKeeps, seamaKeeps, rtkKeeps, binhdrKeeps, tplinkKeeps, ubootKeeps,
   logfsKeeps, android_bootimgKeeps DEF VendorHeadersNext

-----------------------------------------------------------------------------
(* Archives                                                                *)

LEMMA debKeeps ==
  ASSUME FormatsInv, deb PROVE Kept
<1>1. PICK control \in Digits(offset + 120, 10, U32) :
        LET start == CheckedAdd(control, 130 + 2 + 48)
        IN IF control = None \/ start > available THEN Reject("deb")
           ELSE \E contents \in Digits(offset + start, 10, U32) :
                  LET total == CheckedAdd(start + 10, 2 + contents)
                  IN Answer("deb", contents # None /\ total # None /\ total <= available, total, "high")
  BY DEF deb
<1> DEFINE start == CheckedAdd(control, 130 + 2 + 48)
<1>2. CASE Reject("deb")
  BY <1>2, Rejecting
<1>3. CASE ~Reject("deb")
  <2>1. control \in Nat /\ control < W32
    BY <1>1, <1>3, WidthAssumption DEF Digits
  <2>2. start \in Nat
    BY <2>1, WidthAssumption DEF CheckedAdd
  <2> HIDE DEF start
  <2>3. PICK contents \in Digits(offset + start, 10, U32) :
          LET total == CheckedAdd(start + 10, 2 + contents)
          IN Answer("deb", contents # None /\ total # None /\ total <= available, total, "high")
    BY <1>1, <1>3 DEF start
  <2>4. contents # None => contents \in Nat
    BY WidthAssumption DEF Digits
  <2> QED
    BY <2>2, <2>3, <2>4, Answering, Bounds, WidthAssumption, WrapKeeps
       DEF CheckedAdd, None, available, Answer, Answered, Sound
<1> QED
  BY <1>2, <1>3

LEMMA sevenzipKeeps ==
  ASSUME FormatsInv, sevenzip PROVE Kept
BY Rejecting, Answering, Bounds, WidthAssumption, WrapKeeps DEF sevenzip, available, Answered, Sound

LEMMA iso9660Keeps ==
  ASSUME FormatsInv, iso9660 PROVE Kept
<1>1. CASE Reject("iso9660")
  BY <1>1, Rejecting
<1>2. CASE ~Reject("iso9660")
  <2>1. PICK volume_size \in U32, block_size \in U16 :
          /\ offset >= 32768
          /\ Answered("iso9660", CheckedMultiply(volume_size, block_size) # None, offset - 32768,
                      CheckedMultiply(volume_size, block_size), "high", 0)
    BY <1>2, Bounds DEF iso9660
  <2>2. volume_size \in Nat /\ block_size \in Nat
    BY WidthAssumption
  <2> DEFINE n == CheckedMultiply(volume_size, block_size)
  <2>3. n # None => n \in 0 .. W64 - 1
    BY <2>2, ProductFits
  <2> HIDE DEF n
  <2>4. Answered("iso9660", n # None, offset - 32768, n, "high", 0)
    BY <2>1 DEF n
  <2> QED
    BY <2>1, <2>3, <2>4, Answering, Bounds, WrapKeeps DEF Answered, Sound, Unchecked
<1> QED
  BY <1>1, <1>2

LEMMA cabKeeps ==
  ASSUME FormatsInv, cab PROVE Kept
BY Answering, Bounds, WidthAssumption, WrapKeeps DEF cab, CheckedAdd, None, available, Answer, Answered, Sound

LEMMA rarKeeps ==
  ASSUME FormatsInv, rar PROVE Kept
<1>1. ASSUME NEW at \in Positions(offset), NEW marker \in {7, 8}, Contains(at, marker),
             Found("rar", at - offset + marker, "medium")
      PROVE  Kept
  BY <1>1, PositionsAhead, Answering, Bounds, WidthAssumption, WrapKeeps DEF Contains, Found, Answer, Answered, Sound
<1>2. ASSUME Found("rar", 0, "low")
      PROVE  Kept
  BY <1>2, Answering, Bounds, WidthAssumption, WrapKeeps DEF Found, Answer, Answered, Sound
<1> QED
  BY <1>1, <1>2, Rejecting DEF rar

LEMMA parse_srecordKeeps ==
  ASSUME FormatsInv, NEW format, parse_srecord(format) PROVE Kept
<1>1. ASSUME NEW line \in Positions(offset), NEW windows \in BOOLEAN, NEW current \in Positions(line + 3),
             IsOffsetSafe(size, current, None)
      PROVE  /\ current \in Nat /\ offset < current /\ current < size
  BY <1>1, PositionsAhead, Bounds DEF IsOffsetSafe
<1>2. ASSUME NEW current \in Nat, NEW feed \in {current, current + 1}, offset < current, current < size,
             Answered(format, Contains(feed, 1), offset, feed + 1 - offset, "high",
                      IF Contains(feed, 1) THEN feed + 1 ELSE current + 1)
      PROVE  Kept
  BY <1>2, Answering, Bounds, WidthAssumption, WrapKeeps DEF Contains, Answered, Sound
<1>3. ASSUME NEW line \in Positions(offset), NEW windows \in BOOLEAN, NEW current \in Positions(line + 3),
             LET feed == IF windows THEN current + 1 ELSE current
             IN /\ Contains(line, 3) /\ IsOffsetSafe(size, current, None)
                /\ Answered(format, Contains(feed, 1), offset, feed + 1 - offset, "high",
                            IF Contains(feed, 1) THEN feed + 1 ELSE current + 1)
      PROVE  Kept
  <2> DEFINE feed == IF windows THEN current + 1 ELSE current
  <2>1. current \in Nat /\ offset < current /\ current < size
    BY <1>1, <1>3
  <2>2. feed \in {current, current + 1}
    OBVIOUS
  <2>3. Answered(format, Contains(feed, 1), offset, feed + 1 - offset, "high",
                 IF Contains(feed, 1) THEN feed + 1 ELSE current + 1)
    BY <1>3
  <2> HIDE DEF feed
  <2> QED
    BY <1>2, <2>1, <2>2, <2>3
<1> QED
  BY <1>3, Rejecting, Zenon DEF parse_srecord

LEMMA arjKeeps ==
  ASSUME FormatsInv, arj PROVE Kept
BY Answering, Bounds, WidthAssumption, WrapKeeps DEF arj, available, Answer, Answered, Sound

LEMMA tarballKeeps ==
  ASSUME FormatsInv, tarball PROVE Kept
<1>1. ASSUME offset >= 257
      PROVE  TarballLoop([format |-> "tarball", from |-> offset - 257, at |-> offset - 257,
                          last |-> None, total |-> 0, headers |-> 0])
  BY <1>1, Bounds, WidthAssumption DEF TarballLoop, LastLoop, Loop, Lasts
<1> QED
  BY <1>1, Bounds, Rejecting, Beginning DEF tarball, Asked, Begin, Shaped

LEMMA tarball_doneKeeps ==
  ASSUME FormatsInv, TarballLoop(walk), NEW total \in 0 .. W64 - 1, NEW headers, tarball_done(total, headers)
  PROVE  Kept
BY Answering, Bounds, WrapKeeps DEF tarball_done, Answered, Sound, Unchecked

\* An entry has a header and its contents.
LEMMA TarBlocksGrow ==
  ASSUME NEW n \in Nat
  PROVE  TarBlocks(n) \in Nat /\ 512 <= TarBlocks(n)
<1>1. n \div 512 \in Nat
  BY Quotient
<1> QED
  BY <1>1 DEF TarBlocks

LEMMA tarball_entryKeeps ==
  ASSUME FormatsInv, tarball_entry PROVE Kept
<1>1. TarballLoop(walk) /\ walk # Nowhere /\ answer = Unanswered
  BY FormatTells DEF tarball_entry, Walking
<1>2. PICK checksum \in BOOLEAN, ustar \in BOOLEAN, reported \in U32 :
        LET total == CheckedAdd(walk.total, TarBlocks(reported))
            next == walk.at + TarBlocks(reported)
            headers == AtMost(walk.headers + 1, TarHigh)
        IN IF ~Safe \/ ~Contains(walk.at, 512) \/ ~checksum THEN tarball_done(walk.total, walk.headers)
           ELSE IF ~ustar \/ total = None THEN tarball_done(walk.total, headers)
           ELSE IF next > size THEN tarball_done(total, headers)
           ELSE GoOn([walk EXCEPT !.at = next, !.last = walk.at, !.total = total, !.headers = headers])
  BY DEF tarball_entry
<1> DEFINE blocks == TarBlocks(reported)
           total == CheckedAdd(walk.total, blocks)
           next == walk.at + blocks
           headers == AtMost(walk.headers + 1, TarHigh)
           w == [walk EXCEPT !.at = next, !.last = walk.at, !.total = total, !.headers = headers]
<1>3. blocks \in Nat /\ 512 <= blocks
  BY TarBlocksGrow, WidthAssumption
<1> HIDE DEF blocks
<1>4. /\ next \in Nat /\ next > walk.at /\ headers \in Nat
      /\ total # None => total \in Nat /\ total < W64 /\ total \in 0 .. W64 - 1
  BY <1>1, <1>3, WidthAssumption DEF TarballLoop, LastLoop, Loop, AtMost, TarHigh, CheckedAdd, None
<1>5. walk.total \in 0 .. W64 - 1
  BY <1>1, WidthAssumption DEF TarballLoop
<1> HIDE DEF next, total, headers
<1>6. total # None => TarballLoop(w) /\ w.at > walk.at
  BY <1>1, <1>4 DEF TarballLoop, LastLoop, Loop, Lasts
<1> HIDE DEF w
<1>7. ASSUME Safe, total # None, GoOn(w)
      PROVE  Kept
  BY <1>1, <1>6, <1>7, Onward DEF TarballLoop, LastLoop, Loop, Shaped
<1> QED
  BY <1>1, <1>2, <1>4, <1>5, <1>7, tarball_doneKeeps DEF blocks, next, total, headers, w

LEMMA cpioKeeps ==
  ASSUME FormatsInv, cpio PROVE Kept
<1>1. CpioLoop([format |-> "cpio", at |-> offset, last |-> None, total |-> 0, headers |-> 0])
  BY Bounds DEF CpioLoop, LastLoop, Loop, Lasts
<1> QED
  BY <1>1, Beginning DEF cpio, Asked, Begin, Shaped

LEMMA cpio_entryKeeps ==
  ASSUME FormatsInv, cpio_entry PROVE Kept
<1>1. CpioLoop(walk) /\ walk # Nowhere /\ answer = Unanswered
  BY FormatTells DEF cpio_entry, Walking
<1>2. CASE Reject("cpio")
  BY <1>2, Rejecting
<1>3. CASE ~Reject("cpio")
  <2>1. PICK entry \in cpio_entries(walk.at), trailer \in BOOLEAN :
          LET total == CheckedAdd(walk.total, entry)
              next == offset + total
          IN /\ Safe
             /\ IF trailer THEN Answer("cpio", walk.headers >= 1, total, "high")
                ELSE /\ ~(next > size)
                     /\ GoOn([walk EXCEPT !.at = next, !.last = walk.at, !.total = total, !.headers = 1])
    BY <1>3 DEF cpio_entry
  <2>2. PICK contents \in U32, name \in U32 \ {0} : entry = Aligned(110 + name, 4) + Aligned(contents, 4)
    BY DEF cpio_entries
  <2>3. contents \in Nat /\ contents < W32 /\ name \in Nat /\ name < W32 /\ 110 + name \in Nat
    BY WidthAssumption
  <2>4. entry \in Nat /\ 110 <= entry /\ entry <= 2 * W32 + 116
    <3>1. /\ Aligned(110 + name, 4) \in Nat /\ 110 + name <= Aligned(110 + name, 4)
          /\ Aligned(110 + name, 4) <= 110 + name + 3
      BY <2>3, AlignedUp, Zenon
    <3>2. Aligned(contents, 4) \in Nat /\ Aligned(contents, 4) <= contents + 3
      BY <2>3, AlignedUp, Zenon
    <3> QED
      BY <2>2, <2>3, <3>1, <3>2, WidthAssumption
  <2> DEFINE total == CheckedAdd(walk.total, entry)
             next == offset + total
             w == [walk EXCEPT !.at = next, !.last = walk.at, !.total = total, !.headers = 1]
  <2>5. total = walk.total + entry /\ total \in 0 .. W64 - 1
    BY <1>1, <2>4, Bounds, WidthAssumption DEF CpioLoop, CheckedAdd
  <2> HIDE DEF total
  <2>6. next \in Nat /\ next > walk.at
    BY <1>1, <2>4, <2>5, Bounds DEF CpioLoop
  <2>7. next <= size => CpioLoop(w) /\ w.at > walk.at
    BY <1>1, <2>5, <2>6, Bounds DEF CpioLoop, LastLoop, Loop, Lasts
  <2> HIDE DEF next, w
  <2>8. ASSUME Answer("cpio", walk.headers >= 1, total, "high")
        PROVE  Kept
    BY <2>5, <2>8, Answering, Bounds, WrapKeeps DEF Answer, Answered, Sound, Unchecked
  <2>9. ASSUME Safe, next <= size, GoOn(w)
        PROVE  Kept
    BY <1>1, <2>7, <2>9, Onward DEF CpioLoop, LastLoop, Loop, Shaped
  <2>10. ~(next > size) => next <= size
    BY <2>6, Bounds
  <2> QED
    BY <2>1, <2>8, <2>9, <2>10 DEF total, next, w
<1> QED
  BY <1>2, <1>3

\* An entry of a zip has a header and lies in the data.
LEMMA LocalHeadersInside ==
  ASSUME FormatsInv, NEW at \in Nat, NEW n \in LocalHeaders(at), n # None
  PROVE  n \in Nat /\ 30 <= n /\ at + n <= size
<1>1. PICK name \in U16, compressed \in U32 : n = zip_entry_size(at, name, 0, compressed, 5)
  BY DEF LocalHeaders
<1> QED
  BY <1>1, Bounds, WidthAssumption DEF zip_entry_size, Contains

LEMMA EocdInside ==
  ASSUME FormatsInv, NEW end \in find_eocd, end # None
  PROVE  end \in Nat /\ offset + 22 <= end /\ end <= size
<1>1. PICK at \in Positions(offset), n \in U16 : Contains(at, 22 + n) /\ end = at + 22 + n
  BY DEF find_eocd
<1> QED
  BY <1>1, PositionsAhead, Bounds, WidthAssumption DEF Contains

LEMMA zip_archiveKeeps ==
  ASSUME FormatsInv, NEW format \in {"zip", "dahua_zip"}, zip_archive(format) PROVE Kept
<1>1. PICK first \in LocalHeaders(offset), eocd \in find_eocd :
        IF first = None THEN Reject(format)
        ELSE IF eocd # None THEN Found(format, eocd - offset, "high")
        ELSE Begin(30, [format |-> format, at |-> offset + first])
  BY DEF zip_archive
<1>2. ASSUME eocd # None, Found(format, eocd - offset, "high")
      PROVE  Kept
  BY <1>2, EocdInside, Answering, Bounds, WidthAssumption, WrapKeeps DEF Found, Answer, Answered, Sound
<1> DEFINE w == [format |-> format, at |-> offset + first]
<1>3. first # None => ZipLoop(w) /\ w.format \in {"zip", "dahua_zip"}
  BY LocalHeadersInside, Bounds DEF ZipLoop, Loop
<1> HIDE DEF w
<1>4. ASSUME first # None, Begin(30, w)
      PROVE  Kept
  BY <1>3, <1>4, Beginning DEF zip_archive, Asked, Begin, Shaped
<1> QED
  BY <1>1, <1>2, <1>4, Rejecting DEF w

LEMMA zip_entryKeeps ==
  ASSUME FormatsInv, zip_entry PROVE Kept
<1>1. ZipLoop(walk) /\ walk # Nowhere /\ answer = Unanswered /\ walk.format \in {"zip", "dahua_zip"}
  BY FormatTells DEF zip_entry
<1>2. ASSUME Answer(walk.format, walk.at > offset, walk.at - offset, "high")
      PROVE  Kept
  BY <1>1, <1>2, Answering, Bounds, WidthAssumption, WrapKeeps DEF ZipLoop, Loop, Answer, Answered, Sound
<1>3. ASSUME NEW next \in LocalHeaders(walk.at), next # None, GoOn([walk EXCEPT !.at = @ + next])
      PROVE  Kept
  <2> DEFINE w == [walk EXCEPT !.at = @ + next]
  <2>1. ZipLoop(w) /\ w.at > walk.at /\ w.format = walk.format
    BY <1>1, <1>3, LocalHeadersInside, Bounds DEF ZipLoop, Loop
  <2>2. GoOn(w)
    BY <1>3
  <2> HIDE DEF w
  <2> QED
    BY <1>1, <2>1, <2>2, Further DEF ZipLoop, Loop, Shaped
<1> QED
  BY <1>2, <1>3 DEF zip_entry

LEMMA matter_otaKeeps ==
  ASSUME FormatsInv, NEW format \in {"matter_ota", "extract_matter_ota"}, matter_ota(format) PROVE Kept
<1>1. ASSUME NEW header_size \in U32, Contains(offset + MatterFixed, header_size)
      PROVE  MatterLoop([format |-> format, at |-> 0, last |-> None, limit |-> header_size, payload |-> 0])
  BY <1>1, Bounds, WidthAssumption DEF Contains, MatterFixed, MatterLoop, LastLoop, Loop, Lasts
<1> QED
  BY <1>1, Rejecting, Beginning DEF matter_ota, Asked, Shaped

LEMMA matter_ota_doneKeeps ==
  ASSUME FormatsInv, MatterLoop(walk), walk.format \in {"matter_ota", "extract_matter_ota"}, matter_ota_done
  PROVE  Kept
<1> DEFINE total == CheckedAdd(walk.payload, MatterFixed + walk.limit)
           start == offset + MatterFixed + walk.limit
<1>1. CASE Reject(walk.format)
  BY <1>1, Rejecting
<1>2. CASE Found("matter_ota", walk.limit, "high")
  BY <1>2, Answering, Bounds, WidthAssumption, WrapKeeps DEF MatterLoop, MatterFixed, Found, Answer, Answered, Sound
<1>3. CASE RangeInBounds(start, walk.payload) /\ Answered("extract_matter_ota", TRUE, start, walk.payload, "high", 0)
  BY <1>3, Answering, Bounds, WidthAssumption, WrapKeeps
     DEF MatterLoop, MatterFixed, RangeInBounds, Answered, Sound
<1>4. CASE total # None /\ Found("matter_ota_uncarved", total, "high")
  BY <1>4, Answering, Bounds, WidthAssumption, WrapKeeps
     DEF MatterLoop, MatterFixed, CheckedAdd, Found, Answer, Answered, Sound, Unchecked
<1> QED
  BY <1>1, <1>2, <1>3, <1>4 DEF matter_ota_done

\* An element has its control octet.
LEMMA TlvElementsGrow ==
  ASSUME NEW at \in Nat, NEW element \in tlv_elements(at)
  PROVE  element.consumed \in Nat /\ 0 < element.consumed
<1> DEFINE Inside(n) == at + n <= walk.limit
           Field(tag) == {[tagged |-> tag = 2, field |-> TRUE, consumed |-> tag + width] :
                            width \in {w \in {0, 1, 8} : Inside(tag + w)}}
           String(tag) == {[tagged |-> tag = 2, field |-> FALSE, consumed |-> tag + width + n] :
                             width \in {w \in {1, 8} : Inside(tag + w)}, n \in {n \in U8 : Inside(tag + 8 + n)}}
<1>1. element \in UNION {Field(tag) \cup String(tag) : tag \in {t \in {1, 2} : Inside(t)}}
  BY DEF tlv_elements
<1>2. \A tag \in {1, 2} : \A e \in Field(tag) : e.consumed \in Nat /\ 0 < e.consumed
  OBVIOUS
<1>3. \A tag \in {1, 2} : \A e \in String(tag) : e.consumed \in Nat /\ 0 < e.consumed
  BY WidthAssumption
<1> HIDE DEF Field, String
<1> QED
  BY <1>1, <1>2, <1>3

LEMMA matter_ota_elementKeeps ==
  ASSUME FormatsInv, matter_ota_element PROVE Kept
<1>1. MatterLoop(walk) /\ walk # Nowhere /\ answer = Unanswered /\ walk.format \in {"matter_ota", "extract_matter_ota"}
  BY FormatTells DEF matter_ota_element
<1>2. ASSUME NEW element \in tlv_elements(walk.at),
             NEW payload \in {walk.payload} \cup (IF element.tagged /\ element.field THEN U64 ELSE {}),
             IsOffsetSafe(walk.limit, walk.at, walk.last),
             GoOn([walk EXCEPT !.at = @ + element.consumed, !.last = walk.at, !.payload = payload])
      PROVE  Kept
  <2> DEFINE w == [walk EXCEPT !.at = @ + element.consumed, !.last = walk.at, !.payload = payload]
  <2>1. element.consumed \in Nat /\ 0 < element.consumed
    BY <1>1, TlvElementsGrow DEF MatterLoop, LastLoop, Loop
  <2>2. payload \in Nat
    BY <1>1, WidthAssumption DEF MatterLoop
  <2>3. MatterLoop(w) /\ w.at > walk.at /\ w.format = walk.format
    BY <1>1, <2>1, <2>2 DEF MatterLoop, LastLoop, Loop, Lasts
  <2>4. GoOn(w)
    BY <1>2
  <2> HIDE DEF w
  <2>5. Advances(walk, w)
    BY <1>1, <1>2, <2>3 DEF MatterLoop, LastLoop, Loop, Lasts, None, IsOffsetSafe, Advances, Stuck, Position
  <2> QED
    BY <1>1, <2>3, <2>4, <2>5, GoingOn DEF Shaped
<1> QED
  BY <1>1, <1>2, matter_ota_doneKeeps, Rejecting DEF matter_ota_element

LEMMA ArchivesKeeps ==
  ASSUME FormatsInv, ArchivesNext PROVE Kept
<1>1. ASSUME srecord \/ srecord_generic
      PROVE  Kept
  BY <1>1, parse_srecordKeeps DEF srecord, srecord_generic
<1>2. ASSUME zip
      PROVE  Kept
  BY <1>2, zip_archiveKeeps DEF zip
<1> QED
  BY <1>1, <1>2, debKeeps, sevenzipKeeps, iso9660Keeps, cabKeeps, rarKeeps, arjKeeps, tarballKeeps, tarball_entryKeeps,
     cpioKeeps, cpio_entryKeeps, zip_entryKeeps, matter_otaKeeps, matter_ota_elementKeeps DEF ArchivesNext

-----------------------------------------------------------------------------
(* What the extractors of vendors carve                                    *)

LEMMA trxKeeps ==
  ASSUME FormatsInv, trx PROVE Kept
BY Answering, Bounds, WidthAssumption, WrapKeeps
   DEF trx, inspect_trx, TrxHeader, TrxSummed, RangeInBounds, Contains, Answered, Sound

LEMMA extract_trxKeeps ==
  ASSUME FormatsInv, extract_trx PROVE Kept
<1>1. PICK total, p1, p2, p4 \in U32, version \in {1, 2} :
        LET parts == << p1, p2, p4 >>
            given == TrxPartitions(parts, version)
        IN /\ inspect_trx(total, p1, p2, version) /\ RangeInBounds(offset + TrxSummed, total - TrxSummed)
           /\ \E index \in given :
                LET later == {i \in given : i > index}
                    Ends == IF later = {} THEN {total} ELSE {parts[i] : i \in {i \in later : \A j \in later : i <= j}}
                IN \E end \in Ends :
                     LET n == IF later = {} THEN Wrap(end - parts[index]) ELSE end - parts[index]
                     IN Answered("extract_trx", n >= 0 /\ RangeInBounds(offset + parts[index], n),
                                 offset + parts[index], n, "high", 0)
  BY DEF extract_trx
<1> DEFINE parts == << p1, p2, p4 >>
           given == TrxPartitions(parts, version)
<1>2. total \in Nat /\ \A i \in 1 .. 3 : parts[i] \in Nat
  BY WidthAssumption
<1>3. given \subseteq 1 .. 3
  BY DEF TrxPartitions
<1> HIDE DEF parts, given
<1>4. PICK index \in given :
        LET later == {i \in given : i > index}
            Ends == IF later = {} THEN {total} ELSE {parts[i] : i \in {i \in later : \A j \in later : i <= j}}
        IN \E end \in Ends :
             LET n == IF later = {} THEN Wrap(end - parts[index]) ELSE end - parts[index]
             IN Answered("extract_trx", n >= 0 /\ RangeInBounds(offset + parts[index], n),
                         offset + parts[index], n, "high", 0)
  BY <1>1 DEF parts, given
<1> DEFINE later == {i \in given : i > index}
           Ends == IF later = {} THEN {total} ELSE {parts[i] : i \in {i \in later : \A j \in later : i <= j}}
<1>5. PICK end \in Ends :
        LET n == IF later = {} THEN Wrap(end - parts[index]) ELSE end - parts[index]
        IN Answered("extract_trx", n >= 0 /\ RangeInBounds(offset + parts[index], n),
                    offset + parts[index], n, "high", 0)
  BY <1>4
<1>6. end \in Nat /\ parts[index] \in Nat
  BY <1>2, <1>3
<1> DEFINE n == IF later = {} THEN Wrap(end - parts[index]) ELSE end - parts[index]
<1>7. n \in Int
  BY <1>6, WidthAssumption DEF Wrap
<1>8. Answered("extract_trx", n >= 0 /\ RangeInBounds(offset + parts[index], n), offset + parts[index], n, "high", 0)
  BY <1>5
<1> HIDE DEF later, n, Ends
<1> QED
  BY <1>6, <1>7, <1>8, Answering, Bounds, WidthAssumption, WrapKeeps DEF RangeInBounds, Answered, Sound

LEMMA jbootKeeps ==
  ASSUME FormatsInv, jboot_arm \/ jboot_stag \/ jboot_sch2 PROVE Kept
BY Answering, Bounds, WidthAssumption, WrapKeeps
   DEF jboot_arm, inspect_jboot_arm, JbootHeader, jboot_stag, inspect_jboot_stag, StagHeader, jboot_sch2,
       extract_jboot_sch2, Sch2Header, RangeInBounds, Contains, Answered, Sound

LEMMA dlkeKeeps ==
  ASSUME FormatsInv, dlke PROVE Kept
BY Answering, Bounds, WidthAssumption, WrapKeeps DEF dlke, JbootHeader, Answer, Answered, Sound, Unchecked

LEMMA mh01Keeps ==
  ASSUME FormatsInv, mh01 PROVE Kept
BY Answering, Bounds, WidthAssumption, WrapKeeps DEF mh01, MhSecond, Answer, Answered, Sound, Unchecked

LEMMA extract_mh01Keeps ==
  ASSUME FormatsInv, extract_mh01 PROVE Kept
<1>1. ASSUME NEW from \in Nat, NEW n \in Nat,
             Answered("extract_mh01", RangeInBounds(offset + from, n), offset + from, n, "high", 0)
      PROVE  Kept
  BY <1>1, Answering, Bounds, WidthAssumption, WrapKeeps DEF RangeInBounds, Answered, Sound
<1> QED
  BY <1>1, WidthAssumption DEF extract_mh01, MhHeader, MhSecond

LEMMA winceKeeps ==
  ASSUME FormatsInv, wince PROVE Kept
<1>1. WinceLoop([format |-> "wince", at |-> offset + WinceHeader, last |-> None, blocks |-> 0])
  BY Bounds DEF WinceLoop, LastLoop, Loop, Lasts, WinceHeader
<1> QED
  BY <1>1, Rejecting, Beginning DEF wince, Asked, Begin, Shaped

LEMMA wince_blockKeeps ==
  ASSUME FormatsInv, wince_block PROVE Kept
<1>1. WinceLoop(walk) /\ walk # Nowhere /\ answer = Unanswered
  BY FormatTells DEF wince_block, Walking
<1>2. ASSUME Safe, Contains(walk.at, WinceBlock),
             Answer("wince", walk.blocks > WinceEntries, walk.at + WinceBlock - offset, "high")
      PROVE  Kept
  BY <1>1, <1>2, Answering, Bounds, WidthAssumption, WrapKeeps
     DEF WinceLoop, LastLoop, Loop, WinceBlock, Contains, Answer, Answered, Sound
<1>3. ASSUME NEW n \in U32, Safe,
             GoOn([walk EXCEPT !.at = @ + WinceBlock + n, !.last = walk.at,
                               !.blocks = AtMost(@ + 1, WinceEntries + 1)])
      PROVE  Kept
  <2> DEFINE w == [walk EXCEPT !.at = @ + WinceBlock + n, !.last = walk.at,
                               !.blocks = AtMost(@ + 1, WinceEntries + 1)]
  <2>1. WinceLoop(w) /\ w.at > walk.at
    BY <1>1, Bounds, WidthAssumption DEF WinceLoop, LastLoop, Loop, Lasts, WinceBlock, WinceEntries, AtMost
  <2>2. GoOn(w)
    BY <1>3
  <2> HIDE DEF w
  <2> QED
    BY <1>1, <1>3, <2>1, <2>2, Onward DEF WinceLoop, LastLoop, Loop, Shaped
<1> QED
  BY <1>2, <1>3, Rejecting DEF wince_block

LEMMA extract_dahua_zipKeeps ==
  ASSUME FormatsInv, extract_dahua_zip PROVE Kept
<1>1. PICK eocd \in find_eocd :
        LET total == eocd - offset
        IN Answered("extract_dahua_zip",
             /\ eocd # None /\ eocd > offset /\ total >= 2
             /\ RangeInBounds(offset + 2, total - 2),
             offset + 2, total - 2, "high", 0)
  BY DEF extract_dahua_zip
<1> QED
  BY <1>1, EocdInside, Answering, Bounds, WidthAssumption, WrapKeeps DEF RangeInBounds, Answered, Sound

LEMMA csmanKeeps ==
  ASSUME FormatsInv, csman PROVE Kept
<1>1. PICK magic \in BOOLEAN, compressed \in U32, decompressed \in U32 :
        LET limit == IF compressed = decompressed THEN compressed ELSE AtMost(decompressed, available)
        IN IF ~inspect_csman_header(magic) \/ ~RangeInBounds(offset + CsmanHeader, compressed)
           THEN Reject("csman")
           ELSE BeginWithin(limit, 6, [format |-> "csman", at |-> 0, last |-> None, entries |-> 0,
                              stored |-> compressed, limit |-> limit])
  BY DEF csman
<1> DEFINE limit == IF compressed = decompressed THEN compressed ELSE AtMost(decompressed, available)
           w == [format |-> "csman", at |-> 0, last |-> None, entries |-> 0, stored |-> compressed, limit |-> limit]
<1>2. limit \in Nat /\ compressed \in Nat
  BY Bounds, WidthAssumption DEF AtMost, available
<1> HIDE DEF limit
<1>3. RangeInBounds(offset + CsmanHeader, compressed) => CsmanLoop(w)
  BY <1>2, Bounds DEF RangeInBounds, CsmanLoop, LastLoop, Loop, Lasts
<1> HIDE DEF w
<1>4. ASSUME RangeInBounds(offset + CsmanHeader, compressed), BeginWithin(limit, 6, w)
      PROVE  Kept
  BY <1>3, <1>4, Beginning DEF csman, Asked, Shaped
<1> QED
  BY <1>1, <1>4, Rejecting DEF limit, w

LEMMA csman_entryKeeps ==
  ASSUME FormatsInv, csman_entry PROVE Kept
<1>1. CsmanLoop(walk) /\ walk # Nowhere /\ answer = Unanswered
  BY FormatTells DEF csman_entry, Walking
<1>2. ASSUME NEW found, Answer("csman", found, CsmanHeader + walk.stored, "high")
      PROVE  Kept
  BY <1>1, <1>2, Answering, Bounds, WidthAssumption, WrapKeeps DEF CsmanLoop, CsmanHeader, Answer, Answered, Sound
<1>3. ASSUME NEW n \in U16, IsOffsetSafe(walk.limit, walk.at, walk.last),
             GoOn([walk EXCEPT !.at = @ + 6 + n, !.last = walk.at, !.entries = 1])
      PROVE  Kept
  <2> DEFINE w == [walk EXCEPT !.at = @ + 6 + n, !.last = walk.at, !.entries = 1]
  <2>1. CsmanLoop(w) /\ w.at > walk.at
    BY <1>1, WidthAssumption DEF CsmanLoop, LastLoop, Loop, Lasts
  <2>2. GoOn(w)
    BY <1>3
  <2> HIDE DEF w
  <2>3. Advances(walk, w)
    BY <1>1, <1>3, <2>1 DEF CsmanLoop, LastLoop, Loop, Lasts, None, IsOffsetSafe, Advances, Stuck, Position
  <2> QED
    BY <1>1, <2>1, <2>2, <2>3, GoingOn DEF Shaped
<1> QED
  BY <1>2, <1>3 DEF csman_entry

LEMMA VendorCarveKeeps ==
  ASSUME FormatsInv, VendorCarveNext PROVE Kept
<1>1. ASSUME dahua_zip
      PROVE  Kept
  BY <1>1, zip_archiveKeeps DEF dahua_zip
<1> QED
  BY <1>1, trxKeeps, extract_trxKeeps, jbootKeeps, dlkeKeeps, mh01Keeps, extract_mh01Keeps, winceKeeps,
     wince_blockKeeps, extract_dahua_zipKeeps, csmanKeeps, csman_entryKeeps DEF VendorCarveNext

-----------------------------------------------------------------------------
(* Filesystems and volumes                                                 *)

LEMMA cramfsKeeps ==
  ASSUME FormatsInv, cramfs PROVE Kept
BY Answering, Bounds, WidthAssumption, WrapKeeps DEF cramfs, RangeInBounds, Answered, Sound

LEMMA romfsKeeps ==
  ASSUME FormatsInv, romfs PROVE Kept
<1>1. ASSUME NEW total \in U32, NEW name \in Strings(offset + RomfsHeader, 4096), RangeInBounds(offset, total)
      PROVE  RomfsLoop([format |-> "romfs", at |-> RomfsHeader + Aligned(name + 1, 16), last |-> None, limit |-> total,
                        above |-> <<>>, budget |-> total \div 16 + RomfsSlack, entries |-> FALSE])
  <2>1. name + 1 \in Nat
    BY Bounds DEF Strings, RomfsHeader
  <2>2. PICK at \in Nat : at = RomfsHeader + Aligned(name + 1, 16)
    BY <2>1, AlignedUp DEF RomfsHeader
  <2>3. PICK budget \in Nat : budget = total \div 16 + RomfsSlack
    BY WidthAssumption, FilesystemsAssumption, Quotient
  <2>4. total \in Nat /\ offset + total <= size /\ <<>> \in Seq([next : Nat, at : Nat])
    BY <1>1, WidthAssumption DEF RangeInBounds
  <2> QED
    BY <2>2, <2>3, <2>4 DEF RomfsLoop, LastLoop, Loop, Lasts
<1> QED
  BY <1>1, Rejecting, Beginning DEF romfs, Asked, Begin, Shaped

LEMMA romfs_list_endKeeps ==
  ASSUME FormatsInv, walk # Nowhere, RomfsLoop(walk), romfs_list_end PROVE Kept
<1>1. CASE walk.above = <<>>
  BY <1>1, Answering, Bounds, WidthAssumption, WrapKeeps DEF romfs_list_end, RomfsLoop, Answer, Answered, Sound
<1>2. CASE walk.above # <<>>
  <2> DEFINE up == walk.above[Len(walk.above)]
             above == SubSeq(walk.above, 1, Len(walk.above) - 1)
             w == [walk EXCEPT !.at = up.next, !.last = up.at, !.above = above,
                               !.entries = @ \/ Len(walk.above) = 1]
  <2>1. walk.above \in Seq([next : Nat, at : Nat]) /\ Len(walk.above) \in Nat \ {0}
    BY <1>2 DEF RomfsLoop
  <2>2. up.next \in Nat /\ up.at \in Nat
    <3>1. Len(walk.above) \in 1 .. Len(walk.above)
      BY <2>1
    <3>2. up \in [next : Nat, at : Nat]
      BY <2>1, <3>1, ElementOfSeq
    <3> HIDE DEF up
    <3> QED
      BY <3>2
  <2>3. above \in Seq([next : Nat, at : Nat]) /\ Len(above) < Len(walk.above)
    <3>1. \A i \in 1 .. Len(walk.above) - 1 : walk.above[i] \in [next : Nat, at : Nat]
      <4>1. \A i \in 1 .. Len(walk.above) - 1 : i \in 1 .. Len(walk.above)
        BY <2>1
      <4> QED
        BY <2>1, <4>1, ElementOfSeq
    <3>2. Len(walk.above) - 1 \in Int
      BY <2>1
    <3>3. /\ above \in Seq([next : Nat, at : Nat])
          /\ Len(above) = IF 1 <= Len(walk.above) - 1 THEN Len(walk.above) - 1 - 1 + 1 ELSE 0
      BY <3>1, <3>2, SubSeqProperties
    <3> QED
      BY <2>1, <3>3
  <2> HIDE DEF up, above
  <2>4. RomfsLoop(w) /\ w.above = above
    BY <2>2, <2>3 DEF RomfsLoop, LastLoop, Loop, Lasts
  <2>5. GoOn(w)
    BY <1>2 DEF romfs_list_end, up, above
  <2> HIDE DEF w
  <2>6. Advances(walk, w)
    BY <2>3, <2>4 DEF RomfsLoop, LastLoop, Loop, Advances
  <2> QED
    BY <2>4, <2>5, <2>6, GoingOn DEF Shaped
<1> QED
  BY <1>1, <1>2

LEMMA romfs_directoryKeeps ==
  ASSUME FormatsInv, walk # Nowhere, RomfsLoop(walk), walk.budget # 0, NEW next \in Nat, romfs_directory(next)
  PROVE  Kept
<1>1. CASE Reject("romfs")
  BY <1>1, Rejecting
<1>2. ASSUME NEW info \in U32,
             GoOn([walk EXCEPT !.at = info, !.last = None, !.budget = @ - 1,
                               !.above = Append(@, [next |-> next, at |-> walk.at])])
      PROVE  Kept
  <2> DEFINE above == Append(walk.above, [next |-> next, at |-> walk.at])
             w == [walk EXCEPT !.at = info, !.last = None, !.budget = @ - 1, !.above = above]
  <2>1. above \in Seq([next : Nat, at : Nat])
    BY AppendProperties DEF RomfsLoop, LastLoop, Loop
  <2> HIDE DEF above
  <2>2. RomfsLoop(w) /\ w.budget < walk.budget
    BY <2>1, WidthAssumption DEF RomfsLoop, LastLoop, Loop, Lasts
  <2>3. GoOn(w)
    BY <1>2 DEF above
  <2> HIDE DEF w
  <2>4. Advances(walk, w)
    BY <2>2 DEF RomfsLoop, LastLoop, Loop, Advances
  <2> QED
    BY <2>2, <2>3, <2>4, GoingOn DEF Shaped
<1> QED
  BY <1>1, <1>2 DEF romfs_directory

LEMMA romfs_entryKeeps ==
  ASSUME FormatsInv, romfs_entry PROVE Kept
<1>1. RomfsLoop(walk) /\ walk # Nowhere /\ answer = Unanswered
  BY FormatTells DEF romfs_entry, Walking
<1>2. ASSUME NEW header \in U32
      PROVE  16 * (header \div 16) \in Nat
  BY WidthAssumption, Quotient
<1>3. ASSUME NEW next \in Nat, walk.budget # 0, NEW kept \in BOOLEAN,
             GoOn([walk EXCEPT !.at = next, !.last = walk.at, !.budget = @ - 1,
                               !.entries = @ \/ (walk.above = <<>> /\ kept)])
      PROVE  Kept
  <2> DEFINE entries == walk.entries \/ (walk.above = <<>> /\ kept)
             w == [walk EXCEPT !.at = next, !.last = walk.at, !.budget = @ - 1, !.entries = entries]
  <2> HIDE DEF entries
  <2>1. RomfsLoop(w) /\ w.budget < walk.budget
    BY <1>1, <1>3 DEF RomfsLoop, LastLoop, Loop, Lasts
  <2>2. GoOn(w)
    BY <1>3 DEF entries
  <2> HIDE DEF w
  <2>3. Advances(walk, w)
    BY <1>1, <2>1 DEF RomfsLoop, LastLoop, Loop, Advances
  <2> QED
    BY <1>1, <2>1, <2>2, <2>3, GoingOn DEF Shaped
<1>4. CASE romfs_list_end \/ Reject("romfs")
  BY <1>1, <1>4, romfs_list_endKeeps, Rejecting
<1>5. CASE ~(romfs_list_end \/ Reject("romfs"))
  <2>1. walk.budget # 0
    BY <1>5 DEF romfs_entry
  <2>2. PICK header \in U32 :
          \/ romfs_directory(16 * (header \div 16))
          \/ \E kept \in BOOLEAN :
               GoOn([walk EXCEPT !.at = 16 * (header \div 16), !.last = walk.at, !.budget = @ - 1,
                                 !.entries = @ \/ (walk.above = <<>> /\ kept)])
    BY <1>5, Zenon DEF romfs_entry
  <2> QED
    BY <1>1, <1>2, <1>3, <2>1, <2>2, romfs_directoryKeeps
<1> QED
  BY <1>4, <1>5

LEMMA android_sparseKeeps ==
  ASSUME FormatsInv, NEW format \in {"android_sparse", "extract_android_sparse"}, android_sparse(format)
  PROVE  Kept
<1>1. ASSUME NEW block_size \in U32, NEW block_count \in U32, NEW chunk_count \in U32, Contains(offset, SparseHeader)
      PROVE  SparseLoop([format |-> format, at |-> offset + SparseHeader, last |-> None, block_size |-> block_size,
                         blocks |-> block_count, chunks |-> chunk_count])
  BY <1>1, Bounds, WidthAssumption DEF SparseHeader, Contains, SparseLoop, LastLoop, Loop, Lasts
<1> QED
  BY <1>1, Rejecting, Beginning DEF android_sparse, Asked, Begin, Shaped

LEMMA android_sparse_chunkKeeps ==
  ASSUME FormatsInv, android_sparse_chunk PROVE Kept
<1>1. SparseLoop(walk) /\ walk # Nowhere /\ answer = Unanswered
      /\ walk.format \in {"android_sparse", "extract_android_sparse"}
  BY FormatTells DEF android_sparse_chunk
<1>2. CASE android_sparse_done
  BY <1>1, <1>2, Answering, Bounds, WidthAssumption, WrapKeeps
     DEF android_sparse_done, SparseLoop, LastLoop, Loop, Answer, Answered, Sound, Unchecked
<1>3. ASSUME Safe, NEW total \in U32, NEW count \in U32, Contains(walk.at, SparseChunk),
             total - SparseChunk >= 0, count <= walk.blocks,
             walk.format = "extract_android_sparse" => RangeInBounds(walk.at + SparseChunk, total - SparseChunk),
             GoOn([walk EXCEPT !.at = @ + total, !.last = walk.at, !.blocks = @ - count, !.chunks = @ - 1])
      PROVE  Kept
  <2> DEFINE w == [walk EXCEPT !.at = @ + total, !.last = walk.at, !.blocks = @ - count, !.chunks = @ - 1]
  <2>1. total \in Nat /\ count \in Nat /\ total < W32 /\ 12 <= total /\ walk.at + 12 <= size
        /\ (walk.format = "extract_android_sparse" => walk.at + total <= size)
    BY <1>1, <1>3, Bounds, WidthAssumption DEF SparseLoop, LastLoop, Loop, SparseChunk, Contains, RangeInBounds
  <2>2. SparseLoop(w) /\ w.at > walk.at /\ w.format = walk.format
    BY <1>1, <1>3, <2>1, Bounds, WidthAssumption DEF SparseLoop, LastLoop, Loop, Lasts
  <2>3. GoOn(w)
    BY <1>3
  <2> HIDE DEF w
  <2> QED
    BY <1>1, <1>3, <2>2, <2>3, Onward DEF SparseLoop, LastLoop, Loop, Shaped
<1> QED
  BY <1>2, <1>3 DEF android_sparse_chunk

LEMMA dtbKeeps ==
  ASSUME FormatsInv, dtb PROVE Kept
BY Answering, Bounds, WidthAssumption, WrapKeeps DEF dtb, Answer, Answered, Sound, Unchecked

LEMMA extract_dtbKeeps ==
  ASSUME FormatsInv, extract_dtb PROVE Kept
<1>1. ASSUME NEW total \in U32, NEW struct_offset \in U32, RangeInBounds(offset, total)
      PROVE  DtbLoop([format |-> "extract_dtb", at |-> struct_offset, last |-> None, limit |-> total])
  BY <1>1, Bounds, WidthAssumption DEF RangeInBounds, DtbLoop, LastLoop, Loop, Lasts
<1> QED
  BY <1>1, Rejecting, Beginning DEF extract_dtb, Asked, Shaped

LEMMA DtbNodesGrow ==
  ASSUME NEW at, NEW n \in DtbNodes(at)
  PROVE  n \in Nat /\ 4 <= n
<1>1. \/ n = 4
      \/ \E name \in {0, 1, 7} : n = 4 + Aligned(name + 1, 4)
      \/ \E m \in U32 : n = 12 + Aligned(m, 4)
  BY DEF DtbNodes
<1>2. \A m \in Nat : Aligned(m, 4) \in Nat /\ Aligned(m + 1, 4) \in Nat
  BY AlignedUp
<1> QED
  BY <1>1, <1>2, WidthAssumption

LEMMA extract_dtb_nodeKeeps ==
  ASSUME FormatsInv, extract_dtb_node PROVE Kept
<1>1. DtbLoop(walk) /\ walk # Nowhere /\ answer = Unanswered
  BY FormatTells DEF extract_dtb_node, Walking
<1>2. CASE Found("extract_dtb", walk.limit, "medium")
  BY <1>1, <1>2, Answering, Bounds, WidthAssumption, WrapKeeps DEF DtbLoop, Found, Answer, Answered, Sound
<1>3. ASSUME NEW n \in DtbNodes(walk.at), IsOffsetSafe(walk.limit, walk.at, walk.last),
             GoOn([walk EXCEPT !.at = @ + n, !.last = walk.at])
      PROVE  Kept
  <2> DEFINE w == [walk EXCEPT !.at = @ + n, !.last = walk.at]
  <2>1. n \in Nat /\ 4 <= n
    BY DtbNodesGrow
  <2>2. DtbLoop(w) /\ w.at > walk.at
    BY <1>1, <2>1 DEF DtbLoop, LastLoop, Loop, Lasts
  <2>3. GoOn(w)
    BY <1>3
  <2> HIDE DEF w
  <2> QED
    BY <1>1, <1>3, <2>2, <2>3, OnwardWithin DEF DtbLoop, LastLoop, Loop, Shaped
<1> QED
  BY <1>2, <1>3, Rejecting DEF extract_dtb_node

LEMMA extKeeps ==
  ASSUME FormatsInv, ext PROVE Kept
<1>1. PICK good \in BOOLEAN, blocks \in U32, log \in 0 .. ExtMaxBlockLog + 1 :
        LET image == rewind_to_structure_start(ExtBack)
            total == CheckedMultiply(ExtBlockSize(log), blocks)
        IN Answered("ext",
             image # None /\ Contains(image, 2048) /\ good /\ log <= ExtMaxBlockLog /\ total # None,
             image, total, "medium", 0)
  BY DEF ext
<1> DEFINE total == CheckedMultiply(ExtBlockSize(log), blocks)
<1>2. ExtBlockSize(log) \in Nat /\ blocks \in Nat
  BY WidthAssumption DEF ExtBlockSize, ExtMaxBlockLog
<1>3. total # None => total \in 0 .. W64 - 1
  BY <1>2, ProductFits
<1> HIDE DEF total
<1> QED
  BY <1>1, <1>3, Answering, Bounds, WrapKeeps DEF total, Answered, Sound, Unchecked

LEMMA mbrKeeps ==
  ASSUME FormatsInv, mbr PROVE Kept
<1>1. PICK p \in [start : U32, size : U32, used : BOOLEAN], q \in [start : U32, size : U32, used : BOOLEAN] :
        LET partitions == {r \in {p, q} : mbr_fits(r)}
            ends == {0} \cup {mbr_end(r) : r \in partitions}
            total == CHOOSE n \in ends : \A m \in ends : m <= n
        IN /\ offset = 0
           /\ Answered("mbr",
                Contains(offset + MbrTable, 64) /\ (\E r \in partitions : r.start # 0) /\ total > 2 * Sector,
                offset, total, "medium", IF Contains(offset + MbrTable, 64) THEN offset + MbrTable + 64 ELSE 0)
  BY DEF mbr
<1> DEFINE partitions == {r \in {p, q} : mbr_fits(r)}
           ends == {0} \cup {mbr_end(r) : r \in partitions}
           total == CHOOSE n \in ends : \A m \in ends : m <= n
<1>2. \A r \in partitions : mbr_end(r) \in Nat /\ mbr_end(r) <= size
  BY WidthAssumption DEF mbr_end, mbr_fits, Sector
<1>3. \E n \in ends : \A m \in ends : m <= n
  <2> DEFINE a == IF mbr_fits(p) THEN mbr_end(p) ELSE 0
             b == IF mbr_fits(q) THEN mbr_end(q) ELSE 0
  <2>1. a \in Nat /\ b \in Nat /\ ends = {0, a, b}
    BY <1>2
  <2> HIDE DEF a, b, ends
  <2> QED
    BY <2>1
<1>4. total \in ends
  BY <1>3
<1>5. total \in Nat /\ total <= size
  <2>1. \A n \in ends : n \in Nat /\ n <= size
    BY <1>2, Bounds
  <2> HIDE DEF total, ends
  <2> QED
    BY <1>4, <2>1
<1>6. Answered("mbr",
        Contains(offset + MbrTable, 64) /\ (\E r \in partitions : r.start # 0) /\ total > 2 * Sector,
        offset, total, "medium", IF Contains(offset + MbrTable, 64) THEN offset + MbrTable + 64 ELSE 0)
      /\ offset = 0
  BY <1>1
<1> HIDE DEF total, partitions
<1> QED
  BY <1>5, <1>6, Answering, Bounds, WidthAssumption, WrapKeeps DEF MbrTable, Contains, Answered, Sound

LEMMA extract_mbrKeeps ==
  ASSUME FormatsInv, extract_mbr PROVE Kept
BY Answering, Bounds, WidthAssumption, WrapKeeps DEF extract_mbr, Sector, Contains, Answered, Sound

LEMMA fatKeeps ==
  ASSUME FormatsInv, fat PROVE Kept
<1>1. PICK good \in BOOLEAN, bytes_per_sector \in {512, 4096}, total_16 \in U16, total_32 \in U32 :
        LET image == rewind_to_structure_start(MbrMagic)
            total == CheckedMultiply(IF total_16 # 0 THEN total_16 ELSE total_32, bytes_per_sector)
            read == image # None /\ Contains(image, FatBootSector)
        IN Answered("fat", read /\ good /\ total # None /\ total # 0, image, total, "medium",
                    IF read THEN image + FatBootSector ELSE 0)
  BY DEF fat
<1> DEFINE total == CheckedMultiply(IF total_16 # 0 THEN total_16 ELSE total_32, bytes_per_sector)
<1>2. total # None => total \in 0 .. W64 - 1
  <2>1. (IF total_16 # 0 THEN total_16 ELSE total_32) \in Nat
    BY WidthAssumption
  <2> QED
    BY <2>1, ProductFits
<1> HIDE DEF total
<1> QED
  BY <1>1, <1>2, Answering, Bounds, WrapKeeps
     DEF total, rewind_to_structure_start, MbrMagic, FatBootSector, Contains, Answered, Sound, Unchecked

LEMMA efigptKeeps ==
  ASSUME FormatsInv, efigpt PROVE Kept
<1>1. CASE Reject("efigpt")
  BY <1>1, Rejecting
<1>2. CASE ~Reject("efigpt")
  <2>1. PICK lba \in U64, count \in U32, entry_size \in U32 :
          LET image == rewind_to_structure_start(MbrMagic)
              at == CheckedMultiply(lba, Sector)
              n == CheckedMultiply(count, entry_size)
          IN /\ image # None /\ at # None /\ n # None
             /\ BeginWithin(n, entry_size, [format |-> "efigpt", from |-> image, table |-> image + at, limit |-> n,
                    entry_size |-> entry_size, at |-> 0, last |-> None, total |-> 0])
    BY <1>2 DEF efigpt
  <2> DEFINE image == rewind_to_structure_start(MbrMagic)
             at == CheckedMultiply(lba, Sector)
             n == CheckedMultiply(count, entry_size)
             w == [format |-> "efigpt", from |-> image, table |-> image + at, limit |-> n,
                   entry_size |-> entry_size, at |-> 0, last |-> None, total |-> 0]
  <2>2. entry_size \in Nat /\ count \in Nat /\ lba \in Nat /\ Sector \in Nat
    BY WidthAssumption DEF Sector
  <2>3. at \in Nat /\ n \in Nat
    BY <2>1, <2>2, ProductFits
  <2>4. image \in Nat /\ image <= offset
    BY <2>1, Bounds DEF rewind_to_structure_start, MbrMagic
  <2> HIDE DEF at, n, image
  <2>5. EfigptLoop(w)
    BY <2>2, <2>3, <2>4 DEF EfigptLoop, LastLoop, Loop, Lasts
  <2>6. BeginWithin(n, entry_size, w)
    BY <2>1 DEF at, n, image
  <2> HIDE DEF w
  <2> QED
    BY <2>5, <2>6, Beginning DEF efigpt, Asked, Shaped
<1> QED
  BY <1>1, <1>2

LEMMA efigpt_entryKeeps ==
  ASSUME FormatsInv, efigpt_entry PROVE Kept
<1>1. EfigptLoop(walk) /\ walk # Nowhere /\ answer = Unanswered
  BY FormatTells DEF efigpt_entry, Walking
<1>2. CASE IsOffsetSafe(walk.limit, walk.at, walk.last)
  <2>1. PICK final \in U64, counts \in BOOLEAN :
          /\ counts => CheckedMultiply(final, Sector) # None
          /\ GoOn([walk EXCEPT !.at = @ + walk.entry_size, !.last = walk.at,
                     !.total = IF counts THEN CheckedMultiply(final, Sector) ELSE @])
    <3>1. PICK used \in BOOLEAN, first \in U64, final \in U64 :
            LET start == CheckedMultiply(first, Sector)
                end == CheckedMultiply(final, Sector)
                counts == /\ Contains(walk.table + walk.at, GptEntry) /\ used
                          /\ start # None /\ end # None /\ start < end /\ end > walk.total
            IN GoOn([walk EXCEPT !.at = @ + walk.entry_size, !.last = walk.at,
                       !.total = IF counts THEN end ELSE @])
      BY <1>2 DEF efigpt_entry
    <3> DEFINE end == CheckedMultiply(final, Sector)
               counts == /\ Contains(walk.table + walk.at, GptEntry) /\ used
                         /\ CheckedMultiply(first, Sector) # None /\ end # None
                         /\ CheckedMultiply(first, Sector) < end /\ end > walk.total
    <3>2. CASE counts
      <4>1. GoOn([walk EXCEPT !.at = @ + walk.entry_size, !.last = walk.at, !.total = IF TRUE THEN end ELSE @])
        BY <3>1, <3>2
      <4> QED
        BY <3>2, <4>1
    <3>3. CASE ~counts
      <4>1. GoOn([walk EXCEPT !.at = @ + walk.entry_size, !.last = walk.at, !.total = IF FALSE THEN end ELSE @])
        BY <3>1, <3>3
      <4> QED
        BY <3>3, <4>1
    <3> QED
      BY <3>2, <3>3
  <2> DEFINE total == IF counts THEN CheckedMultiply(final, Sector) ELSE walk.total
             w == [walk EXCEPT !.at = @ + walk.entry_size, !.last = walk.at, !.total = total]
  <2>2. total \in Nat
    <3>1. final \in Nat /\ Sector \in Nat
      BY WidthAssumption DEF Sector
    <3>2. counts => CheckedMultiply(final, Sector) \in Nat
      BY <2>1, <3>1, ProductFits
    <3> QED
      BY <1>1, <3>2 DEF EfigptLoop
  <2> HIDE DEF total
  <2>3. EfigptLoop(w) /\ (w.at > walk.at \/ w.last >= w.at)
    BY <1>1, <2>2 DEF EfigptLoop, LastLoop, Loop, Lasts
  <2>4. GoOn(w)
    BY <2>1 DEF total
  <2> HIDE DEF w
  <2> QED
    BY <1>1, <1>2, <2>3, <2>4, OnwardWithin DEF EfigptLoop, LastLoop, Loop, Shaped
<1>3. CASE ~IsOffsetSafe(walk.limit, walk.at, walk.last)
  BY <1>1, <1>3, Answering, Bounds, WidthAssumption, WrapKeeps
     DEF efigpt_entry, EfigptLoop, AtMost, available, Answered, Sound
<1> QED
  BY <1>2, <1>3

LEMMA ntfsKeeps ==
  ASSUME FormatsInv, ntfs PROVE Kept
<1>1. PICK good \in BOOLEAN, bytes_per_sector \in U16, sectors \in U64 :
        LET total == CheckedMultiply(bytes_per_sector, sectors + 1)
        IN Answer("ntfs",
             /\ Contains(offset, NtfsBootSector) /\ good /\ sectors # W64 - 1
             /\ total # None /\ total > bytes_per_sector,
             total, "medium")
  BY DEF ntfs
<1> DEFINE total == CheckedMultiply(bytes_per_sector, sectors + 1)
<1>2. total # None => total \in 0 .. W64 - 1
  <2>1. bytes_per_sector \in Nat /\ sectors + 1 \in Nat
    BY WidthAssumption
  <2> QED
    BY <2>1, ProductFits
<1> HIDE DEF total
<1> QED
  BY <1>1, <1>2, Answering, Bounds, WrapKeeps DEF total, Answer, Answered, Sound, Unchecked

LEMMA apfsKeeps ==
  ASSUME FormatsInv, apfs PROVE Kept
<1>1. PICK good \in BOOLEAN, block_size \in U32, blocks \in U64 :
        LET image == rewind_to_structure_start(ApfsBack)
            total == CheckedMultiply(blocks, block_size)
            rest == size - image
        IN Answered("apfs",
             /\ image # None /\ Contains(offset, ApfsSuperblock) /\ good
             /\ block_size # 0 /\ blocks # 0 /\ total # None,
             image, IF total - rest = Sector THEN rest ELSE total, "medium", 0)
  BY DEF apfs
<1> DEFINE total == CheckedMultiply(blocks, block_size)
<1>2. total # None => total \in 0 .. W64 - 1
  <2>1. blocks \in Nat /\ block_size \in Nat
    BY WidthAssumption
  <2> QED
    BY <2>1, ProductFits
<1> HIDE DEF total
<1> QED
  BY <1>1, <1>2, Answering, Bounds, WidthAssumption, WrapKeeps
     DEF total, rewind_to_structure_start, ApfsBack, Answered, Sound, Unchecked

LEMMA btrfsKeeps ==
  ASSUME FormatsInv, btrfs PROVE Kept
BY Answering, Bounds, WidthAssumption, WrapKeeps DEF btrfs, Answered, Sound, Unchecked

LEMMA carve_singleKeeps ==
  ASSUME FormatsInv, carve_single PROVE Kept
BY Answering, Bounds, WidthAssumption, WrapKeeps DEF carve_single, Answer, Answered, Sound

LEMMA FilesystemsKeeps ==
  ASSUME FormatsInv, FilesystemsNext PROVE Kept
BY cramfsKeeps, romfsKeeps, romfs_entryKeeps, android_sparseKeeps, android_sparse_chunkKeeps, dtbKeeps,
   extract_dtbKeeps, extract_dtb_nodeKeeps, extKeeps, mbrKeeps, extract_mbrKeeps, fatKeeps, efigptKeeps,
   efigpt_entryKeeps, ntfsKeeps, apfsKeeps, btrfsKeeps, carve_singleKeeps DEF FilesystemsNext

-----------------------------------------------------------------------------
(* Filesystems of flash memory                                             *)

LEMMA squashfsKeeps ==
  ASSUME FormatsInv, squashfs PROVE Kept
BY Answering, Bounds, WidthAssumption, WrapKeeps DEF squashfs, available, Answer, Answered, Sound

LEMMA jffs2Keeps ==
  ASSUME FormatsInv, jffs2 PROVE Kept
<1>1. PICK good \in BOOLEAN, n \in U32 :
        LET end == offset + Aligned(n, 4)
        IN IF ~parse_jffs2_node_header(offset, good) \/ end >= size THEN Reject("jffs2")
           ELSE Begin(Jffs2Node, [format |-> "jffs2", at |-> end, eof |-> end, nodes |-> 1])
  BY DEF jffs2
<1> DEFINE end == offset + Aligned(n, 4)
           w == [format |-> "jffs2", at |-> end, eof |-> end, nodes |-> 1]
<1>2. end \in Nat /\ offset <= end
  <2>1. Aligned(n, 4) \in Nat
    BY AlignedUp, WidthAssumption
  <2> QED
    BY <2>1, Bounds
<1> HIDE DEF end
<1>3. ~(end >= size) => Jffs2Loop(w)
  BY <1>2, Bounds, WidthAssumption DEF Jffs2Loop, Loop
<1> HIDE DEF w
<1>4. ASSUME ~(end >= size), Begin(Jffs2Node, w)
      PROVE  Kept
  BY <1>3, <1>4, Beginning DEF jffs2, Asked, Begin, Shaped
<1> QED
  BY <1>1, <1>4, Rejecting DEF end, w

LEMMA jffs2_nodeKeeps ==
  ASSUME FormatsInv, jffs2_node PROVE Kept
<1>1. Jffs2Loop(walk) /\ walk # Nowhere /\ answer = Unanswered
  BY FormatTells DEF jffs2_node, Walking
<1>2. CASE jffs2_done
  BY <1>1, <1>2, Answering, Bounds, WidthAssumption, WrapKeeps
     DEF jffs2_done, Jffs2Loop, Answer, Answered, Sound, Unchecked
<1>3. CASE ~jffs2_done
  <2>1. PICK at \in Jffs2Magics, good \in BOOLEAN, n \in U32 :
          /\ Contains(at, 2)
          /\ IF ~parse_jffs2_node_header(at, good) THEN GoOn([walk EXCEPT !.at = at + 1])
             ELSE GoOn([walk EXCEPT !.at = at + 1, !.eof = at + Aligned(n, 4),
                                    !.nodes = AtMost(@ + 1, Jffs2Nodes + 1)])
    BY <1>3 DEF jffs2_node
  <2>2. at \in Nat /\ walk.at <= at /\ walk.eof <= at /\ at <= size
    BY <1>1, <2>1, Bounds DEF Jffs2Magics, Jffs2Loop, Loop, Jffs2Node, Contains
  <2> DEFINE eof == at + Aligned(n, 4)
             searched == [walk EXCEPT !.at = at + 1]
             found == [walk EXCEPT !.at = at + 1, !.eof = eof, !.nodes = AtMost(@ + 1, Jffs2Nodes + 1)]
  <2>3. eof \in Nat /\ offset <= eof /\ eof <= size + W32 + 4
    <3>1. n \in Nat /\ n < W32
      BY WidthAssumption
    <3>2. Aligned(n, 4) \in Nat /\ Aligned(n, 4) <= n + 3
      BY <3>1, AlignedUp
    <3> QED
      BY <1>1, <2>2, <3>1, <3>2, Bounds, WidthAssumption DEF Jffs2Loop
  <2> HIDE DEF eof
  <2>4. Jffs2Loop(searched) /\ searched.at > walk.at
    BY <1>1, <2>2 DEF Jffs2Loop, Loop
  <2>5. Jffs2Loop(found) /\ found.at > walk.at
    BY <1>1, <2>2, <2>3 DEF Jffs2Loop, Loop, AtMost, Jffs2Nodes
  <2>6. GoOn(searched) \/ GoOn(found)
    BY <2>1 DEF eof
  <2> HIDE DEF searched, found
  <2> QED
    BY <1>1, <2>4, <2>5, <2>6, Further DEF Jffs2Loop, Loop, Shaped
<1> QED
  BY <1>2, <1>3

LEMMA yaffsKeeps ==
  ASSUME FormatsInv, yaffs PROVE Kept
<1>1. ASSUME NEW page \in yaffs_page_size, NEW spare \in yaffs_spare_size(page)
      PROVE  YaffsLoop([format |-> "yaffs", page |-> page, block |-> page + spare,
                        at |-> 0, last |-> None, budget |-> available \div (page + spare) + 64])
  <2>1. page \in Nat \ {0} /\ spare \in Nat
    BY FlashAssumption DEF yaffs_page_size, yaffs_spare_size
  <2>2. available \in Nat /\ page + spare \in Nat /\ 0 < page + spare
    BY <2>1, Bounds DEF available
  <2>3. PICK budget \in Nat : budget = available \div (page + spare) + 64
    BY <2>2, Quotient
  <2> QED
    BY <2>1, <2>2, <2>3 DEF YaffsLoop, LastLoop, Loop, Lasts
<1> QED
  BY <1>1, Rejecting, Beginning DEF yaffs, Asked, Begin, Shaped

LEMMA yaffs_objectKeeps ==
  ASSUME FormatsInv, yaffs_object PROVE Kept
<1>1. YaffsLoop(walk) /\ walk # Nowhere /\ answer = Unanswered
  BY FormatTells DEF yaffs_object, Walking
<1>2. CASE yaffs_image_done
  BY <1>1, <1>2, Answering, Bounds, WidthAssumption, WrapKeeps
     DEF yaffs_image_done, YaffsLoop, LastLoop, Loop, available, Answer, Answered, Sound
<1>3. CASE Reject("yaffs")
  BY <1>3, Rejecting
<1>4. CASE ~(yaffs_image_done \/ Reject("yaffs"))
  <2>1. IsOffsetSafe(available, walk.at, walk.last) /\ walk.budget # 0
    BY <1>4 DEF yaffs_object
  <2>2. PICK blocks \in {1} \cup {1 + yaffs_file_block_count(n) : n \in U32} :
          /\ CheckedMultiply(blocks, walk.block) # None
          /\ GoOn([walk EXCEPT !.at = @ + CheckedMultiply(blocks, walk.block), !.last = walk.at, !.budget = @ - 1])
    <3> DEFINE Objects(blocks) ==
          LET added == CheckedMultiply(blocks, walk.block)
          IN IF added = None THEN Reject("yaffs")
             ELSE GoOn([walk EXCEPT !.at = @ + added, !.last = walk.at, !.budget = @ - 1])
    <3>1. Objects(1) \/ \E n \in U32 : Objects(1 + yaffs_file_block_count(n))
      BY <1>4, <2>1 DEF yaffs_object
    <3>2. PICK blocks \in {1} \cup {1 + yaffs_file_block_count(n) : n \in U32} : Objects(blocks)
      <4> HIDE DEF Objects
      <4> QED
        BY <3>1
    <3> QED
      BY <1>4, <3>2
  <2>3. blocks \in Nat
    <3>1. ASSUME NEW n \in U32
          PROVE  yaffs_file_block_count(n) \in Nat
      <4>1. n + walk.page - 1 \in Nat /\ walk.page \in Nat /\ 0 < walk.page
        BY <1>1, WidthAssumption DEF YaffsLoop
      <4> QED
        BY <4>1, Quotient DEF yaffs_file_block_count
    <3> QED
      BY <3>1
  <2> DEFINE added == CheckedMultiply(blocks, walk.block)
             w == [walk EXCEPT !.at = @ + added, !.last = walk.at, !.budget = @ - 1]
  <2>4. added \in Nat
    BY <1>1, <2>2, <2>3, ProductFits DEF YaffsLoop
  <2> HIDE DEF added
  <2>5. YaffsLoop(w) /\ (w.at > walk.at \/ w.last >= w.at)
    BY <1>1, <2>1, <2>4 DEF YaffsLoop, LastLoop, Loop, Lasts
  <2>6. GoOn(w)
    BY <2>2 DEF added
  <2> HIDE DEF w
  <2> QED
    BY <1>1, <2>1, <2>5, <2>6, OnwardWithin DEF YaffsLoop, LastLoop, Loop, Shaped
<1> QED
  BY <1>2, <1>3, <1>4

LEMMA ubiKeeps ==
  ASSUME FormatsInv, ubi PROVE Kept
<1>1. UbiLoop([format |-> "ubi", at |-> 0, previous |-> 0, blocks |-> 0, candidates |-> <<>>])
  BY DEF UbiLoop, Loop
<1> QED
  BY <1>1, Rejecting, Beginning DEF ubi, Asked, Begin, Shaped

\* Of some naturals one is the largest.
LEMMA SomeMost ==
  ASSUME NEW n \in Nat \ {0}, NEW c, \A i \in 1 .. n : c[i] \in Nat
  PROVE  \E i \in 1 .. n : \A j \in 1 .. n : c[j] <= c[i]
<1> DEFINE Most(m) == \E i \in 1 .. m : \A j \in 1 .. m : c[j] <= c[i]
           Bad == {m \in 1 .. n : ~Most(m)}
<1>1. Most(1)
  BY 1 \in 1 .. n, \A j \in 1 .. 1 : j = 1
<1>2. ASSUME NEW m \in 1 .. n, m # n, Most(m)
      PROVE  Most(m + 1)
  <2>1. PICK i \in 1 .. m : \A j \in 1 .. m : c[j] <= c[i]
    BY <1>2
  <2>2. \A j \in 1 .. m + 1 : c[j] \in Nat /\ (j = m + 1 \/ j \in 1 .. m)
    BY <1>2
  <2>3. CASE c[m + 1] <= c[i]
    <3>1. \A j \in 1 .. m + 1 : c[j] <= c[i]
      BY <2>1, <2>2, <2>3
    <3> QED
      BY <3>1
  <2>4. CASE ~(c[m + 1] <= c[i])
    <3>1. \A j \in 1 .. m + 1 : c[j] <= c[m + 1]
      BY <2>1, <2>2, <2>4
    <3> QED
      BY <3>1
  <2> QED
    BY <2>3, <2>4
<1> HIDE DEF Most
<1>3. Bad = {}
  <2> SUFFICES ASSUME Bad # {} PROVE FALSE
    OBVIOUS
  <2>1. PICK m \in Bad : \A k \in Bad : m <= k
    BY Bad \subseteq Nat, LeastNatural
  <2>2. m # 1 /\ m \in 1 .. n
    BY <1>1, <2>1
  <2>3. Most(m - 1) /\ m - 1 \in 1 .. n /\ m - 1 # n
    BY <2>1, <2>2
  <2>4. Most((m - 1) + 1)
    BY <1>2, <2>3
  <2> QED
    BY <2>1, <2>2, <2>4
<1> QED
  BY <1>3 DEF Most

\* Some distance is met most often, and of these there is a first one.
LEMMA LebSizeGiven ==
  ASSUME NEW candidates \in Seq([size : Nat, count : Nat]), candidates # <<>>
  PROVE  leb_size(candidates) \in Nat
<1> DEFINE c == [i \in 1 .. Len(candidates) |-> candidates[i].count]
           best == {i \in DOMAIN candidates : \A j \in DOMAIN candidates : candidates[j].count <= candidates[i].count}
<1>1. \A i \in 1 .. Len(candidates) : candidates[i].count \in Nat /\ candidates[i].size \in Nat
  <2>1. \A i \in 1 .. Len(candidates) : candidates[i] \in [size : Nat, count : Nat]
    BY ElementOfSeq
  <2> QED
    BY <2>1
<1>2. Len(candidates) \in Nat \ {0} /\ DOMAIN candidates = 1 .. Len(candidates)
  OBVIOUS
<1>3. \A i \in 1 .. Len(candidates) : c[i] = candidates[i].count
  OBVIOUS
<1> HIDE DEF c
<1>4. PICK i \in 1 .. Len(candidates) : \A j \in 1 .. Len(candidates) : c[j] <= c[i]
  BY <1>1, <1>2, <1>3, SomeMost
<1>5. i \in best
  BY <1>2, <1>3, <1>4
<1>6. best \subseteq 1 .. Len(candidates)
  BY <1>2
<1>7. leb_size(candidates) = candidates[CHOOSE k \in best : \A j \in best : k <= j].size
  BY DEF leb_size
<1> HIDE DEF best
<1>8. \E k \in best : \A j \in best : k <= j
  BY <1>5, <1>6, best \subseteq Nat, LeastNatural
<1>9. (CHOOSE k \in best : \A j \in best : k <= j) \in 1 .. Len(candidates)
  BY <1>6, <1>8
<1> QED
  BY <1>1, <1>7, <1>9

LEMMA UbiCountTyped ==
  ASSUME NEW candidates \in Seq([size : Nat, count : Nat]), NEW distance \in Nat
  PROVE  ubi_count(candidates, distance) \in Seq([size : Nat, count : Nat])
<1>1. \A i \in 1 .. Len(candidates) : candidates[i] \in [size : Nat, count : Nat]
  BY ElementOfSeq
<1>2. \A c \in [size : Nat, count : Nat] : [c EXCEPT !.count = @ + 1] \in [size : Nat, count : Nat]
  OBVIOUS
<1> DEFINE counted == [i \in DOMAIN candidates |->
             IF candidates[i].size = distance THEN [candidates[i] EXCEPT !.count = @ + 1] ELSE candidates[i]]
<1>3. DOMAIN candidates = 1 .. Len(candidates) /\ Len(candidates) \in Nat
  OBVIOUS
<1>4. counted \in Seq([size : Nat, count : Nat])
  <2>1. counted \in [1 .. Len(candidates) -> [size : Nat, count : Nat]]
    BY <1>1, <1>2, <1>3
  <2> HIDE DEF counted
  <2> QED
    BY <1>3, <2>1
<1>5. Append(candidates, [size |-> distance, count |-> 1]) \in Seq([size : Nat, count : Nat])
  BY AppendProperties
<1> QED
  BY <1>4, <1>5 DEF ubi_count

LEMMA ubi_doneKeeps ==
  ASSUME FormatsInv, UbiLoop(walk), ubi_done PROVE Kept
<1>1. CASE walk.candidates = <<>>
  BY <1>1, Rejecting DEF ubi_done
<1>2. CASE walk.candidates # <<>>
  <2> DEFINE total == CheckedMultiply(walk.blocks, leb_size(walk.candidates))
  <2>1. leb_size(walk.candidates) \in Nat
    BY <1>2, LebSizeGiven DEF UbiLoop
  <2>2. total # None => total \in 0 .. W64 - 1
    BY <2>1, ProductFits DEF UbiLoop
  <2>3. Answer("ubi", total # None, total, "high")
    BY <1>2 DEF ubi_done
  <2> HIDE DEF total
  <2> QED
    BY <2>2, <2>3, Answering, Bounds, WrapKeeps DEF Answer, Answered, Sound, Unchecked
<1> QED
  BY <1>1, <1>2

LEMMA ubi_volume_headerKeeps ==
  ASSUME FormatsInv, ubi_volume_header PROVE Kept
<1>1. UbiLoop(walk) /\ walk # Nowhere /\ answer = Unanswered
  BY FormatTells DEF ubi_volume_header, Walking
<1>2. ASSUME NEW at \in Nat, at > walk.at, NEW candidates \in Seq([size : Nat, count : Nat]),
             GoOn([walk EXCEPT !.at = at, !.previous = at, !.blocks = @ + 1, !.candidates = candidates])
      PROVE  Kept
  <2> DEFINE w == [walk EXCEPT !.at = at, !.previous = at, !.blocks = @ + 1, !.candidates = candidates]
  <2>1. UbiLoop(w) /\ w.at > walk.at
    BY <1>1, <1>2 DEF UbiLoop, Loop
  <2>2. GoOn(w)
    BY <1>2
  <2> HIDE DEF w
  <2> QED
    BY <1>1, <2>1, <2>2, Further DEF UbiLoop, Loop, Shaped
<1>3. ASSUME NEW at, NEW gap \in VolumeGaps, at = walk.at + gap,
             IF walk.blocks = VolumeHeaders THEN Reject("ubi")
             ELSE GoOn([walk EXCEPT !.at = at, !.previous = at, !.blocks = @ + 1,
                     !.candidates = IF walk.previous = 0 THEN @ ELSE ubi_count(@, at - walk.previous)])
      PROVE  Kept
  <2>1. at \in Nat /\ at > walk.at /\ at - walk.previous \in Nat
    BY <1>1, <1>3, FlashAssumption DEF UbiLoop, Loop
  <2>2. walk.candidates \in Seq([size : Nat, count : Nat])
    BY <1>1 DEF UbiLoop
  <2>3. ubi_count(walk.candidates, at - walk.previous) \in Seq([size : Nat, count : Nat])
    BY <2>1, <2>2, UbiCountTyped
  <2>4. CASE walk.blocks = VolumeHeaders
    BY <1>3, <2>4, Rejecting
  <2>5. CASE walk.blocks # VolumeHeaders /\ walk.previous = 0
    <3>1. GoOn([walk EXCEPT !.at = at, !.previous = at, !.blocks = @ + 1, !.candidates = @])
      BY <1>3, <2>5
    <3>2. GoOn([walk EXCEPT !.at = at, !.previous = at, !.blocks = @ + 1, !.candidates = walk.candidates])
      BY <3>1
    <3> QED
      BY <1>2, <2>1, <2>2, <3>2
  <2>6. CASE walk.blocks # VolumeHeaders /\ walk.previous # 0
    <3>1. GoOn([walk EXCEPT !.at = at, !.previous = at, !.blocks = @ + 1,
                 !.candidates = ubi_count(@, at - walk.previous)])
      BY <1>3, <2>6
    <3>2. GoOn([walk EXCEPT !.at = at, !.previous = at, !.blocks = @ + 1,
                 !.candidates = ubi_count(walk.candidates, at - walk.previous)])
      BY <3>1
    <3> QED
      BY <1>2, <2>1, <2>3, <3>2
  <2> QED
    BY <2>4, <2>5, <2>6
<1> QED
  BY <1>1, <1>3, ubi_doneKeeps, Zenon DEF ubi_volume_header

LEMMA ubifsKeeps ==
  ASSUME FormatsInv, ubifs PROVE Kept
<1>1. PICK good \in BOOLEAN, leb \in U32, count \in U32 :
        Answer("ubifs", parse_ubifs_superblock_header(good) /\ CheckedMultiply(count, leb) # None,
               count * leb, "high")
  BY DEF ubifs
<1> DEFINE total == count * leb
           fits == CheckedMultiply(count, leb) # None
<1>2. fits => total \in 0 .. W64 - 1
  <2>1. count \in Nat /\ leb \in Nat
    BY WidthAssumption
  <2> QED
    BY <2>1, ProductFits
<1>3. Answer("ubifs", parse_ubifs_superblock_header(good) /\ fits, total, "high")
  BY <1>1
<1> HIDE DEF total, fits
<1> QED
  BY <1>2, <1>3, Answering, Bounds, WrapKeeps DEF Answer, Answered, Sound, Unchecked

LEMMA qnx_ifsKeeps ==
  ASSUME FormatsInv, qnx_ifs PROVE Kept
BY Answering, Bounds, WidthAssumption, WrapKeeps DEF qnx_ifs, available, Answer, Answered, Sound

LEMMA FlashFilesystemsKeeps ==
  ASSUME FormatsInv, FlashFilesystemsNext PROVE Kept
BY squashfsKeeps, jffs2Keeps, jffs2_nodeKeeps, yaffsKeeps, yaffs_objectKeeps, ubiKeeps, ubi_volume_headerKeeps,
   ubifsKeeps, qnx_ifsKeeps DEF FlashFilesystemsNext

-----------------------------------------------------------------------------
(* Kernels and executables                                                 *)

LEMMA elfKeeps ==
  ASSUME FormatsInv, elf PROVE Kept
BY Answering, Bounds, WidthAssumption, WrapKeeps DEF elf, ElfHeader, Contains, Answered, Sound

LEMMA uimageKeeps ==
  ASSUME FormatsInv, uimage PROVE Kept
BY Answering, Bounds, WidthAssumption, WrapKeeps DEF uimage, extract_uimage, UimageHeader, Answered, Sound

\* A string lies in the data.
LEMMA StringsInside ==
  ASSUME FormatsInv, NEW from \in Nat, NEW most \in Nat, NEW n \in Strings(from, most)
  PROVE  n \in Nat /\ (n > 0 => from + n <= size)
BY Bounds DEF Strings, Contains

LEMMA linux_kernelKeeps ==
  ASSUME FormatsInv, linux_kernel PROVE Kept
<1>1. PICK good \in BOOLEAN, symbols \in BOOLEAN, n \in Strings(offset, size) :
        LET fits == /\ size > LinuxMinimum /\ offset < size /\ Contains(offset, LinuxVersion + 1)
                    /\ n > LinuxVersion /\ good
        IN IF symbols THEN Answered("linux_kernel", fits, 0, size, "low", IF fits THEN offset + n ELSE 0)
           ELSE Answered("linux_kernel", fits, offset, n, "low", IF fits THEN offset + n ELSE 0)
  BY DEF linux_kernel
<1>2. n \in Nat /\ (n > LinuxVersion => offset + n <= size)
  BY StringsInside, Bounds DEF LinuxVersion
<1> QED
  BY <1>1, <1>2, Answering, Bounds, WidthAssumption, WrapKeeps DEF Answered, Sound

LEMMA bootImagesKeep ==
  ASSUME FormatsInv, linux_boot_image \/ linux_arm_zimage \/ linux_arm64_boot_image PROVE Kept
BY Answering, Bounds, WidthAssumption, WrapKeeps
   DEF linux_boot_image, linux_arm_zimage, linux_arm64_boot_image, ZimageBack, Arm64Back, Arm64Header, Contains,
       Answer, Answered, Sound

LEMMA wind_kernelKeeps ==
  ASSUME FormatsInv, wind_kernel PROVE Kept
<1>1. PICK n \in Strings(offset + WindMagic, size) :
        Answer("wind_kernel", offset + WindMagic < size /\ n > 0, WindMagic + n, "low")
  BY DEF wind_kernel
<1>2. n \in Nat /\ (n > 0 => offset + WindMagic + n <= size)
  BY StringsInside, Bounds DEF WindMagic
<1> QED
  BY <1>1, <1>2, Answering, Bounds, WidthAssumption, WrapKeeps DEF WindMagic, Answer, Answered, Sound

LEMMA ecosKeeps ==
  ASSUME FormatsInv, ecos PROVE Kept
BY Answering, Bounds, WidthAssumption, WrapKeeps DEF ecos, Asked, Contains, Answered, Sound

LEMMA vxworks_symtabKeeps ==
  ASSUME FormatsInv, vxworks_symtab PROVE Kept
<1>1. ASSUME offset >= SymtabBack, Contains(offset - SymtabBack, 10)
      PROVE  VxworksLoop([format |-> "vxworks_symtab", from |-> offset - SymtabBack,
                          at |-> offset - SymtabBack, last |-> None, entries |-> 0])
  BY <1>1, Bounds DEF SymtabBack, Contains, VxworksLoop, LastLoop, Loop, Lasts
<1> QED
  BY <1>1, Bounds, Rejecting, Beginning DEF vxworks_symtab, SymtabBack, Asked, Begin, Shaped

LEMMA vxworks_symtab_entryKeeps ==
  ASSUME FormatsInv, vxworks_symtab_entry PROVE Kept
<1>1. VxworksLoop(walk) /\ walk # Nowhere /\ answer = Unanswered
  BY FormatTells DEF vxworks_symtab_entry, Walking
<1>2. CASE extract_vxworks_symtab
  BY <1>1, <1>2, Answering, Bounds, WidthAssumption, WrapKeeps
     DEF extract_vxworks_symtab, VxworksLoop, LastLoop, Loop, Answered, Sound
<1>3. ASSUME Safe, Contains(walk.at, SymtabEntry),
             GoOn([walk EXCEPT !.at = @ + SymtabEntry, !.last = walk.at, !.entries = AtMost(@ + 1, SymtabMinimum)])
      PROVE  Kept
  <2> DEFINE w == [walk EXCEPT !.at = @ + SymtabEntry, !.last = walk.at, !.entries = AtMost(@ + 1, SymtabMinimum)]
  <2>1. VxworksLoop(w) /\ w.at > walk.at
    BY <1>1, <1>3, Bounds, ExecutablesAssumption
       DEF SymtabEntry, Contains, AtMost, VxworksLoop, LastLoop, Loop, Lasts
  <2>2. GoOn(w)
    BY <1>3
  <2> HIDE DEF w
  <2> QED
    BY <1>1, <1>3, <2>1, <2>2, Onward DEF VxworksLoop, LastLoop, Loop, Shaped
<1> QED
  BY <1>2, <1>3 DEF vxworks_symtab_entry

LEMMA pchromKeeps ==
  ASSUME FormatsInv, pchrom PROVE Kept
BY Answering, Bounds, WidthAssumption, WrapKeeps DEF pchrom, PchromBack, Page, Answered, Sound, Unchecked

LEMMA uefiKeep ==
  ASSUME FormatsInv, uefi_pi_volume \/ uefi_capsule PROVE Kept
BY Answering, Bounds, WidthAssumption, WrapKeeps
   DEF uefi_pi_volume, uefi_capsule, VolumeBack, available, Answer, Answered, Sound

LEMMA peKeeps ==
  ASSUME FormatsInv, pe PROVE Kept
BY Answering, Bounds, WidthAssumption, WrapKeeps DEF pe, Answer, Answered, Sound

LEMMA copyrightKeeps ==
  ASSUME FormatsInv, copyright PROVE Kept
<1>1. PICK n \in Strings(offset, size) : Answer("copyright", n > CopyrightMagic, n, "high")
  BY DEF copyright
<1>2. n \in Nat /\ (n > CopyrightMagic => offset + n <= size)
  BY StringsInside, Bounds DEF CopyrightMagic
<1> QED
  BY <1>1, <1>2, Answering, Bounds, WidthAssumption, WrapKeeps DEF Answer, Answered, Sound

LEMMA dmgKeeps ==
  ASSUME FormatsInv, dmg PROVE Kept
<1>1. ASSUME NEW good \in BOOLEAN, NEW data_length \in U64, NEW xml_length \in U64,
             NEW xml \in {None} \cup Positions(0) \cup Positions(offset + DmgFooter), NEW confidence,
             Answered("dmg",
               /\ Contains(offset, DmgFooter) /\ good
               /\ data_length <= offset /\ xml_length <= offset - data_length
               /\ xml # None /\ Contains(xml, DmgXml) /\ xml >= data_length
               /\ xml - data_length < offset + DmgFooter,
               xml - data_length, offset + DmgFooter - (xml - data_length), confidence, 0)
      PROVE  Kept
  <2> DEFINE found ==
               /\ Contains(offset, DmgFooter) /\ good
               /\ data_length <= offset /\ xml_length <= offset - data_length
               /\ xml # None /\ Contains(xml, DmgXml) /\ xml >= data_length
               /\ xml - data_length < offset + DmgFooter
             from == xml - data_length
             total == offset + DmgFooter - from
  <2>1. Answered("dmg", found, from, total, confidence, 0)
    BY <1>1
  <2>2. found => from \in Nat /\ total \in 0 .. W64 - 1 /\ from + total <= size
    <3>1. xml # None => xml \in Nat
      BY PositionsAhead, Bounds DEF DmgFooter
    <3>2. data_length \in Nat
      BY WidthAssumption
    <3> QED
      BY <3>1, <3>2, Bounds, WidthAssumption DEF DmgFooter, Contains
  <2> HIDE DEF found, from, total
  <2> QED
    BY <2>1, <2>2, Answering, Bounds, WrapKeeps DEF Answered, Sound
<1> QED
  BY <1>1, Zenon DEF dmg

LEMMA pjlKeeps ==
  ASSUME FormatsInv, pjl PROVE Kept
<1>1. PICK n \in Strings(offset + PjlCommands, size) : Answer("pjl", n > 0, n, "low")
  BY DEF pjl
<1>2. n \in Nat /\ (n > 0 => offset + PjlCommands + n <= size)
  BY StringsInside, Bounds DEF PjlCommands
<1> QED
  BY <1>1, <1>2, Answering, Bounds, WidthAssumption, WrapKeeps DEF PjlCommands, Answer, Answered, Sound

LEMMA qcowKeeps ==
  ASSUME FormatsInv, qcow PROVE Kept
<1>1. ASSUME NEW found, Answer("qcow", found, 0, "medium")
      PROVE  Kept
  BY <1>1, Answering, Bounds, WidthAssumption, WrapKeeps DEF Answer, Answered, Sound
<1> QED
  BY <1>1, Zenon DEF qcow

LEMMA ExecutablesKeeps ==
  ASSUME FormatsInv, ExecutablesNext PROVE Kept
BY elfKeeps, uimageKeeps, linux_kernelKeeps, bootImagesKeep, wind_kernelKeeps, ecosKeeps, vxworks_symtabKeeps,
   vxworks_symtab_entryKeeps, pchromKeeps, uefiKeep, peKeeps, copyrightKeeps, dmgKeeps, pjlKeeps, qcowKeeps
   DEF ExecutablesNext
-----------------------------------------------------------------------------
(* What the steps keep holds of every behaviour.                           *)

\* Where a loop can be is the same before and after a step that leaves the data.
LEMMA ShapedStays ==
  ASSUME UNCHANGED <<size, offset>>, Shaped(walk') PROVE Shaped(walk)'
BY DEF Shaped, Nowhere, Loop, LastLoop, XzLoop, ZstdLoop, Lz4Loop, LzopLoop, LzfseLoop, JpegLoop, PngLoop,
       GifLoop, PcapngLoop, SvgLoop, DpapiLoop, TarballLoop, CpioLoop, ZipLoop, MatterLoop, WinceLoop,
       CsmanLoop, RomfsLoop, SparseLoop, DtbLoop, EfigptLoop, Jffs2Loop, YaffsLoop, UbiLoop, VxworksLoop, Lasts

LEMMA KeptIsInv ==
  ASSUME FormatsInv, Kept PROVE FormatsInv'
<1>1. UNCHANGED <<size, offset>> /\ (answer' # Unanswered => Sound(answer')) /\ Shaped(walk')
      /\ (walk' = Nowhere \/ answer' = Unanswered)
  BY DEF Kept
<1>2. Shaped(walk)'
  BY <1>1, ShapedStays
<1>3. (answer # Unanswered => Sound(answer))'
  BY <1>1 DEF Sound, Unanswered
<1>4. (size \in DataSizes /\ offset \in Nat /\ offset <= size)'
  BY <1>1 DEF FormatsInv
<1> QED
  BY <1>1, <1>2, <1>3, <1>4 DEF FormatsInv, Nowhere, Unanswered

LEMMA ParseKeeps ==
  ASSUME FormatsInv, Parse PROVE Kept
BY CompressionKeeps, MediaKeeps, ConstantsKeeps, EncryptedKeeps, VendorHeadersKeeps, ArchivesKeeps,
   VendorCarveKeeps, FilesystemsKeeps, FlashFilesystemsKeeps, ExecutablesKeeps DEF Parse

LEMMA ReturnKeeps ==
  ASSUME FormatsInv, Return PROVE Kept
BY DEF FormatsInv, Return, Kept

\* At first no parser runs and nothing is answered.
LEMMA FormatsInit ==
  ASSUME ParsingInit PROVE FormatsInv
BY WidthAssumption DEF ParsingInit, FormatsInv, Shaped

LEMMA FormatsStep ==
  ASSUME FormatsInv, [FormatsNext]_parsing PROVE FormatsInv'
<1>1. CASE FormatsNext
  BY <1>1, ParseKeeps, ReturnKeeps, KeptIsInv DEF FormatsNext
<1>2. CASE UNCHANGED parsing
  <2>1. UNCHANGED <<size, offset, walk, answer>>
    BY <1>2 DEF parsing
  <2>2. Shaped(walk')
    BY <2>1, Zenon DEF FormatsInv
  <2>3. Shaped(walk)'
    BY <2>1, <2>2, ShapedStays
  <2> QED
    BY <2>1, <2>3 DEF FormatsInv, Sound, Nowhere, Unanswered
<1> QED
  BY <1>1, <1>2

\* The walks of all parsers stay where their formats let them be: every loop at
\* a natural offset, with the bounds its next read relies on.
THEOREM ParsersStayInShape == FormatsSpec => []FormatsInv
<1>1. ParsingInit => FormatsInv
  BY FormatsInit
<1>2. FormatsInv /\ [FormatsNext]_parsing => FormatsInv'
  BY FormatsStep
<1> QED
  BY <1>1, <1>2, PTL DEF FormatsSpec

\* No parser and no built-in extractor claims bytes beyond the end of the data,
\* but for the formats whose results the scanner checks.
THEOREM ParsersClaimWhatIsThere == FormatsSpec => []ClaimsAreInside
<1>1. FormatsInv => ClaimsAreInside
  BY DEF FormatsInv, Sound, ClaimsAreInside
<1> QED
  BY <1>1, ParsersStayInShape, PTL

\* Nothing is read beyond the end of the data.
THEOREM ParsersReadWhatIsThere == FormatsSpec => []ReadsAreInside
<1>1. FormatsInv => ReadsAreInside
  BY DEF FormatsInv, Sound, ReadsAreInside
<1> QED
  BY <1>1, ParsersStayInShape, PTL

\* No size a parser answers with has wrapped around.
THEOREM ParsersClaimExactly == FormatsSpec => []ClaimsAreExact
<1>1. FormatsInv => ClaimsAreExact
  BY DEF FormatsInv, Sound, ClaimsAreExact
<1> QED
  BY <1>1, ParsersStayInShape, PTL

\* Whatever the entries of a file point at, the loop over them goes forward, or
\* back once and no further, or uses up the depth or the budget of a RomFS.
THEOREM ParsersAdvance == FormatsSpec => WalksAdvance
<1> DEFINE Advance == (walk # Nowhere /\ walk' # Nowhere) =>
                        \/ ~Stuck(walk) /\ (Position(walk') > Position(walk) \/ Stuck(walk'))
                        \/ walk.format = "romfs"
                             /\ (walk'.budget < walk.budget \/ Len(walk'.above) < Len(walk.above))
<1>1. FormatsInv /\ [FormatsNext]_parsing => [Advance]_parsing
  <2>1. ASSUME FormatsInv, FormatsNext PROVE Advance
    <3>1. Kept
      BY <2>1, ParseKeeps, ReturnKeeps DEF FormatsNext
    <3> QED
      BY <3>1, Zenon DEF Kept, Advances
  <2> QED
    BY <2>1
<1>2. FormatsSpec => [][Advance]_parsing
  BY <1>1, ParsersStayInShape, PTL DEF FormatsSpec
<1> QED
  BY <1>2 DEF WalksAdvance

-----------------------------------------------------------------------------
(* The strings: cstring_length, which the parsers' get_cstring asks, and its *)
(* memo, for a memory of any size and scopes nested to any depth.            *)

\* What was read under a scope, against the run it left: as long as the views
\* ascended, every byte read lies before the end of the run.
ReadOnce(r, s) ==
  s.ascending =>
    /\ ~s.twice
    /\ r.begin = Null => s.bytes = {}
    /\ r.begin # Null => r.begin <= s.last /\ \A a \in s.bytes : a < r.end

MemoInv ==
  /\ TypeOK
  /\ MemoIsSound
  /\ ReadOnce(run, seen)
  /\ \A k \in DOMAIN frames : ReadOnce(frames[k].run, frames[k].seen)

\* There is a first NUL or none, and FirstNul finds which.
LEMMA FirstNulFinds ==
  ASSUME TypeOK, NEW from \in Limits, NEW limit \in Limits, from <= limit
  PROVE  LET t == FirstNul(from, limit)
         IN /\ t \in from .. limit
            /\ \A a \in from .. t - 1 : memory[a] # 0
            /\ t < limit => memory[t] = 0
<1> DEFINE Nuls == {a \in from .. limit : a = limit \/ memory[a] = 0}
<1> USE BoundsAssumption DEF BoundsAssumption, Limits
<1>1. Nuls \subseteq Nat /\ limit \in Nuls
  OBVIOUS
<1>2. PICK t \in Nuls : \A a \in Nuls : t <= a
  <2> HIDE DEF Nuls
  <2> QED BY <1>1, LeastNatural
<1>3. /\ t \in from .. limit
      /\ \A a \in from .. t - 1 : memory[a] # 0
      /\ t < limit => memory[t] = 0
  BY <1>2
<1> QED BY <1>3 DEF FirstNul

\* The initial states satisfy the invariant.
LEMMA InitMemoInv == Init => MemoInv
<1> USE DEF Init, NoRun, NothingSeen, NoAnswer, Null
<1>1. Init => TypeOK
  BY DEF TypeOK, Runs, Histories
<1>2. Init => MemoIsSound
  BY DEF MemoIsSound, Verified
<1> QED BY <1>1, <1>2 DEF MemoInv, ReadOnce

\* What a frame holds is typed; closing a scope leaves the others as they are.
LEMMA FramesTyped ==
  ASSUME TypeOK, NEW k \in DOMAIN frames
  PROVE  frames[k].run \in Runs /\ frames[k].seen \in Histories
<1> DEFINE Frames == [run : Runs, seen : Histories]
<1>1. frames \in Seq(Frames)
  BY DEF TypeOK
<1>2. frames[k] \in Frames
  <2> HIDE DEF Frames
  <2> QED BY <1>1
<1> QED BY <1>2

LEMMA BelowIsPrefix ==
  ASSUME TypeOK, frames # << >>
  PROVE  /\ Len(frames) \in DOMAIN frames
         /\ Below \in Seq([run : Runs, seen : Histories])
         /\ \A k \in DOMAIN Below : k \in DOMAIN frames /\ Below[k] = frames[k]
<1> DEFINE Frames == [run : Runs, seen : Histories]
<1>1. frames \in Seq(Frames)
  BY DEF TypeOK
<1> HIDE DEF Frames
<1>2. Len(frames) \in Nat \ {0} /\ Len(frames) \in DOMAIN frames
  BY <1>1
<1> DEFINE m == Len(frames) - 1
<1>3. m \in Nat /\ \A k \in 1 .. m : frames[k] \in Frames
  BY <1>1, <1>2
<1>4. /\ Below \in Seq(Frames)
      /\ Len(Below) = IF 1 <= m THEN m - 1 + 1 ELSE 0
      /\ \A k \in 1 .. m - 1 + 1 : Below[k] = frames[1 + k - 1]
  <2>1. m \in Int /\ 1 \in Int /\ Below = SubSeq(frames, 1, m)
    BY <1>3 DEF Below
  <2> HIDE DEF m
  <2> QED BY <1>3, <2>1, SubSeqProperties
<1>5. DOMAIN Below = 1 .. m /\ DOMAIN frames = 1 .. Len(frames)
  BY <1>1, <1>2, <1>3, <1>4
<1>6. \A k \in 1 .. m : k \in 1 .. Len(frames) /\ Below[k] = frames[k]
  BY <1>2, <1>3, <1>4
<1>7. Below \in Seq([run : Runs, seen : Histories])
  BY <1>4 DEF Frames
<1> HIDE DEF m
<1> QED BY <1>2, <1>5, <1>6, <1>7

\* Opening a scope: the new run claims nothing, the old one waits in a frame.
LEMMA EnterKeeps ==
  ASSUME MemoInv, NEW view \in Views, Enter(view)
  PROVE  MemoInv'
<1> DEFINE F == [run |-> run, seen |-> seen]
<1> USE DEF Null
<1>1. view[1] \in Limits /\ view[2] \in Limits
  BY DEF Views
<1>2. run' = [NoRun EXCEPT !.low = view[1], !.high = view[2]] /\ run' \in Runs
  BY <1>1 DEF Enter, NoRun, Runs
<1>3. F \in [run : Runs, seen : Histories] /\ frames' = Append(frames, F)
  BY DEF MemoInv, TypeOK, Enter
<1>4. frames \in Seq([run : Runs, seen : Histories])
  BY DEF MemoInv, TypeOK
<1>5. \A k \in DOMAIN frames' :
        (k \in DOMAIN frames /\ frames'[k] = frames[k]) \/ frames'[k] = F
  BY <1>3, <1>4
<1>6. TypeOK'
  <2>1. frames' \in Seq([run : Runs, seen : Histories])
    BY <1>3, <1>4
  <2>2. seen' \in Histories
    BY DEF Enter, NothingSeen, Histories, Limits
  <2> QED BY <1>2, <2>1, <2>2 DEF TypeOK, MemoInv, Enter
<1>7. MemoIsSound'
  <2>1. Verified(run)'
    BY <1>1, <1>2, BoundsAssumption DEF BoundsAssumption, Verified, NoRun, Limits
  <2>2. \A k \in DOMAIN frames' : Verified(frames'[k].run)
    BY <1>5 DEF MemoInv, MemoIsSound
  <2>3. memory' = memory
    BY DEF Enter
  <2> QED BY <2>1, <2>2, <2>3 DEF MemoIsSound, Verified
<1>8. ReadOnce(run, seen)'
  BY <1>2 DEF ReadOnce, NoRun, NothingSeen, Enter
<1>9. (\A k \in DOMAIN frames : ReadOnce(frames[k].run, frames[k].seen))'
  BY <1>5 DEF MemoInv, ReadOnce
<1> QED BY <1>6, <1>7, <1>8, <1>9 DEF MemoInv

\* Closing a scope: the run restored was true when it was put aside, and what
\* it refers to has been pinned since.
LEMMA LeaveKeeps ==
  ASSUME MemoInv, Leave
  PROVE  MemoInv'
<1> DEFINE n == Len(frames)
<1>1. TypeOK /\ frames # << >> /\ frames' = Below
  BY DEF MemoInv, Leave
<1>2. n \in DOMAIN frames
  BY <1>1, BelowIsPrefix
<1>3. frames' \in Seq([run : Runs, seen : Histories])
  BY <1>1, BelowIsPrefix
<1>4. \A k \in DOMAIN frames' : k \in DOMAIN frames /\ frames'[k] = frames[k]
  BY <1>1, BelowIsPrefix
<1>5. run' = frames[n].run /\ seen' = frames[n].seen /\ memory' = memory
  BY DEF Leave, Top
<1>6. run' \in Runs /\ seen' \in Histories
  BY <1>1, <1>2, <1>5, FramesTyped
<1>7. TypeOK'
  BY <1>3, <1>6 DEF TypeOK, MemoInv, Leave
<1>8. MemoIsSound'
  <2>1. Verified(run')
    BY <1>2, <1>5 DEF MemoInv, MemoIsSound
  <2>2. \A k \in DOMAIN frames' : Verified(frames'[k].run)
    BY <1>4 DEF MemoInv, MemoIsSound
  <2> QED BY <1>5, <2>1, <2>2 DEF MemoIsSound, Verified
<1>9. ReadOnce(run, seen)' /\ (\A k \in DOMAIN frames : ReadOnce(frames[k].run, frames[k].seen))'
  BY <1>2, <1>4, <1>5 DEF MemoInv, ReadOnce
<1> QED BY <1>7, <1>8, <1>9 DEF MemoInv

\* A byte nobody pinned is one no run claims anything of.
LEMMA RewriteKeeps ==
  ASSUME MemoInv, NEW a \in Addresses, Rewrite(a)
  PROVE  MemoInv'
<1> USE DEF Null
<1>1. memory' = [memory EXCEPT ![a] = 1 - @] /\ memory' \in [Addresses -> {0, 1}]
  BY DEF Rewrite, MemoInv, TypeOK
<1>2. UNCHANGED <<run, seen, frames, lastCall>> /\ ~Pinned(a)
  BY DEF Rewrite
<1>3. TypeOK'
  BY <1>1, <1>2 DEF TypeOK, MemoInv
<1>4. ASSUME NEW r \in Runs, Verified(r), ~PinnedBy(r, a)
      PROVE  Verified(r)'
  <2>1. CASE r.begin = Null
    BY <1>4, <2>1 DEF Verified
  <2>2. CASE r.begin # Null
    <3>1. /\ r.low # Null /\ r.low <= r.begin /\ r.begin <= r.end /\ r.end <= r.high
          /\ \A b \in r.begin .. r.end - 1 : memory[b] # 0
          /\ r.terminator # Null =>
               r.terminator = r.end /\ r.end < r.high /\ memory[r.end] = 0
      BY <1>4, <2>2 DEF Verified
    <3>2. {r.low, r.high, r.begin, r.end} \subseteq Int /\ a \in Int
      BY BoundsAssumption DEF BoundsAssumption, Runs, Limits, Addresses
    <3>3. ~(r.low <= a /\ a < r.high)
      BY <1>4, <3>1 DEF PinnedBy
    <3>4. \A b \in r.begin .. r.end - 1 : b # a
      BY <3>1, <3>2, <3>3
    <3>5. r.end < r.high => r.end # a
      BY <3>1, <3>2, <3>3
    <3>6. memory \in [Addresses -> {0, 1}]
      BY DEF MemoInv, TypeOK
    <3>7. \A b : b # a => memory'[b] = memory[b]
      BY <1>1, <3>6
    <3>8. \A b \in r.begin .. r.end - 1 : memory'[b] # 0
      BY <3>1, <3>4, <3>7
    <3> QED BY <2>2, <3>1, <3>5, <3>7, <3>8 DEF Verified
  <2> QED BY <2>1, <2>2
<1>5. MemoIsSound'
  <2>1. TypeOK /\ run \in Runs
    BY DEF MemoInv, TypeOK
  <2>2. \A k \in DOMAIN frames : frames[k].run \in Runs
    BY <2>1, FramesTyped
  <2>3. ~PinnedBy(run, a) /\ \A k \in DOMAIN frames : ~PinnedBy(frames[k].run, a)
    BY <1>2 DEF Pinned
  <2>4. Verified(run)'
    <3>1. Verified(run)
      BY DEF MemoInv, MemoIsSound
    <3>2. run' = run
      BY <1>2
    <3> QED BY <1>4, <2>1, <2>3, <3>1, <3>2 DEF Verified
  <2>5. ASSUME NEW k \in DOMAIN frames PROVE Verified(frames[k].run)'
    <3> DEFINE r == frames[k].run
    <3>1. Verified(r) /\ r' = r
      BY <1>2 DEF MemoInv, MemoIsSound
    <3>2. r \in Runs /\ ~PinnedBy(r, a)
      BY <2>2, <2>3
    <3> QED BY <1>4, <3>1, <3>2 DEF Verified
  <2> QED BY <1>2, <2>4, <2>5 DEF MemoIsSound
<1> QED BY <1>2, <1>3, <1>5 DEF MemoInv, ReadOnce

\* What all the calls of cstring_length share: the views, typed, and the frames
\* and the memory left alone.
LEMMA CallTyped ==
  ASSUME MemoInv, NEW v \in Views, CstringLength(v[1], v[2])
  PROVE  /\ v[1] \in Limits /\ v[2] \in Limits /\ v[1] < v[2]
         /\ memory' = memory /\ frames' = frames
         /\ run \in Runs /\ seen \in Histories /\ Verified(run) /\ ReadOnce(run, seen)
<1>1. v[1] \in Limits /\ v[2] \in Limits
  BY DEF Views
<1> QED BY <1>1 DEF CstringLength, ReadOutside, AnswerFromRun, ExtendRun, StartRun,
                    MemoInv, TypeOK, MemoIsSound

\* Every call answers what a scan of the view would.
LEMMA CallAnswers ==
  ASSUME MemoInv, NEW v \in Views, CstringLength(v[1], v[2])
  PROVE  \E n : /\ IsLength(v[1], v[2], n)
                /\ lastCall' = [begin |-> v[1], limit |-> v[2], length |-> n]
<1> DEFINE begin == v[1]
           limit == v[2]
<1> USE BoundsAssumption DEF BoundsAssumption, Null, Limits, Runs, Addresses
<1>1. begin \in Limits /\ limit \in Limits /\ begin < limit /\ run \in Runs /\ TypeOK
  BY CallTyped DEF MemoInv
<1>2. Verified(run)
  BY CallTyped
<1>3. CASE ReadOutside(begin, limit) \/ StartRun(begin, limit)
  <2>1. LET t == FirstNul(begin, limit)
        IN /\ t \in begin .. limit
           /\ \A a \in begin .. t - 1 : memory[a] # 0
           /\ t < limit => memory[t] = 0
    BY <1>1, FirstNulFinds
  <2>2. IsLength(begin, limit, FirstNul(begin, limit) - begin)
    <3> HIDE DEF begin, limit
    <3> QED BY <1>1, <2>1 DEF IsLength
  <2> QED BY <1>3, <2>2 DEF ReadOutside, StartRun, Answers
<1>4. CASE AnswerFromRun(begin, limit)
  <2>1. /\ run.begin <= begin /\ begin < run.end
        /\ limit <= run.end \/ run.terminator # Null
        /\ run.terminator # Null => run.terminator = run.end /\ memory[run.end] = 0
        /\ \A a \in run.begin .. run.end - 1 : memory[a] # 0
    BY <1>1, <1>2, <1>4 DEF AnswerFromRun, StartsInsideVerifiedRun, Verified
  <2> DEFINE n == IF limit <= run.end THEN limit - begin ELSE run.terminator - begin
  <2>2. IsLength(begin, limit, n)
    <3>1. {run.begin, run.end} \subseteq Int
      BY <1>1
    <3> HIDE DEF begin, limit
    <3> QED BY <1>1, <2>1, <3>1 DEF IsLength
  <2> QED BY <1>4, <2>2 DEF AnswerFromRun, Answers
<1>5. CASE ExtendRun(begin, limit)
  <2>1. /\ run.begin <= begin /\ begin < run.end /\ run.end < limit
        /\ run.end \in Limits
        /\ \A a \in run.begin .. run.end - 1 : memory[a] # 0
    BY <1>1, <1>2, <1>5 DEF ExtendRun, StartsInsideVerifiedRun, Verified
  <2>2. LET t == FirstNul(run.end, limit)
        IN /\ t \in run.end .. limit
           /\ \A a \in run.end .. t - 1 : memory[a] # 0
           /\ t < limit => memory[t] = 0
    <3>1. run.end \in Limits /\ limit \in Limits /\ run.end <= limit
      BY <1>1, <2>1
    <3> HIDE DEF begin, limit
    <3> QED BY <1>1, <3>1, FirstNulFinds
  <2>3. IsLength(begin, limit, FirstNul(run.end, limit) - begin)
    <3>1. run.begin \in Int /\ run.end \in Int
      BY <1>1
    <3> HIDE DEF begin, limit
    <3> QED BY <1>1, <2>1, <2>2, <3>1 DEF IsLength
  <2> QED BY <1>5, <2>3 DEF ExtendRun, Answers
<1> QED BY <1>3, <1>4, <1>5 DEF CstringLength

\* What a call that reads leaves: the run up to the NUL or the limit of the
\* view, true of the memory, begun at or before the view.
LEMMA CallRun ==
  ASSUME MemoInv, NEW v \in Views, CstringLength(v[1], v[2])
  PROVE  /\ run' \in Runs /\ Verified(run')
         /\ run' # run => run'.begin # Null /\ run'.begin <= v[1]
<1> DEFINE begin == v[1]
           limit == v[2]
<1> USE BoundsAssumption DEF BoundsAssumption, Null, Limits, Addresses
<1>1. /\ begin \in Limits /\ limit \in Limits /\ begin < limit
      /\ run \in Runs /\ Verified(run) /\ TypeOK
  BY CallTyped DEF MemoInv
<1>2. CASE ReadOutside(begin, limit) \/ AnswerFromRun(begin, limit)
  BY <1>1, <1>2 DEF ReadOutside, AnswerFromRun
<1>3. CASE ExtendRun(begin, limit)
  <2> DEFINE t == FirstNul(run.end, limit)
  <2>1. /\ run.begin <= begin /\ begin < run.end /\ run.end < limit
        /\ run.low # Null /\ limit <= run.high /\ run.end \in Limits /\ run.begin \in Limits
    BY <1>1, <1>3 DEF ExtendRun, Covers, StartsInsideVerifiedRun, Runs, Verified
  <2>2. /\ t \in run.end .. limit
        /\ \A a \in run.end .. t - 1 : memory[a] # 0
        /\ t < limit => memory[t] = 0
    BY SMTT(60), <1>1, <2>1, FirstNulFinds
  <2>3. run' = [run EXCEPT !.end = t, !.terminator = IF t < limit THEN t ELSE Null]
    BY <1>3 DEF ExtendRun
  <2> HIDE DEF t
  <2>4. /\ run'.low = run.low /\ run'.high = run.high /\ run'.begin = run.begin
        /\ run'.end = t /\ run'.terminator = IF t < limit THEN t ELSE Null
        /\ run' \in Runs
    <3> DEFINE f == IF t < limit THEN t ELSE Null
    <3>1. f \in Addresses \cup {Null} /\ t \in Limits
      BY <1>1, <2>1, <2>2
    <3>2. run' = [run EXCEPT !.end = t, !.terminator = f]
      BY <2>3
    <3> HIDE DEF f, begin, limit, Limits, Addresses, Null
    <3>3. run' \in Runs /\ run'.terminator = f /\ run'.end = t
          /\ run'.low = run.low /\ run'.high = run.high /\ run'.begin = run.begin
      BY <1>1, <3>1, <3>2 DEF Runs
    <3> QED BY <3>3 DEF f
  <2>5. /\ run.low <= run.begin /\ \A a \in run.begin .. run.end - 1 : memory[a] # 0
        /\ run.high \in Int
    BY <1>1, <2>1 DEF Verified, Runs
  <2>6. \A a \in run.begin .. t - 1 : memory[a] # 0
    BY <2>1, <2>2, <2>5
  <2> HIDE DEF begin, limit
  <2>7. Verified(run')
    BY <1>1, <2>1, <2>2, <2>4, <2>5, <2>6 DEF Verified
  <2> QED BY <2>1, <2>4, <2>7 DEF begin
<1>4. CASE StartRun(begin, limit)
  <2> DEFINE t == FirstNul(begin, limit)
  <2>1. /\ run.low # Null /\ run.low <= begin /\ limit <= run.high
        /\ run.low \in Int /\ run.high \in Int
    BY <1>1, <1>4 DEF StartRun, Covers, Runs
  <2>2. /\ t \in begin .. limit
        /\ \A a \in begin .. t - 1 : memory[a] # 0
        /\ t < limit => memory[t] = 0
    BY <1>1, FirstNulFinds
  <2>3. run' = [run EXCEPT !.begin = begin, !.end = t,
                           !.terminator = IF t < limit THEN t ELSE Null]
    BY <1>4 DEF StartRun
  <2> HIDE DEF t, begin, limit
  <2>4. /\ run'.low = run.low /\ run'.high = run.high /\ run'.begin = begin
        /\ run'.end = t /\ run'.terminator = IF t < limit THEN t ELSE Null
        /\ run' \in Runs
    <3> DEFINE f == IF t < limit THEN t ELSE Null
    <3>1. f \in Addresses \cup {Null} /\ t \in Limits /\ begin \in Limits
      BY <1>1, <2>2
    <3>2. run' = [run EXCEPT !.begin = begin, !.end = t, !.terminator = f]
      BY <2>3
    <3> HIDE DEF f, Limits, Addresses, Null
    <3>3. run' \in Runs /\ run'.terminator = f /\ run'.end = t
          /\ run'.low = run.low /\ run'.high = run.high /\ run'.begin = begin
      BY <1>1, <3>1, <3>2 DEF Runs
    <3> QED BY <3>3 DEF f
  <2>5. Verified(run')
    BY <1>1, <2>1, <2>2, <2>4 DEF Verified
  <2> QED BY <1>1, <2>4, <2>5 DEF begin
<1> QED BY <1>2, <1>3, <1>4 DEF CstringLength

\* What a call reads lies past all that was read before, as long as the views
\* ascend.
LEMMA CallReadsOnce ==
  ASSUME MemoInv, NEW v \in Views, CstringLength(v[1], v[2])
  PROVE  seen' \in Histories /\ ReadOnce(run', seen')
<1> DEFINE begin == v[1]
           limit == v[2]
<1> USE BoundsAssumption DEF BoundsAssumption, Null, Limits, Addresses
<1>1. /\ begin \in Limits /\ limit \in Limits /\ begin < limit
      /\ run \in Runs /\ seen \in Histories /\ TypeOK
      /\ Verified(run) /\ ReadOnce(run, seen)
  BY CallTyped DEF MemoInv
<1>2. \A from, upto \in Limits : Saw(begin, from, upto) => seen' \in Histories
  <2> SUFFICES ASSUME NEW from \in Limits, NEW upto \in Limits, Saw(begin, from, upto)
               PROVE  seen' \in Histories
    OBVIOUS
  <2>1. from .. upto - 1 \subseteq Addresses
    OBVIOUS
  <2> HIDE DEF begin, Limits, Addresses
  <2> QED BY <1>1, <2>1 DEF Saw, Histories
<1>3. CASE ReadOutside(begin, limit)
  BY <1>1, <1>3 DEF ReadOutside
<1>4. CASE AnswerFromRun(begin, limit)
  <2>1. Saw(begin, begin, begin) /\ run' = run /\ run.begin <= begin /\ begin < run.end
    BY <1>4 DEF AnswerFromRun, StartsInsideVerifiedRun
  <2>2. begin .. begin - 1 = {}
    BY <1>1
  <2>3. /\ seen'.bytes = seen.bytes /\ seen'.twice = seen.twice /\ seen'.last = begin
        /\ seen'.ascending => seen.ascending
    BY <1>1, <2>1, <2>2 DEF Saw, Histories
  <2>4. run.begin # Null
    BY <1>1, <2>1 DEF Verified
  <2>5. ReadOnce(run', seen')
    BY <1>1, <2>1, <2>3, <2>4 DEF ReadOnce
  <2> QED BY <1>1, <1>2, <2>1, <2>5
<1>5. CASE ExtendRun(begin, limit)
  <2> DEFINE t == FirstNul(run.end, limit)
  <2>1. /\ run.begin <= begin /\ begin < run.end /\ run.end < limit
        /\ run.begin # Null /\ run.end \in Limits
    BY <1>1, <1>5 DEF ExtendRun, StartsInsideVerifiedRun, Runs, Verified
  <2>2. t \in run.end .. limit
    BY <1>1, <2>1, FirstNulFinds
  <2>3. /\ run'.begin = run.begin /\ run'.end = t
        /\ Saw(begin, run.end, t)
    BY <1>1, <1>5 DEF ExtendRun, Runs
  <2> HIDE DEF t
  <2>4. /\ seen'.bytes = seen.bytes \cup run.end .. t - 1 /\ seen'.last = begin
        /\ seen'.twice = (seen.twice \/ seen.bytes \cap run.end .. t - 1 # {})
        /\ seen'.ascending => seen.ascending
    BY <2>3 DEF Saw
  <2>5. t \in Limits /\ seen.bytes \subseteq Int
    BY <1>1, <2>1, <2>2 DEF Histories
  <2>6. ReadOnce(run', seen')
    <3> SUFFICES ASSUME seen'.ascending
                 PROVE  /\ ~seen'.twice
                        /\ run'.begin <= seen'.last
                        /\ \A a \in seen'.bytes : a < run'.end
      BY <2>1, <2>3 DEF ReadOnce
    <3>1. ~seen.twice /\ \A a \in seen.bytes : a < run.end
      BY <1>1, <2>1, <2>4 DEF ReadOnce
    <3>2. seen.bytes \cap run.end .. t - 1 = {}
      BY <2>1, <2>5, <3>1
    <3>3. \A a \in seen.bytes \cup run.end .. t - 1 : a < t
      BY <2>1, <2>2, <2>5, <3>1
    <3> QED BY <2>1, <2>3, <2>4, <3>1, <3>2, <3>3
  <2> QED BY <1>2, <2>1, <2>3, <2>5, <2>6
<1>6. CASE StartRun(begin, limit)
  <2> DEFINE t == FirstNul(begin, limit)
  <2>1. ~(begin >= run.begin /\ begin < run.end)
    BY <1>6 DEF StartRun, StartsInsideVerifiedRun
  <2>2. t \in begin .. limit
    BY <1>1, FirstNulFinds
  <2>3. /\ run'.begin = begin /\ run'.end = t /\ Saw(begin, begin, t)
    BY <1>1, <1>6 DEF StartRun, Runs
  <2> HIDE DEF t
  <2>4. /\ seen'.bytes = seen.bytes \cup begin .. t - 1 /\ seen'.last = begin
        /\ seen'.twice = (seen.twice \/ seen.bytes \cap begin .. t - 1 # {})
        /\ seen'.ascending => seen.ascending /\ begin >= seen.last
    BY <2>3 DEF Saw
  <2>5. t \in Limits /\ seen.bytes \subseteq Int /\ {run.begin, run.end, seen.last} \subseteq Int
    BY <1>1, <2>2 DEF Histories, Runs
  <2> HIDE DEF begin, limit
  <2>6. ReadOnce(run', seen')
    <3> SUFFICES ASSUME seen'.ascending
                 PROVE  /\ ~seen'.twice
                        /\ run'.begin <= seen'.last
                        /\ \A a \in seen'.bytes : a < run'.end
      BY <1>1, <2>3 DEF ReadOnce
    <3>1. ~seen.twice /\ \A a \in seen.bytes : a < begin
      <4>1. CASE run.begin = Null
        BY <1>1, <2>4, <4>1 DEF ReadOnce
      <4>2. CASE run.begin # Null
        <5>1. run.begin <= seen.last /\ (\A a \in seen.bytes : a < run.end) /\ ~seen.twice
          BY <1>1, <2>4, <4>2 DEF ReadOnce
        <5>2. run.end <= begin
          BY <1>1, <2>1, <2>4, <2>5, <5>1
        <5> QED BY <1>1, <2>5, <5>1, <5>2
      <4> QED BY <4>1, <4>2
    <3>2. seen.bytes \cap begin .. t - 1 = {}
      BY <1>1, <2>5, <3>1
    <3>3. \A a \in seen.bytes \cup begin .. t - 1 : a < t
      BY <1>1, <2>2, <2>5, <3>1
    <3>4. ~seen'.twice
      BY <2>4, <3>1, <3>2
    <3>5. begin <= begin
      BY <1>1
    <3> QED BY <2>3, <2>4, <3>3, <3>4, <3>5
  <2> QED BY <1>1, <1>2, <2>3, <2>5, <2>6
<1> QED BY <1>3, <1>4, <1>5, <1>6 DEF CstringLength

\* A call keeps the invariant.
LEMMA CallKeeps ==
  ASSUME MemoInv, NEW v \in Views, CstringLength(v[1], v[2])
  PROVE  MemoInv'
<1>1. memory' = memory /\ frames' = frames /\ v[1] \in Limits /\ v[2] \in Limits
  BY CallTyped
<1>2. run' \in Runs /\ Verified(run') /\ seen' \in Histories /\ ReadOnce(run', seen')
  BY CallRun, CallReadsOnce
<1>3. lastCall'.length \in 0 .. lastCall'.limit - lastCall'.begin
  BY CallAnswers DEF IsLength
<1>4. TypeOK'
  BY <1>1, <1>2, <1>3 DEF TypeOK, MemoInv
<1>5. MemoIsSound'
  BY <1>1, <1>2 DEF MemoIsSound, Verified, MemoInv
<1> QED BY <1>1, <1>2, <1>4, <1>5 DEF MemoInv, ReadOnce

\* Nothing the thread or the owners of other buffers do breaks it.
LEMMA MemoStepKeeps == MemoInv /\ [Next]_vars => MemoInv'
<1> SUFFICES ASSUME MemoInv, [Next]_vars PROVE MemoInv'
  OBVIOUS
<1>1. CASE Next
  BY <1>1, EnterKeeps, LeaveKeeps, RewriteKeeps, CallKeeps DEF Next
<1>2. CASE UNCHANGED vars
  BY <1>2 DEF vars, MemoInv, TypeOK, MemoIsSound, Verified, ReadOnce
<1> QED BY <1>1, <1>2

-----------------------------------------------------------------------------
\* The invariant holds of every history of scopes, calls and writes.
THEOREM MemoInvariance == Spec => []MemoInv
<1> QED BY InitMemoInv, MemoStepKeeps, PTL DEF Spec

\* memoised_run and the saved copies of it stay pointers into the views they
\* were made for, or null.
THEOREM MemoTypeCorrect == Spec => []TypeOK
<1>1. MemoInv => TypeOK
  BY DEF MemoInv
<1> QED BY <1>1, MemoInvariance, PTL

\* Neither the run in use nor any a scope will restore ever claims what is
\* untrue of the bytes.
THEOREM MemoStaysSound == Spec => []MemoIsSound
<1>1. MemoInv => MemoIsSound
  BY DEF MemoInv
<1> QED BY <1>1, MemoInvariance, PTL

\* No byte is read twice under one scope for views asked for in ascending
\* order: the work over a whole scan is at most the size of the buffer.
THEOREM WorkIsLinear == Spec => []LinearWork
<1>1. MemoInv => LinearWork
  BY DEF MemoInv, ReadOnce, LinearWork
<1> QED BY <1>1, MemoInvariance, PTL

\* cstring_length answers with the memo what it answers without.
THEOREM AnswersAreUnchanged == Spec => AnswersUnchanged
<1>1. ASSUME MemoInv, Next, lastCall' # lastCall
      PROVE  IsLength(lastCall'.begin, lastCall'.limit, lastCall'.length)
  <2>1. PICK v \in Views : CstringLength(v[1], v[2])
    BY <1>1 DEF Next, Enter, Leave, Rewrite
  <2>2. PICK n : /\ IsLength(v[1], v[2], n)
                 /\ lastCall' = [begin |-> v[1], limit |-> v[2], length |-> n]
    BY <1>1, <2>1, CallAnswers
  <2> QED BY <2>2
<1>2. MemoInv /\ [Next]_vars
        => [lastCall' # lastCall => IsLength(lastCall'.begin, lastCall'.limit, lastCall'.length)]_vars
  BY <1>1 DEF vars
<1> QED BY <1>2, MemoInvariance, PTL DEF Spec, AnswersUnchanged
===============================================================================
