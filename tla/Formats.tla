--------------------------------- MODULE Formats -------------------------------
(***************************************************************************)
(* The parsers of all formats: each is called where its magic bytes were   *)
(* found, walks the entries of its format and answers.                     *)
(***************************************************************************)
EXTENDS Compression, Media, Constants, Encrypted, VendorHeaders, VendorCarve,
        Filesystems, FlashFilesystems, Executables

Parse ==
  \/ CompressionNext \/ MediaNext \/ ConstantsNext \/ EncryptedNext
  \/ VendorHeadersNext \/ ArchivesNext \/ VendorCarveNext
  \/ FilesystemsNext \/ FlashFilesystemsNext \/ ExecutablesNext

FormatsNext == Parse \/ Return

FormatsSpec == ParsingInit /\ [][FormatsNext]_parsing

-----------------------------------------------------------------------------
(* Properties                                                              *)

\* The formats whose sizes are taken from their headers as they stand: the
\* scanner drops those of their results that end outside the data.  So is that
\* of a Matter image whose payload was not carved: the caller of the extractor
\* finds no output and takes its success back.
Unchecked ==
  {"android_sparse", "apfs", "autel", "btrfs", "cpio", "dlke", "dms", "dtb", "dxbc", "ext", "fat",
   "iso9660", "jffs2", "logfs", "lz4", "matter_ota_uncarved", "mh01", "ntfs", "pchrom", "rtk", "shrs", "tarball", "ubi",
   "ubifs", "zstd"}

\* What a parser or a built-in extractor claims lies in the data, whatever the
\* fields it was computed from hold: nothing is carved beyond the end, and no
\* end that wraps around passes for one inside.
ClaimsAreInside ==
  (answer # Unanswered /\ answer.found /\ answer.format \notin Unchecked)
     => answer.from >= 0 /\ answer.from + answer.size <= size

\* What a parser reads without a check of its own, as the bytes under a checksum
\* or a decoder's input, lies in the data: the checks made before cover it.
ReadsAreInside == answer # Unanswered => answer.read <= size

\* The size of a result is the sum or the product that the format defines: no
\* field of the file makes it wrap around to a smaller one that would pass.
ClaimsAreExact == answer # Unanswered => answer.size = answer.total

\* Where a loop over entries is, which in a GIF is at a block or in its sub-blocks.
Position(w) == IF w.format = "gif" /\ w.sub # None THEN w.sub ELSE w.at

\* An entry that points back to itself or before: the next test ends the loop.
Stuck(w) == IF w.format = "gif" /\ w.sub # None THEN w.sub_last >= w.sub
            ELSE "last" \in DOMAIN w /\ w.last >= w.at

\* A loop over entries goes forward, or back once and no further; the lists of
\* a RomFS, which may go back, use up the budget or return to the list above.
\* So no file, however its entries point at each other, makes a parser loop.
WalksAdvance ==
  [][(walk # Nowhere /\ walk' # Nowhere) =>
       \/ ~Stuck(walk) /\ (Position(walk') > Position(walk) \/ Stuck(walk'))
       \/ walk.format = "romfs" /\ (walk'.budget < walk.budget \/ Len(walk'.above) < Len(walk.above))]_parsing
=============================================================================
