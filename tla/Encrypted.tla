-------------------------------- MODULE Encrypted ------------------------------
(***************************************************************************)
(* The parsers of encrypted and obfuscated firmware, and the extractors of *)
(* the obfuscated (lib/src/formats/b4_encrypted.cpp).  Salts, names and    *)
(* digests are accepted or not.                                            *)
(***************************************************************************)
EXTENDS Parsing

encrpted_img ==
  Asked(0, 12) /\ Found("encrpted_img", 0, IF offset = 0 THEN "medium" ELSE "low")

encfw == Asked(0, 4) /\ Found("encfw", 0, IF offset = 0 THEN "medium" ELSE "low")

inspect_openssl_salt(salted) == Contains(offset + 8, 8) /\ salted

openssl ==
  /\ Asked(0, 8)
  /\ \E salted \in BOOLEAN :
       Answer("openssl", inspect_openssl_salt(salted), 0, IF offset = 0 THEN "medium" ELSE "low")

ShrsHeader == 1756

inspect_shrs == Contains(offset, 28)

shrs ==
  /\ Asked(0, 4)
  /\ \E data_size \in U32 :
       Answer("shrs", inspect_shrs, ShrsHeader + data_size, IF offset = 0 THEN "medium" ELSE "low")

AutelHeader == 32

inspect_autel(header_size, copyright) ==
  /\ Contains(offset, 16) /\ header_size = AutelHeader
  /\ copyright /\ offset + 16 < size

autel ==
  /\ Asked(0, 8)
  /\ \E data_size, header_size \in {AutelHeader} \cup U32, copyright \in BOOLEAN :
       Answer("autel", inspect_autel(header_size, copyright), header_size + data_size, "medium")

\* The extractor reads the payload itself and compares its end.
autel_deobfuscate ==
  /\ Asked(0, 8)
  /\ \E data_size \in U32, copyright, written \in BOOLEAN :
       LET start == offset + AutelHeader
           fits == /\ inspect_autel(AutelHeader, copyright)
                   /\ IsRangeSafe(size, offset, AutelHeader) /\ data_size <= size - start
       IN Answered("autel_deobfuscate", fits /\ (written \/ data_size = 0), start, data_size, "high",
                   IF fits THEN start + data_size ELSE 0)

TlvHeader == 116
TlvHashed == 8    \* the bytes of the header that the digest covers too

inspect_dlink_tlv(good) == Contains(offset, TlvHeader) /\ good

dlink_tlv ==
  /\ Asked(0, 4)
  /\ \E good, digest, digest_given \in BOOLEAN, data_size \in U32 :
       LET start == offset + TlvHeader - TlvHashed
           hashed == data_size + TlvHashed
           fits == inspect_dlink_tlv(good) /\ start <= size /\ hashed <= size - start
       IN Answered("dlink_tlv", fits /\ (digest_given => digest), offset, TlvHeader + data_size, "high",
                   IF fits THEN start + hashed ELSE 0)

-----------------------------------------------------------------------------
(* Magic bytes that do not begin the result                                *)

DkbsHeader == 160

inspect_dkbs(start, good, data_size) == Contains(start, DkbsHeader) /\ good /\ data_size # 0

dkbs ==
  /\ Asked(0, 6)
  /\ \E good \in BOOLEAN, data_size \in U32 :
       LET start == offset - 7
       IN Answered("dkbs",
            /\ offset >= 7 /\ inspect_dkbs(start, good, data_size)
            /\ size - start >= DkbsHeader + data_size,
            start, DkbsHeader, IF start = 0 THEN "high" ELSE "medium", 0)

DmsMinimum == 256

dms ==
  /\ Asked(0, 4)
  /\ \E good \in BOOLEAN, image_size \in U32 :
       Answered("dms", offset >= 4 /\ Contains(offset - 4, DmsMinimum) /\ good,
                offset - 4, image_size, "medium", 0)

\* The two halves of every four bytes change places; a rest of fewer is dropped.
extract_swapped_u16 ==
  Asked(0, 4) /\ Answer("extract_swapped_u16", available \div 4 > 0, (available \div 4) * 4, "high")

ArcadyanMinimum == 256
ArcadyanMaximum == 1769472

\* The deobfuscated copy is as long as the data from the offset on; the stream
\* in it begins four bytes in.
extract_obfuscated_lzma(start, consumed) ==
  LET rest == size - start
  IN ArcadyanMinimum < rest /\ rest <= ArcadyanMaximum /\ consumed # None

arcadyan ==
  /\ Asked(0, 4)
  /\ \E consumed \in DryRuns(offset) :
       LET start == offset - 104
       IN Answered("arcadyan", offset >= 104 /\ extract_obfuscated_lzma(start, consumed), start, 0, "high", 0)

EncryptedNext ==
  \/ encrpted_img \/ encfw \/ openssl \/ shrs \/ autel \/ autel_deobfuscate \/ dlink_tlv
  \/ dkbs \/ dms \/ extract_swapped_u16 \/ arcadyan
=============================================================================
