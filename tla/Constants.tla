------------------------------- MODULE Constants -------------------------------
(***************************************************************************)
(* The parsers of cryptographic constants, keys and encrypted volumes      *)
(* (lib/src/formats/b3_constants.cpp).                                     *)
(***************************************************************************)
EXTENDS Parsing

\* Tables of hash constants claim their sixteen bytes, tables of a cipher none.
HashConstants(format) == Asked(0, 16) /\ Found(format, 16, "low")
ConstantTable(format, length) == Asked(0, length) /\ Found(format, 0, "low")

crc32 == HashConstants("crc32")
sha256 == HashConstants("sha256")
md5 == HashConstants("md5")
aes_sbox == ConstantTable("aes_sbox", 8)
aes_forward_table == ConstantTable("aes_forward_table", 16)
aes_reverse_table == ConstantTable("aes_reverse_table", 16)
aes_rcon == \E n \in {10, 40} : ConstantTable("aes_rcon", n)
aes_acceleration_table == \E n \in {16, 24} : ConstantTable("aes_acceleration_table", n)

\* The lengths of the encodings of hashes.
der_hash_table == {15, 18, 19}

pkcs_der_hash ==
  \E n \in der_hash_table : Asked(0, n) /\ Found("pkcs_der_hash", n, "medium")

\* Where each key length has its terminator.
RsaTerminators == {142, 271, 399, 527, 1039}

rsa ==
  \E terminator \in RsaTerminators, good \in BOOLEAN :
    /\ Asked(0, IF terminator = 142 THEN 3 ELSE 4)
    /\ LET fits == Contains(offset, terminator + 1)
       IN Answered("rsa", fits /\ good, offset, terminator + 1, "medium",
                   IF fits THEN offset + terminator + 1 ELSE 0)

luks ==
  /\ Asked(0, 6)
  /\ \E version \in {1, 2, 3}, header_size \in U64, hash, cipher \in BOOLEAN :
       LET readable == Contains(offset + 8, 8) /\ hash /\ offset + 72 < size
       IN Answer("luks",
            /\ readable
            /\ \/ version = 1 /\ cipher
               \/ version = 2 /\ 4032 < header_size /\ header_size < available,
            0, "medium")

-----------------------------------------------------------------------------
(* The blob of DPAPI: parts of fixed size, each with the length of a part  *)
(* that follows it.  The cursor never passes the end.                      *)

\* The parts: the bytes before the length's part, in the order they are read.
DpapiParts == << 48, 12, 4, 12, 4, 4 >>

dpapi ==
  Asked(0, 20) /\ Begin(14, [format |-> "dpapi", at |-> offset, part |-> 1])

dpapi_part ==
  /\ Walking("dpapi")
  /\ \E n \in U32 :
       LET fixed == DpapiParts[walk.part]
           next == walk.at + fixed + n
       IN IF ~Contains(walk.at, fixed) \/ ~Contains(walk.at + fixed, n) \/ (walk.part = 1 /\ n % 2 # 0)
            THEN Reject("dpapi")
          ELSE IF walk.part = Len(DpapiParts) THEN Found("dpapi", 0, "medium")
          ELSE GoOn([walk EXCEPT !.at = next, !.part = @ + 1])

ConstantsNext ==
  \/ crc32 \/ sha256 \/ md5 \/ aes_sbox \/ aes_forward_table \/ aes_reverse_table \/ aes_rcon
  \/ aes_acceleration_table \/ pkcs_der_hash \/ rsa \/ luks \/ dpapi \/ dpapi_part
=============================================================================
