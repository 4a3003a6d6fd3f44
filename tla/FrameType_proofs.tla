--------------------------- MODULE FrameType_proofs ---------------------------
(***************************************************************************)
(* What CFrameType keeps of a frame type that it takes apart and puts      *)
(* together again, for all 2^16 types and all meanings.                    *)
(***************************************************************************)
EXTENDS FrameType, TLAPS

Types == 0..2^16 - 1

\* The meanings that a TYPE can carry there and back.  In version 3 not AES, nor a
\* signature, nor a META for AES; in the legacy form not AES either (it is built as
\* 3 and read as 2), and META only if there is no encryption, and then always.
ReadableV3 ==
  [version : {"v3"}, payload : Payloads, encrypt : {"none", "scram8", "scram16", "scram24"},
   meta : {"none", "gnss", "ecd", "text"}, signed : {FALSE}, can : 0..15]
ReadableLegacy ==
  [version : {"legacy"}, payload : Payloads, encrypt : {"none"}, meta : {"text", "gnss", "ecd"},
   signed : BOOLEAN, can : 0..15] \cup
  [version : {"legacy"}, payload : Payloads, encrypt : {"scram8", "scram16", "scram24"},
   meta : {"none"}, signed : BOOLEAN, can : 0..15]

----------------------------------------------------------------------------
(* Fields of bits.                                                         *)

LEMMA Fields ==
  ASSUME NEW t \in Nat
  PROVE  /\ Bits(t, 0, 1) \in 0..1 /\ Bits(t, 11, 1) \in 0..1
         /\ Bits(t, 1, 2) \in 0..3 /\ Bits(t, 3, 2) \in 0..3 /\ Bits(t, 5, 2) \in 0..3
         /\ Bits(t, 9, 2) \in 0..3
         /\ Bits(t, 0, 4) \in 0..15 /\ Bits(t, 4, 4) \in 0..15 /\ Bits(t, 7, 4) \in 0..15
         /\ Bits(t, 12, 4) \in 0..15
BY DEF Bits

\* The fields of a TYPE that is put together from them.
LEMMA FieldsOfLegacy ==
  ASSUME NEW payload \in {0, 3, 5, 7}, NEW cipher \in 0..3, NEW subtype \in 0..3,
         NEW can \in 0..15, NEW signed \in 0..1,
         NEW t, t = payload + 2^3 * cipher + 2^5 * subtype + 2^7 * can + 2^11 * signed
  PROVE  /\ t \in Types
         /\ Bits(t, 12, 4) = 0 /\ Bits(t, 0, 1) = payload % 2 /\ Bits(t, 1, 2) = payload \div 2
         /\ Bits(t, 3, 2) = cipher /\ Bits(t, 5, 2) = subtype
         /\ Bits(t, 7, 4) = can /\ Bits(t, 11, 1) = signed
<1>1. t \in Types /\ Bits(t, 12, 4) = 0
  BY DEF Bits, Types
<1>2. Bits(t, 0, 1) = payload % 2
  BY DEF Bits
<1>3. Bits(t, 1, 2) = payload \div 2
  BY DEF Bits
<1>4. Bits(t, 3, 2) = cipher
  BY DEF Bits
<1>5. Bits(t, 5, 2) = subtype
  BY DEF Bits
<1>6. Bits(t, 7, 4) = can
  BY DEF Bits
<1>7. Bits(t, 11, 1) = signed
  BY DEF Bits
<1> QED
  BY <1>1, <1>2, <1>3, <1>4, <1>5, <1>6, <1>7

LEMMA FourCases ==
  ASSUME NEW a, NEW b, NEW c, NEW d
  PROVE  /\ Case4(0, a, b, c, d) = a /\ Case4(1, a, b, c, d) = b
         /\ Case4(2, a, b, c, d) = c /\ Case4(3, a, b, c, d) = d
BY DEF Case4

LEMMA OneOfFour ==
  ASSUME NEW field \in 0..3, NEW a, NEW b, NEW c, NEW d
  PROVE  Case4(field, a, b, c, d) \in {a, b, c, d}
BY FourCases

----------------------------------------------------------------------------
(* SetFrameType.                                                           *)

LEMMA LegacyMeaning ==
  ASSUME NEW t \in Nat
  PROVE  MeaningLegacy(t) \in FrameTypes
<1>1. PayloadLegacy(t) \in Payloads
  BY Fields, OneOfFour DEF PayloadLegacy, Payloads
<1>2. EncryptLegacy(t) \in Encryptions
  BY Fields, FourCases DEF EncryptLegacy, Encryptions
<1>3. MetaLegacy(t) \in MetaData
  BY Fields, OneOfFour DEF MetaLegacy, MetaData
<1> QED
  BY <1>1, <1>2, <1>3, Fields DEF MeaningLegacy, FrameTypes

LEMMA V3Meaning ==
  ASSUME NEW t \in Nat
  PROVE  /\ MeaningV3(t) \in FrameTypes
         /\ EncryptV3(t) \in {"none", "scram8", "scram16", "scram24"}
<1>1. PayloadV3(t) \in Payloads
  BY DEF PayloadV3, Payloads
<1>2. EncryptV3(t) \in {"none", "scram8", "scram16", "scram24"}
  BY Fields, OneOfFour DEF EncryptV3
<1>3. MetaV3(t) \in MetaData
  BY Fields DEF MetaV3, MetaData
<1> QED
  BY <1>1, <1>2, <1>3, Fields DEF MeaningV3, FrameTypes, Encryptions

LEMMA TypesAreNumbers == Types \subseteq Nat
BY DEF Types

LEMMA MeaningIs ==
  ASSUME NEW t \in Types
  PROVE  /\ Meaning(t) \in FrameTypes
         /\ Meaning(t).version = IF IsV3(t) THEN "v3" ELSE "legacy"
BY TypesAreNumbers, LegacyMeaning, V3Meaning DEF Meaning, MeaningLegacy, MeaningV3

\* Whatever a TYPE of version 3 says, it is never taken for encrypted by AES and
\* never for signed: the masks of SetFrameType do not reach these bits.
THEOREM AesOutOfReach ==
  \A t \in Types : IsV3(t) => /\ Meaning(t).encrypt \in {"none", "scram8", "scram16", "scram24"}
                              /\ ~Meaning(t).signed
BY TypesAreNumbers, V3Meaning DEF Meaning, MeaningV3

----------------------------------------------------------------------------
(* buildV3 and buildLegacy, read by SetFrameType.                          *)

LEMMA RoundTripV3 ==
  ASSUME NEW f \in ReadableV3
  PROVE  BuildV3(f) \in Types /\ Meaning(BuildV3(f)) = f
<1> DEFINE payload == [dataonly |-> 1, c2_3200 |-> 2, c2_1600 |-> 3, packet |-> 15][f.payload]
           encrypt == [none |-> 0, scram8 |-> 1, scram16 |-> 2, scram24 |-> 3,
                       aes128 |-> 4, aes192 |-> 5, aes256 |-> 6][f.encrypt]
           meta == [none |-> 0, gnss |-> 1, ecd |-> 2, text |-> 3, aes |-> 15][f.meta]
           t == BuildV3(f)
<1>1. /\ payload \in 1..15 /\ encrypt \in 0..3 /\ Bit(f.signed) \in 0..1 /\ meta \in 0..15
      /\ f.can \in 0..15
  BY DEF ReadableV3, Payloads, Bit
<1>2. t = 2^12 * payload + 2^9 * encrypt + 2^8 * Bit(f.signed) + 2^4 * meta + f.can
  BY DEF BuildV3
<1>3. /\ t \in Types /\ IsV3(t)
      /\ Bits(t, 12, 4) = payload /\ Bits(t, 9, 2) = encrypt
      /\ Bits(t, 4, 4) = meta /\ Bits(t, 0, 4) = f.can
  <2> DEFINE can == f.can
             signed == Bit(f.signed)
  <2>1. /\ payload \in 1..15 /\ encrypt \in 0..3 /\ signed \in 0..1 /\ meta \in 0..15
        /\ can \in 0..15
        /\ t = 2^12 * payload + 2^9 * encrypt + 2^8 * signed + 2^4 * meta + can
    BY <1>1, <1>2
  <2> HIDE DEF payload, encrypt, signed, meta, can, t
  <2>2. t \in Types
    BY <2>1 DEF Types
  <2>3. Bits(t, 12, 4) = payload
    BY <2>1 DEF Bits
  <2>4. Bits(t, 9, 2) = encrypt
    BY <2>1 DEF Bits
  <2>5. Bits(t, 4, 4) = meta
    BY <2>1 DEF Bits
  <2>6. Bits(t, 0, 4) = can
    BY <2>1 DEF Bits
  <2>7. IsV3(t)
    BY <2>1, <2>3 DEF IsV3
  <2> QED
    BY <2>2, <2>3, <2>4, <2>5, <2>6, <2>7 DEF can
<1> HIDE DEF t
<1>4. PayloadV3(t) = f.payload
  BY <1>3 DEF PayloadV3, ReadableV3, Payloads
<1>5. EncryptV3(t) = f.encrypt
  BY <1>3, FourCases DEF EncryptV3, ReadableV3
<1>6. MetaV3(t) = f.meta
  BY <1>3 DEF MetaV3, ReadableV3
<1>7. f = [version |-> "v3", payload |-> f.payload, encrypt |-> f.encrypt, meta |-> f.meta,
           signed |-> FALSE, can |-> f.can]
  BY DEF ReadableV3
<1>8. Meaning(t) = f
  BY <1>3, <1>4, <1>5, <1>6, <1>7 DEF Meaning, MeaningV3
<1> QED
  BY <1>3, <1>8 DEF t

LEMMA RoundTripLegacy ==
  ASSUME NEW f \in ReadableLegacy
  PROVE  BuildLegacy(f) \in Types /\ Meaning(BuildLegacy(f)) = f
<1> DEFINE payload == [dataonly |-> 3, c2_3200 |-> 5, c2_1600 |-> 7, packet |-> 0][f.payload]
           t == BuildLegacy(f)
<1>1. /\ payload \in {0, 3, 5, 7} /\ f.can \in 0..15 /\ Bit(f.signed) \in 0..1
      /\ CipherLegacy(f) \in 0..3 /\ SubtypeLegacy(f) \in 0..3
  BY DEF ReadableLegacy, Payloads, Bit, CipherLegacy, SubtypeLegacy
<1>2. t = payload + 2^3 * CipherLegacy(f) + 2^5 * SubtypeLegacy(f) + 2^7 * f.can + 2^11 * Bit(f.signed)
  BY DEF BuildLegacy
<1>3. /\ t \in Types /\ ~IsV3(t)
      /\ Bits(t, 0, 1) = payload % 2 /\ Bits(t, 1, 2) = payload \div 2
      /\ Bits(t, 3, 2) = CipherLegacy(f) /\ Bits(t, 5, 2) = SubtypeLegacy(f)
      /\ Bits(t, 7, 4) = f.can /\ Bits(t, 11, 1) = Bit(f.signed)
  <2> DEFINE cipher == CipherLegacy(f)
             subtype == SubtypeLegacy(f)
             can == f.can
             signed == Bit(f.signed)
  <2>1. /\ payload \in {0, 3, 5, 7} /\ cipher \in 0..3 /\ subtype \in 0..3
        /\ can \in 0..15 /\ signed \in 0..1
        /\ t = payload + 2^3 * cipher + 2^5 * subtype + 2^7 * can + 2^11 * signed
    BY <1>1, <1>2
  <2> HIDE DEF payload, t, cipher, subtype, can, signed
  <2>2. /\ t \in Types /\ Bits(t, 12, 4) = 0
        /\ Bits(t, 0, 1) = payload % 2 /\ Bits(t, 1, 2) = payload \div 2
        /\ Bits(t, 3, 2) = cipher /\ Bits(t, 5, 2) = subtype
        /\ Bits(t, 7, 4) = can /\ Bits(t, 11, 1) = signed
    BY <2>1, FieldsOfLegacy, SMTT(30)
  <2>3. ~IsV3(t)
    BY <2>2 DEF IsV3
  <2> QED
    BY <2>2, <2>3 DEF cipher, subtype, can, signed
<1> HIDE DEF t
<1>4. PayloadLegacy(t) = f.payload
  BY <1>3, FourCases DEF PayloadLegacy, ReadableLegacy, Payloads
<1>5. EncryptLegacy(t) = f.encrypt
  BY <1>3, FourCases DEF EncryptLegacy, ReadableLegacy, CipherLegacy, SubtypeLegacy
<1>6. MetaLegacy(t) = f.meta
  BY <1>3, FourCases DEF MetaLegacy, ReadableLegacy, CipherLegacy, SubtypeLegacy
<1>7. (Bits(t, 11, 1) = 1) = f.signed
  BY <1>3 DEF ReadableLegacy, Bit
<1>8. f = [version |-> "legacy", payload |-> f.payload, encrypt |-> f.encrypt, meta |-> f.meta,
           signed |-> f.signed, can |-> f.can]
  BY DEF ReadableLegacy
<1>9. Meaning(t) = f
  BY <1>3, <1>4, <1>5, <1>6, <1>7, <1>8 DEF Meaning, MeaningLegacy
<1> QED
  BY <1>3, <1>9 DEF t

\* A setter rebuilds the TYPE from its meaning: what SetFrameType reads then is that
\* meaning, nothing more and nothing less, provided that it is readable.
THEOREM RoundTrip ==
  \A f \in ReadableV3 \cup ReadableLegacy : Build(f) \in Types /\ Meaning(Build(f)) = f
<1>1. \A f \in ReadableV3 : f.version = "v3"
  BY DEF ReadableV3
<1>2. \A f \in ReadableLegacy : f.version = "legacy"
  BY DEF ReadableLegacy
<1> QED
  BY <1>1, <1>2, RoundTripV3, RoundTripLegacy DEF Build

----------------------------------------------------------------------------
(* The TYPE of a playback.                                                 *)

\* In the legacy form no META and a META of text are the same.
LEMMA NoMetaIsText ==
  ASSUME NEW f, NEW g, f.encrypt = "none", f.meta = "none", g.encrypt = "none", g.meta = "text",
         f.payload = g.payload, f.signed = g.signed, f.can = g.can
  PROVE  BuildLegacy(f) = BuildLegacy(g)
<1>1. SubtypeLegacy(f) = SubtypeLegacy(g) /\ CipherLegacy(f) = CipherLegacy(g)
  BY DEF SubtypeLegacy, CipherLegacy
<1> QED
  BY <1>1 DEF BuildLegacy

\* The lowest bit tells a stream from a packet in both forms, in version 3 as a part
\* of the channel access number.
LEMMA LowestBit ==
  ASSUME NEW t \in Types, NEW u \in Types, Meaning(t).version = Meaning(u).version,
         Meaning(t).payload = Meaning(u).payload, Meaning(t).can = Meaning(u).can
  PROVE  Bits(t, 0, 1) = Bits(u, 0, 1)
<1>1. CASE IsV3(t)
  <2>1. IsV3(u)
    BY <1>1, MeaningIs
  <2>2. Bits(t, 0, 4) = Bits(u, 0, 4)
    BY <1>1, <2>1 DEF Meaning, MeaningV3
  <2>3. \A v \in Types : Bits(v, 0, 1) = Bits(v, 0, 4) % 2
    BY DEF Bits, Types
  <2> QED
    BY <2>2, <2>3
<1>2. CASE ~IsV3(t)
  <2>1. ~IsV3(u)
    BY <1>2, MeaningIs
  <2>2. PayloadLegacy(t) = PayloadLegacy(u)
    BY <1>2, <2>1 DEF Meaning, MeaningLegacy
  <2>3. \A v \in Types : Bits(v, 0, 1) = IF PayloadLegacy(v) = "packet" THEN 0 ELSE 1
    <3> SUFFICES ASSUME NEW v \in Types
                 PROVE  Bits(v, 0, 1) = IF PayloadLegacy(v) = "packet" THEN 0 ELSE 1
      OBVIOUS
    <3>1. Bits(v, 0, 1) \in 0..1 /\ Bits(v, 1, 2) \in 0..3
      BY Fields, TypesAreNumbers
    <3> QED
      BY <3>1, OneOfFour DEF PayloadLegacy
  <2> QED
    BY <2>2, <2>3
<1> QED
  BY <1>1, <1>2

LEMMA Signed ==
  ASSUME NEW f \in FrameTypes, NEW b
  PROVE  [f EXCEPT !.signed = b] =
           [version |-> f.version, payload |-> f.payload, encrypt |-> f.encrypt,
            meta |-> f.meta, signed |-> b, can |-> f.can]
BY DEF FrameTypes

LEMMA StrippedIs ==
  ASSUME NEW t \in Types
  PROVE  Stripped(t) = [version |-> Meaning(t).version, payload |-> Meaning(t).payload,
                        encrypt |-> "none", meta |-> "none", signed |-> FALSE,
                        can |-> Meaning(t).can]
<1> DEFINE given == Meaning(t)
           plain == [given EXCEPT !.encrypt = "none"]
           unsigned == [plain EXCEPT !.signed = FALSE]
<1>1. Stripped(t) = [unsigned EXCEPT !.meta = "none"]
  BY DEF Stripped
<1>2. given \in FrameTypes
  BY MeaningIs
<1> HIDE DEF given
<1>3. /\ plain = [version |-> given.version, payload |-> given.payload, encrypt |-> "none",
                  meta |-> given.meta, signed |-> given.signed, can |-> given.can]
      /\ plain \in FrameTypes
  BY <1>2 DEF FrameTypes, Encryptions
<1> HIDE DEF plain
<1>4. unsigned = [version |-> plain.version, payload |-> plain.payload, encrypt |-> plain.encrypt,
                  meta |-> plain.meta, signed |-> FALSE, can |-> plain.can]
  BY <1>3, Signed
<1>5. unsigned \in FrameTypes
  BY <1>3, <1>4 DEF FrameTypes
<1> HIDE DEF unsigned
<1> QED
  BY <1>1, <1>3, <1>4, <1>5 DEF given, FrameTypes

LEMMA Played ==
  ASSUME NEW t \in Types
  PROVE  LET f == Meaning(ParrotType(t))
             given == Meaning(t)
         IN  /\ ParrotType(t) \in Types
             /\ f.encrypt = "none" /\ ~f.signed /\ f.meta \in {"none", "text"}
             /\ f.version = given.version /\ f.payload = given.payload /\ f.can = given.can
<1> DEFINE given == Meaning(t)
           stripped == Stripped(t)
           legacy == [version |-> "legacy", payload |-> given.payload, encrypt |-> "none",
                      meta |-> "text", signed |-> FALSE, can |-> given.can]
<1>1. given \in FrameTypes /\ given.version \in {"v3", "legacy"}
  BY MeaningIs
<1>2. stripped = [version |-> given.version, payload |-> given.payload, encrypt |-> "none",
                  meta |-> "none", signed |-> FALSE, can |-> given.can]
  BY StrippedIs
<1> HIDE DEF given, stripped
<1>3. CASE given.version = "v3"
  <2>1. stripped \in ReadableV3
    BY <1>1, <1>2, <1>3 DEF ReadableV3, FrameTypes
  <2>2. ParrotType(t) = BuildV3(stripped)
    BY <1>2, <1>3 DEF ParrotType, Build, stripped
  <2> QED
    BY <1>2, <2>1, <2>2, RoundTripV3 DEF given
<1>4. CASE given.version = "legacy"
  <2>1. legacy \in ReadableLegacy
    BY <1>1 DEF ReadableLegacy, FrameTypes
  <2>2. ParrotType(t) = BuildLegacy(stripped)
    BY <1>2, <1>4 DEF ParrotType, Build, stripped
  <2>3. BuildLegacy(stripped) = BuildLegacy(legacy)
    BY <1>2, NoMetaIsText
  <2> QED
    BY <1>4, <2>1, <2>2, <2>3, RoundTripLegacy DEF given
<1> QED
  BY <1>1, <1>3, <1>4

\* What a parrot plays has the form, payload, channel access number and lowest bit
\* of what it was given, and neither cipher nor signature.
THEOREM ParrotTypeClean ==
  \A t \in Types :
    LET f == Meaning(ParrotType(t))
        given == Meaning(t)
    IN  /\ ParrotType(t) \in Types
        /\ f.encrypt = "none" /\ ~f.signed /\ f.meta \in {"none", "text"}
        /\ f.version = given.version /\ f.payload = given.payload /\ f.can = given.can
        /\ Bits(ParrotType(t), 0, 1) = Bits(t, 0, 1)
BY Played, LowestBit
=============================================================================
