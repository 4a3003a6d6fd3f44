------------------------------ MODULE FrameType ------------------------------
(***************************************************************************)
(* CFrameType: the 16 bits TYPE of a frame, in the legacy form and in that *)
(* of version 3, and what they mean.  Meaning and Build are the two        *)
(* directions; a setter changes one part of the meaning and builds the     *)
(* TYPE again in the form it came in.                                      *)
(***************************************************************************)
EXTENDS Naturals

Payloads == {"dataonly", "c2_3200", "c2_1600", "packet"}
Encryptions == {"none", "scram8", "scram16", "scram24", "aes128", "aes192", "aes256"}
MetaData == {"none", "gnss", "ecd", "text", "aes"}
FrameTypes == [version : {"legacy", "v3"}, payload : Payloads, encrypt : Encryptions,
               meta : MetaData, signed : BOOLEAN, can : 0..15]

\* (t >> low) & (2^width - 1)
Bits(t, low, width) == (t \div 2^low) % 2^width

\* "this has to be V#3 TYPE": 0xf000 & t.
IsV3(t) == Bits(t, 12, 4) # 0

----------------------------------------------------------------------------
(* SetFrameType: from the bits to their meaning.                           *)

\* A switch over a field of two bits, over its four cases in their order.
Case4(field, a, b, c, d) == <<a, b, c, d>>[field + 1]

PayloadV3(t) ==
  CASE Bits(t, 12, 4) = 1  -> "dataonly"
    [] Bits(t, 12, 4) = 3  -> "c2_1600"
    [] Bits(t, 12, 4) = 15 -> "packet"
    [] OTHER               -> "c2_3200"

\* The mask is 0x3: the three kinds of AES are out of its reach.
EncryptV3(t) == Case4(Bits(t, 9, 2), "none", "scram8", "scram16", "scram24")

MetaV3(t) ==
  LET meta == Bits(t, 4, 4)
  IN  IF meta \in 1..4 THEN <<"gnss", "ecd", "text", "aes">>[meta] ELSE "none"

\* The signature is looked for at a bit that 16 bits do not have.
MeaningV3(t) == [version |-> "v3", payload |-> PayloadV3(t), encrypt |-> EncryptV3(t),
                 meta |-> MetaV3(t), signed |-> FALSE, can |-> Bits(t, 0, 4)]

PayloadLegacy(t) ==
  IF Bits(t, 0, 1) = 0 THEN "packet"
  ELSE Case4(Bits(t, 1, 2), "c2_3200", "dataonly", "c2_3200", "c2_1600")

\* The subtype at bit 5 is that of the encryption, or else the kind of META.
EncryptLegacy(t) ==
  Case4(Bits(t, 3, 2), "none",
        Case4(Bits(t, 5, 2), "scram8", "scram16", "scram24", "scram8"),
        Case4(Bits(t, 5, 2), "aes128", "aes192", "aes256", "aes128"),
        "none")

MetaLegacy(t) ==
  IF Bits(t, 3, 2) = 0 THEN Case4(Bits(t, 5, 2), "text", "gnss", "ecd", "text") ELSE "none"

MeaningLegacy(t) == [version |-> "legacy", payload |-> PayloadLegacy(t),
                     encrypt |-> EncryptLegacy(t), meta |-> MetaLegacy(t),
                     signed |-> Bits(t, 11, 1) = 1, can |-> Bits(t, 7, 4)]

Meaning(t) == IF IsV3(t) THEN MeaningV3(t) ELSE MeaningLegacy(t)

----------------------------------------------------------------------------
(* buildLegacy and buildV3: from the meaning to the bits.                  *)

Bit(b) == IF b THEN 1 ELSE 0

\* The encryption and its subtype; an encrypted meaning has no META here, so the
\* two never share the subtype.
SubtypeLegacy(f) ==
  CASE f.encrypt \in {"scram16", "aes192"} \/ f.meta = "gnss" -> 1
    [] f.encrypt \in {"scram24", "aes256"} \/ f.meta = "ecd"  -> 2
    [] OTHER -> 0
CipherLegacy(f) ==
  CASE f.encrypt \in {"scram8", "scram16", "scram24"} -> 1
    [] f.encrypt \in {"aes128", "aes192", "aes256"}   -> 3
    [] OTHER -> 0

BuildLegacy(f) ==
  [dataonly |-> 3, c2_3200 |-> 5, c2_1600 |-> 7, packet |-> 0][f.payload]
    + 2^3 * CipherLegacy(f) + 2^5 * SubtypeLegacy(f) + 2^7 * f.can + 2^11 * Bit(f.signed)

BuildV3(f) ==
  2^12 * [dataonly |-> 1, c2_3200 |-> 2, c2_1600 |-> 3, packet |-> 15][f.payload]
    + 2^9 * [none |-> 0, scram8 |-> 1, scram16 |-> 2, scram24 |-> 3,
             aes128 |-> 4, aes192 |-> 5, aes256 |-> 6][f.encrypt]
    + 2^8 * Bit(f.signed)
    + 2^4 * [none |-> 0, gnss |-> 1, ecd |-> 2, text |-> 3, aes |-> 15][f.meta]
    + f.can

\* GetOriginType, after a setter.
Build(f) == IF f.version = "v3" THEN BuildV3(f) ELSE BuildLegacy(f)

----------------------------------------------------------------------------
\* Mutant of Stripped: the signature stays announced.
StrippedOfCipher(t) == [Meaning(t) EXCEPT !.encrypt = "none", !.meta = "none"]

\* The constructor of CParrot takes encryption, signature and META away.
Stripped(t) == [Meaning(t) EXCEPT !.encrypt = "none", !.signed = FALSE, !.meta = "none"]
ParrotType(t) == Build(Stripped(t))
=============================================================================
