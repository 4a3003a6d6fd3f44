------------------------------- MODULE MCRelay -------------------------------
EXTENDS Relay

CONSTANTS s, l, r, g   \* a station, a listener, a reflector and a legacy one

MCHosts == {s, l, r, g}
MCKindOf == s :> "simple" @@ l :> "listenonly" @@ r :> "reflector" @@ g :> "legacy"
MCModules == {65, 66}
MCEncrypted == {66}
MCShares == s :> {{65}} @@ l :> {{65}} @@ r :> {{65, 66}} @@ g :> {{65}}
MCSources == {"x", "y", "z"}

\* Types: a stream with a position; signed and encrypted by AES, legacy; version 3
\* with CAN 1 and codec 2 1600, scrambled, and encrypted by AES 128; a signed packet.
Gnss == 5 + 32
Aes == 5 + 16 + 2048
Scrambled == 3 * 4096 + 512 + 1
Aes128 == 2 * 4096 + 4 * 512 + 1
Signed == 2048

Stream == [stream |-> TRUE, size |-> 54, dst |-> "other", crc |-> "other", type |-> Gnss,
           last |-> FALSE, mod |-> 65, heard |-> "x"]
Pm == [Stream EXCEPT !.stream = FALSE, !.size = 80, !.type = Signed, !.last = TRUE, !.mod = 66]
MCFrames ==
  {Stream, [Stream EXCEPT !.size = 55, !.mod = 66, !.heard = "y"],
   [Stream EXCEPT !.dst = "reflector", !.crc = "reflector", !.heard = Nobody],
   [Stream EXCEPT !.dst = "reflector", !.crc = "bad", !.last = TRUE, !.heard = "z"],
   [Stream EXCEPT !.type = Aes, !.mod = 66, !.size = 55, !.heard = Nobody],
   [Stream EXCEPT !.type = Scrambled, !.heard = Nobody], [Stream EXCEPT !.type = Aes128, !.heard = Nobody],
   [Stream EXCEPT !.dst = "parrot", !.type = Gnss + 2048, !.mod = 66, !.heard = Nobody],
   [Stream EXCEPT !.dst = "parrot", !.type = Aes128, !.heard = Nobody],
   Pm, [Pm EXCEPT !.dst = "parrot"], [Pm EXCEPT !.dst = "parrot", !.crc = "parrot"], [Pm EXCEPT !.size = MaxSize, !.heard = "z"],
   [Pm EXCEPT !.dst = "reflector", !.crc = "reflector", !.heard = "y"]}
=============================================================================
