------------------------------- MODULE Crc16 -------------------------------
(***************************************************************************)
(* The checksum of the wire format (private/lib/nano_net_crc16.c): a       *)
(* table-driven CRC-16/XMODEM.  A byte is a number in 0..255, a checksum a *)
(* number in 0..65535, a byte buffer a sequence of bytes.                  *)
(*                                                                         *)
(* Exclusive or is written bit by bit, without recursion, so that the      *)
(* lemmas of WireProofs can unfold it.                                     *)
(***************************************************************************)
EXTENDS Integers, Sequences

Byte == 0..255
Word16 == {w \in Nat : w < 65536}   \* membership without the 65536 members

\* The C operator ^ on one bit (weight k), on bytes and on 16-bit words.
XorBit(a, b, k) == ((a \div k + b \div k) % 2) * k

Xor8(a, b) ==
  XorBit(a, b, 1) + XorBit(a, b, 2) + XorBit(a, b, 4) + XorBit(a, b, 8) +
  XorBit(a, b, 16) + XorBit(a, b, 32) + XorBit(a, b, 64) + XorBit(a, b, 128)

Xor16(a, b) == 256 * Xor8(a \div 256, b \div 256) + Xor8(a % 256, b % 256)

-----------------------------------------------------------------------------
\* crc16tab[i] of the code is crc16tab[i + 1] here: sequences start at 1.
crc16tab == <<
       0,  4129,  8258, 12387, 16516, 20645, 24774, 28903, 33032, 37161, 41290, 45419, 49548, 53677, 57806, 61935,
    4657,   528, 12915,  8786, 21173, 17044, 29431, 25302, 37689, 33560, 45947, 41818, 54205, 50076, 62463, 58334,
    9314, 13379,  1056,  5121, 25830, 29895, 17572, 21637, 42346, 46411, 34088, 38153, 58862, 62927, 50604, 54669,
   13907,  9842,  5649,  1584, 30423, 26358, 22165, 18100, 46939, 42874, 38681, 34616, 63455, 59390, 55197, 51132,
   18628, 22757, 26758, 30887,  2112,  6241, 10242, 14371, 51660, 55789, 59790, 63919, 35144, 39273, 43274, 47403,
   23285, 19156, 31415, 27286,  6769,  2640, 14899, 10770, 56317, 52188, 64447, 60318, 39801, 35672, 47931, 43802,
   27814, 31879, 19684, 23749, 11298, 15363,  3168,  7233, 60846, 64911, 52716, 56781, 44330, 48395, 36200, 40265,
   32407, 28342, 24277, 20212, 15891, 11826,  7761,  3696, 65439, 61374, 57309, 53244, 48923, 44858, 40793, 36728,
   37256, 33193, 45514, 41451, 53516, 49453, 61774, 57711,  4224,   161, 12482,  8419, 20484, 16421, 28742, 24679,
   33721, 37784, 41979, 46042, 49981, 54044, 58239, 62302,   689,  4752,  8947, 13010, 16949, 21012, 25207, 29270,
   46570, 42443, 38312, 34185, 62830, 58703, 54572, 50445, 13538,  9411,  5280,  1153, 29798, 25671, 21540, 17413,
   42971, 47098, 34713, 38840, 59231, 63358, 50973, 55100,  9939, 14066,  1681,  5808, 26199, 30326, 17941, 22068,
   55628, 51565, 63758, 59695, 39368, 35305, 47498, 43435, 22596, 18533, 30726, 26663,  6336,  2273, 14466, 10403,
   52093, 56156, 60223, 64286, 35833, 39896, 43963, 48026, 19061, 23124, 27191, 31254,  2801,  6864, 10931, 14994,
   64814, 60687, 56684, 52557, 48554, 44427, 40424, 36297, 31782, 27655, 23652, 19525, 15522, 11395,  7392,  3265,
   61215, 65342, 53085, 57212, 44955, 49082, 36825, 40952, 28183, 32310, 20053, 24180, 11923, 16050,  3793,  7920 >>

\* Mutant: the high byte of the accumulator is forgotten in the table index.
CrcStep_IndexByByteOnly(crc, byte) ==
  Xor16((crc * 256) % 65536, crc16tab[byte + 1])

\* One iteration of the loop: crc = (crc<<8) ^ crc16tab[((crc>>8) ^ byte) & 0xFF],
\* truncated to 16 bits by the assignment.
CrcStep(crc, byte) ==
  Xor16((crc * 256) % 65536, crc16tab[Xor8(crc \div 256, byte) + 1])

\* The iteration as a function. TLC applies a function to values, so that the
\* iterations of a long buffer are evaluated one after the other.
CrcPass == [crc \in Word16 |-> [byte \in Byte |-> CrcStep(crc, byte)]]

\* Mutant: the CCITT-FALSE variant, which starts from FFFF.
nano_net_crc16_FromFFFF(buf) ==
  LET acc[n \in 0..Len(buf)] ==
        IF n = 0 THEN 65535 ELSE CrcPass[acc[n - 1]][buf[n]]
  IN  acc[Len(buf)]

\* nano_net_crc16: the accumulator after the whole buffer, from 0.
nano_net_crc16(buf) ==
  LET acc[n \in 0..Len(buf)] ==
        IF n = 0 THEN 0 ELSE CrcPass[acc[n - 1]][buf[n]]
  IN  acc[Len(buf)]

\* Mutant: the low byte goes first.
CrcBytes_LowFirst(crc) == <<crc % 256, crc \div 256>>

\* A checksum as the packager writes it: high byte first.
CrcBytes(crc) == <<crc \div 256, crc % 256>>
=============================================================================
