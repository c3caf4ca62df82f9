------------------------------ MODULE MCCrc16 ------------------------------
(***************************************************************************)
(* Checks nano_net_crc16 against the definition of CRC-16/XMODEM.  The     *)
(* state is what the checksum was fed so far, a buffer that grows byte by  *)
(* byte: its first byte is any byte (so every entry of the table is used), *)
(* later ones are drawn from Few.                                          *)
(***************************************************************************)
EXTENDS Crc16

CONSTANTS Few,      \* bytes used after the first one
          MaxBytes  \* bound on the length of the buffer

ASSUME FewAssumption == Few \subseteq Byte

VARIABLE fed

Digits == <<49, 50, 51, 52, 53, 54, 55, 56, 57>>   \* "123456789"

CrcInit == fed \in {<<>>, SubSeq(Digits, 1, 8)}

Growth(buf) == IF buf = <<>> THEN Byte ELSE Few

CrcNext ==
  /\ Len(fed) < MaxBytes \/ Len(fed) = 8
  /\ \E byte \in Growth(fed) : fed' = Append(fed, byte)

CrcSpec == CrcInit /\ [][CrcNext]_fed

-----------------------------------------------------------------------------
\* Reference: the remainder of msg * x^16 by x^16 + x^12 + x^5 + 1, one
\* message bit at a time, most significant bit first.
ShiftIn(reg, bit) ==
  LET shifted == (reg * 2) % 65536
  IN  IF (reg \div 32768 + bit) % 2 = 1 THEN Xor16(shifted, 4129) ELSE shifted

ShiftPass == [reg \in Word16 |-> [bit \in 0..1 |-> ShiftIn(reg, bit)]]

Remainder(buf) ==
  LET BitAt(i) == (buf[(i - 1) \div 8 + 1] \div 2^(7 - ((i - 1) % 8))) % 2
      reg[i \in 0..8 * Len(buf)] ==
        IF i = 0 THEN 0 ELSE ShiftPass[reg[i - 1]][BitAt(i)]
  IN  reg[8 * Len(buf)]

(* The table and the loop of nano_net_crc16 compute the checksum their     *)
(* header comment names: polynomial 1021, initial value 0, no reflection,  *)
(* and 31C3 for "123456789".                                               *)
XmodemChecksum ==
  /\ nano_net_crc16(fed) = Remainder(fed)
  /\ fed = Digits => nano_net_crc16(fed) = 12739

============================================================================
