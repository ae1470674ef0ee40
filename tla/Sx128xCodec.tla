---------------------------- MODULE Sx128xCodec -----------------------------
(***************************************************************************)
(* The conversions of the SX128x driver between values of the API and the  *)
(* bytes on SPI, with their widths.  None of them checks its range.        *)
(***************************************************************************)
EXTENDS Integers, Sequences

(* Two bytes, most significant first: timeouts, IRQ masks, auto-TX times.  *)
Split16(n) == <<(n \div 256) % 256, n % 256>>
Join16(b)  == b[1] * 256 + b[2]

(* Mutation of SetTxParams.                                                *)
SetTxParamsOffByOne(power) == (power + 17) % 256

(* SetTxParams: the power register counts from -18 dBm; buf[0] is a byte.  *)
SetTxParams(power) == (power + 18) % 256
PowerOfRegister(reg) == reg - 18

(* SetAutoTx: the compensated time is a uint16_t.                          *)
AUTO_TX_OFFSET == 33
SetAutoTx(time) == Split16((time - AUTO_TX_OFFSET) % 65536)

(* GetRxBufferStatus: the length from the status bytes; a fixed-length     *)
(* LoRa header takes it from a register, BLE adds its 2 header bytes to a  *)
(* uint8_t.                                                                *)
GetRxBufferStatus(type, fixedLength, status, register) ==
    CASE type = "LORA" /\ fixedLength -> register
      [] type = "BLE"                 -> (status + 2) % 256
      [] OTHER                        -> status

(* SetManualGainValue keeps the high half of the register and ORs in the   *)
(* gain, whole.                                                            *)
Bit(n, k) == (n \div 2^k) % 2
High(n)   == n \div 16
SetManualGainValue(reg, gain) ==
    LET OrBit(k) == IF (k >= 4 /\ Bit(reg, k) = 1) \/ Bit(gain, k) = 1 THEN 2^k ELSE 0
    IN  OrBit(0) + OrBit(1) + OrBit(2) + OrBit(3) + OrBit(4) + OrBit(5) + OrBit(6) + OrBit(7)

(* GetPacketStatus and GetRssiInst: C division rounds towards zero.        *)
RssiPkt(status) == -(status \div 2)
SnrPkt(status)  == IF status < 128 THEN status \div 4 ELSE -((256 - status) \div 4)

(* complement2, with the shifts of the code.                               *)
complement2(num, bitCnt) ==
    IF num >= 2 * 2^(bitCnt - 2) THEN num - 2 * 2^(bitCnt - 1) ELSE num

(* SetSyncWord: offset from the first base address and number of bytes of  *)
(* each slot, or nothing where the packet type has no such slot.           *)
SyncWordBase == <<0, 5, 10>>
SetSyncWord(type, idx) ==
    CASE type = "GFSK" /\ idx \in 1..3 -> [from |-> SyncWordBase[idx], size |-> 5]
      [] type = "FLRC" /\ idx \in 1..3 -> [from |-> SyncWordBase[idx] + 1, size |-> 4]
      [] type = "BLE" /\ idx = 1       -> [from |-> SyncWordBase[idx] + 1, size |-> 4]
      [] OTHER                         -> [from |-> 0, size |-> 0]

(***************************************************************************)
(* The references.                                                         *)
(***************************************************************************)
Bytes == 0..255
SignedOf(num, bits) == CHOOSE v \in -2^(bits - 1)..2^(bits - 1) - 1 : (num - v) % 2^bits = 0
Slot(type, idx) == LET s == SetSyncWord(type, idx) IN s.from..s.from + s.size - 1

(* Which values survive the trip to the chip and back: exactly those in    *)
(* the range the chip has for them.  The others arrive as another value,   *)
(* without an error: a power outside -18..13 dBm as no power the chip has, *)
(* an auto-TX time under 33 us as one of 65 ms, a BLE packet over 253      *)
(* bytes as one of 0 or 1, a gain over 15 as a change of the bits beside   *)
(* it unless they were set.                                                *)
PowerRange == /\ \A p \in -128..127 : SetTxParams(p) \in 0..31 <=> p \in -18..13
              /\ \A p \in -18..13 : PowerOfRegister(SetTxParams(p)) = p
AutoTxRange == \A t \in 0..100 \cup 65500..65535 :
                   Join16(SetAutoTx(t)) + AUTO_TX_OFFSET = t <=> t >= AUTO_TX_OFFSET
BleRange == \A s \in Bytes : GetRxBufferStatus("BLE", FALSE, s, 0) = s + 2 <=> s <= 253
GainRange == \A r \in {0, 15, 128, 240, 255}, g \in Bytes :
                 High(SetManualGainValue(r, g)) = High(r)
                     <=> \A k \in 4..7 : Bit(g, k) <= Bit(r, k)
LevelRange == \A s \in Bytes : /\ RssiPkt(s) \in -128..127
                               /\ 4 * SnrPkt(s) - SignedOf(s, 8) \in -3..3
SignedRange == \A bits \in 2..8 : \A n \in 0..2^bits - 1 :
                   complement2(n, bits) = SignedOf(n, bits)
RangesExact == PowerRange /\ AutoTxRange /\ BleRange /\ GainRange /\ LevelRange /\ SignedRange
=============================================================================
