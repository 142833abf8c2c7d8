-------------------------------- MODULE Crc --------------------------------
(* The checksum of the serial packets: crc16 of rm_serial_driver, and the    *)
(* way of a packet from Append_CRC16_Check_Sum over a line that flips bits   *)
(* to Verify_CRC16_Check_Sum.  An unsigned integer is the set of the bits    *)
(* that are set in it, since the code only moves and combines bits; a byte   *)
(* has bits 0 to 7, the register bits 0 to 15.                               *)
EXTENDS Integers, Sequences, FiniteSets

CONSTANTS
    Payloads,    \* the data of the packets, sequences of bytes
    Damages      \* the sets of bits, counted from the packet's start, that a line flips

VARIABLES
    packet,      \* the packet, its two bytes of checksum last
    flipped,     \* the bits of it that are no longer as they were sent
    packetPhase, \* "new", "sent", "damaged" or "received"
    crc_ok       \* what Verify_CRC16_Check_Sum returned

crcVars == <<packet, flipped, packetPhase, crc_ok>>

Byte == SUBSET (0 .. 7)

\* sizeof(ReceivePacket), the longer of the two packets
PacketBytes == 17

\* A packet has data before its checksum.
PayloadsAssumption == Payloads \subseteq Seq(Byte) \ {<<>>}

\* The damages that this checksum is chosen for: an odd number of bits, bits
\* that lie within sixteen, and two bits as far apart as a packet allows.
DamagesAssumption ==
    \A bits \in Damages :
        /\ bits \subseteq Nat /\ IsFiniteSet(bits)
        /\ \/ Cardinality(bits) % 2 = 1
           \/ \A b, c \in bits : c < b + 16
           \/ Cardinality(bits) = 2 /\ \A b, c \in bits : c < b + 8 * PacketBytes

ASSUME CrcAssumption == PayloadsAssumption /\ DamagesAssumption

\* The bits of a number, and the number of a byte.
Bits(n) == {k \in 0 .. 15 : (n \div (2^k)) % 2 = 1}
Number(byte) ==
    LET value(k) == IF k \in byte THEN 2^k ELSE 0
    IN  value(0) + value(1) + value(2) + value(3) + value(4) + value(5) + value(6) + value(7)

Xor(a, b) == (a \ b) \union (b \ a)
ShiftRight(bits, n) == {k - n : k \in {j \in bits : j >= n}}
LowByte(bits) == bits \intersect (0 .. 7)
HighByte(bits) == ShiftRight(bits, 8)

CRC16_INIT == Bits(\hffff)

W_CRC_TABLE == <<
    \h0000, \h1189, \h2312, \h329b, \h4624, \h57ad, \h6536, \h74bf, \h8c48, \h9dc1, \haf5a, \hbed3, \hca6c, \hdbe5, \he97e, \hf8f7,
    \h1081, \h0108, \h3393, \h221a, \h56a5, \h472c, \h75b7, \h643e, \h9cc9, \h8d40, \hbfdb, \hae52, \hdaed, \hcb64, \hf9ff, \he876,
    \h2102, \h308b, \h0210, \h1399, \h6726, \h76af, \h4434, \h55bd, \had4a, \hbcc3, \h8e58, \h9fd1, \heb6e, \hfae7, \hc87c, \hd9f5,
    \h3183, \h200a, \h1291, \h0318, \h77a7, \h662e, \h54b5, \h453c, \hbdcb, \hac42, \h9ed9, \h8f50, \hfbef, \hea66, \hd8fd, \hc974,
    \h4204, \h538d, \h6116, \h709f, \h0420, \h15a9, \h2732, \h36bb, \hce4c, \hdfc5, \hed5e, \hfcd7, \h8868, \h99e1, \hab7a, \hbaf3,
    \h5285, \h430c, \h7197, \h601e, \h14a1, \h0528, \h37b3, \h263a, \hdecd, \hcf44, \hfddf, \hec56, \h98e9, \h8960, \hbbfb, \haa72,
    \h6306, \h728f, \h4014, \h519d, \h2522, \h34ab, \h0630, \h17b9, \hef4e, \hfec7, \hcc5c, \hddd5, \ha96a, \hb8e3, \h8a78, \h9bf1,
    \h7387, \h620e, \h5095, \h411c, \h35a3, \h242a, \h16b1, \h0738, \hffcf, \hee46, \hdcdd, \hcd54, \hb9eb, \ha862, \h9af9, \h8b70,
    \h8408, \h9581, \ha71a, \hb693, \hc22c, \hd3a5, \he13e, \hf0b7, \h0840, \h19c9, \h2b52, \h3adb, \h4e64, \h5fed, \h6d76, \h7cff,
    \h9489, \h8500, \hb79b, \ha612, \hd2ad, \hc324, \hf1bf, \he036, \h18c1, \h0948, \h3bd3, \h2a5a, \h5ee5, \h4f6c, \h7df7, \h6c7e,
    \ha50a, \hb483, \h8618, \h9791, \he32e, \hf2a7, \hc03c, \hd1b5, \h2942, \h38cb, \h0a50, \h1bd9, \h6f66, \h7eef, \h4c74, \h5dfd,
    \hb58b, \ha402, \h9699, \h8710, \hf3af, \he226, \hd0bd, \hc134, \h39c3, \h284a, \h1ad1, \h0b58, \h7fe7, \h6e6e, \h5cf5, \h4d7c,
    \hc60c, \hd785, \he51e, \hf497, \h8028, \h91a1, \ha33a, \hb2b3, \h4a44, \h5bcd, \h6956, \h78df, \h0c60, \h1de9, \h2f72, \h3efb,
    \hd68d, \hc704, \hf59f, \he416, \h90a9, \h8120, \hb3bb, \ha232, \h5ac5, \h4b4c, \h79d7, \h685e, \h1ce1, \h0d68, \h3ff3, \h2e7a,
    \he70e, \hf687, \hc41c, \hd595, \ha12a, \hb0a3, \h8238, \h93b1, \h6b46, \h7acf, \h4854, \h59dd, \h2d62, \h3ceb, \h0e70, \h1ff9,
    \hf78f, \he606, \hd49d, \hc514, \hb1ab, \ha022, \h92b9, \h8330, \h7bc7, \h6a4e, \h58d5, \h495c, \h3de3, \h2c6a, \h1ef1, \h0f78 >>

\* one byte of the message
Step(wCRC, ch_data) ==
    Xor(ShiftRight(wCRC, 8), Bits(W_CRC_TABLE[Number(LowByte(Xor(wCRC, ch_data))) + 1]))

Get_CRC16_Check_Sum(message, length) ==
    LET wCRC[n \in 0 .. length] ==
            IF n = 0 THEN CRC16_INIT ELSE Step(wCRC[n - 1], message[n])
    IN  wCRC[length]

(* Mutant: only the lower byte is compared. *)
Verify_CRC16_Check_SumLow(message) ==
    /\ Len(message) > 2
    /\ message[Len(message) - 1] = LowByte(Get_CRC16_Check_Sum(message, Len(message) - 2))

Verify_CRC16_Check_Sum(message) ==
    /\ Len(message) > 2
    /\ LET w_expected == Get_CRC16_Check_Sum(message, Len(message) - 2)
       IN  /\ message[Len(message) - 1] = LowByte(w_expected)
           /\ message[Len(message)] = HighByte(w_expected)

Append_CRC16_Check_Sum(message) ==
    IF Len(message) <= 2 THEN message
    ELSE LET w_crc == Get_CRC16_Check_Sum(message, Len(message) - 2)
         IN  [message EXCEPT ![Len(message) - 1] = LowByte(w_crc),
                             ![Len(message)] = HighByte(w_crc)]

CrcInit == packet = <<>> /\ flipped = {} /\ packetPhase = "new" /\ crc_ok = FALSE

\* The sender leaves two bytes for the checksum.
SendPacket(data) ==
    /\ packetPhase = "new"
    /\ packet' = Append_CRC16_Check_Sum(data \o <<{}, {}>>)
    /\ packetPhase' = "sent"
    /\ UNCHANGED <<flipped, crc_ok>>

\* the message when those of its bits that are in bits are flipped
Flip(message, bits) ==
    [i \in DOMAIN message |-> Xor(message[i], {k \in 0 .. 7 : 8 * (i - 1) + k \in bits})]

LineFlips(bits) ==
    /\ packetPhase = "sent"
    /\ \A b \in bits : b < 8 * Len(packet)
    /\ packet' = Flip(packet, bits)
    /\ flipped' = bits
    /\ packetPhase' = "damaged"
    /\ UNCHANGED crc_ok

ReceivePacket ==
    /\ packetPhase \in {"sent", "damaged"}
    /\ crc_ok' = Verify_CRC16_Check_Sum(packet)
    /\ packetPhase' = "received"
    /\ UNCHANGED <<packet, flipped>>

CrcNext ==
    \/ \E data \in Payloads : SendPacket(data)
    \/ \E bits \in Damages : LineFlips(bits)
    \/ ReceivePacket

CrcSpec == CrcInit /\ [][CrcNext]_crcVars

-----------------------------------------------------------------------------
\* The reference: division of the message, bit by bit, by the polynomial
\* x^16 + x^12 + x^5 + 1 (CRC-16/CCITT), least significant bit first.
Polynomial == Bits(\h8408)
DividedByBit(reg) ==
    Xor(ShiftRight(reg, 1), IF 0 \in reg THEN Polynomial ELSE {})
DividedBy(reg, byte) ==
    LET r[n \in 0 .. 8] == IF n = 0 THEN Xor(reg, byte) ELSE DividedByBit(r[n - 1])
    IN  r[8]
PolynomialRemainder(data) ==
    LET r[n \in 0 .. Len(data)] == IF n = 0 THEN CRC16_INIT ELSE DividedBy(r[n - 1], data[n])
    IN  r[Len(data)]

(* The checksum that Append_CRC16_Check_Sum writes with the table is the     *)
(* remainder of the data, so that an MCU which computes CRC-16/CCITT itself, *)
(* with or without a table, agrees with the driver on every packet.          *)
ChecksumIsTheRemainder ==
    packetPhase = "sent" =>
        LET n == Len(packet)
            remainder == PolynomialRemainder(SubSeq(packet, 1, n - 2))
        IN  packet[n - 1] = LowByte(remainder) /\ packet[n] = HighByte(remainder)

(* A packet is taken if it is as it was sent, and refused if an odd number   *)
(* of bits, two bits or a burst of at most sixteen were flipped, in the data *)
(* or in the checksum: what SerialDriver takes Verify_CRC16_Check_Sum to do. *)
DamageIsNoticed == packetPhase = "received" => (crc_ok <=> flipped = {})

\* The table computes the checksum both sides agree on, and the checksum notices
\* what the line does to a packet.
ChecksumGuardsThePacket ==
    ChecksumIsTheRemainder /\ DamageIsNoticed
=============================================================================
