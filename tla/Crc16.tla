------------------------------- MODULE Crc16 -------------------------------
(***************************************************************************)
(* The checksum of crc16ccitt.c: a byte at a time, by table, with one      *)
(* running value for the whole process.                                    *)
(*                                                                         *)
(* A word is the set of its bits that are 1, so that XOR is the symmetric  *)
(* difference and a shift adds to the elements.                            *)
(***************************************************************************)
EXTENDS Integers, Sequences, SequencesExt, FiniteSetsExt

CONSTANTS
    Bytes,      \* bytes in play: sets of bits
    MaxBytes    \* bound: bytes given since the last init_crc_ccitt

VARIABLES crc, since        \* the running value; history: the bytes since it was cleared

cvars == <<crc, since>>

P_CCITT == {12, 5, 0}       \* 0x1021

Shift(w, n) == {b + n : b \in w} \cap 0..15

\* init_crcccitt_tab, one row: eight turns over the byte in the high half.
init_crcccitt_tab(i) ==
    FoldLeft(LAMBDA w, n : IF ((15 \in w) # (8 - n \in i)) THEN SymDiff(Shift(w, 1), P_CCITT)
                           ELSE Shift(w, 1), {}, [n \in 1..8 |-> n])

update_crc_ccitt(w, byte) ==
    LET tmp == SymDiff(Shift(w, -8), byte)
    IN SymDiff(Shift(w, 8), init_crcccitt_tab(tmp))

crc16ccitt(data_byte) ==
    /\ Len(since) < MaxBytes
    /\ crc' = update_crc_ccitt(crc, data_byte)
    /\ since' = Append(since, data_byte)

\* init_crc_ccitt: for every stream of bytes the process has.
init_crc_ccitt == crc' = {} /\ since' = <<>>

CrcInit == crc = {} /\ since = <<>>
CrcNext == init_crc_ccitt \/ \E b \in Bytes : crc16ccitt(b)
CrcSpec == CrcInit /\ [][CrcNext]_cvars

----------------------------------------------------------------------------
\* The remainder of the message, 16 zero bits behind it, divided bit by bit by
\* x^16 + x^12 + x^5 + 1.
Remainder(message) ==
    LET bits == FlattenSeq([i \in DOMAIN message |-> [n \in 1..8 |-> 8 - n \in message[i]]])
                    \o [n \in 1..16 |-> FALSE]
    IN FoldLeft(LAMBDA w, one : LET s == {b + 1 : b \in w} \cup (IF one THEN {0} ELSE {})
                                IN IF 16 \in s THEN SymDiff(s, {16, 12, 5, 0}) ELSE s,
                {}, bits)

\* The table gives the CRC that the division gives, of all bytes since the
\* value was last cleared, whoever gave them: a second stream in the process
\* must not begin before the first has ended.
CrcInv == crc = IF since = <<>> THEN {} ELSE Remainder(since)
=============================================================================
