------------------------------ MODULE Payloads ------------------------------
(***************************************************************************)
(* The bytes that digiforge writes into the data output of a transaction   *)
(* (digiforge/metadata.py) and the variable-length integers in them        *)
(* (digiforge/utils.py), written and read back. A payload is a sequence of *)
(* numbers below 256; the hash of a metadata document is MetadataHash, a   *)
(* value of its length, since no reader looks into it.                     *)
(*                                                                         *)
(* An amount is the sequence of its digits to the base 128, the lowest     *)
(* first and without a zero on top, since amounts have no upper limit.     *)
(***************************************************************************)
EXTENDS Integers, SequencesExt, FiniteSetsExt

DAMagic          == <<68, 65>>   \* "DA"
DAVersion3       == 3
DATransferOpcode == 21
OpReturnMaxBytes == 80

NoHash       == [i \in 1..20 |-> 0]
MetadataHash == [i \in 1..20 |-> 255]

Amount == {digits \in Seq(0..127) : digits = <<>> \/ Last(digits) # 0}

(* What a reader returns when it raises: no value at all. *)
Unreadable == {}

-----------------------------------------------------------------------------
(* Variable-length integers *)

(* One digit to a byte; all but the last byte carry the continuation bit.  *)
EncodeLeb128(amount) ==
    IF amount = <<>> THEN <<0>>
    ELSE [i \in DOMAIN amount |->
             IF i = Len(amount) THEN amount[i] ELSE amount[i] + 128]

Stripped(digits) ==
    SubSeq(digits, 1, Max({0} \cup {i \in DOMAIN digits : digits[i] # 0}))

(* The lengths at which a number that starts after offset may end: at its  *)
(* first byte without continuation bit, among ten at most, since the loop  *)
(* gives up once it has shifted by 64 bits or more.                        *)
Ends(data, offset) ==
    {n \in 1..10 : offset + n <= Len(data) /\ data[offset + n] < 128}

DecodeLeb128(data, offset) ==
    IF Ends(data, offset) = {} THEN Unreadable
    ELSE LET consumed == Min(Ends(data, offset))
         IN  {[value    |-> Stripped([i \in 1..consumed |-> data[offset + i] % 128]),
               consumed |-> consumed]}

(* encode refuses a payload that is longer: MetadataEncodingError.         *)
Encodable(payload) == Len(payload) <= OpReturnMaxBytes

-----------------------------------------------------------------------------
(* Issuance *)

Divisibilities == 0..7
Aggregations   == 0..2   \* AGGREGATABLE, HYBRID, DISPERSED
Asset          == [divisibility : Divisibilities, lock : BOOLEAN, aggregation : Aggregations]

Bit(b) == IF b THEN 1 ELSE 0

(* Mutant: the lock bit one place too low, inside the divisibility. *)
FlagsOverlap(asset) ==
    (asset.divisibility % 8) + 4 * Bit(asset.lock) + 16 * (asset.aggregation % 4)

FlagsByte(asset) ==
    (asset.divisibility % 8) + 8 * Bit(asset.lock) + 16 * (asset.aggregation % 4)

IssuancePayload(amount, asset, hash) ==
    DAMagic \o <<DAVersion3, FlagsByte(asset)>> \o EncodeLeb128(amount) \o hash

(* Of the two enumerations only that of aggregations has a value to refuse.*)
DecodeIssuance(data) ==
    IF \/ Len(data) < 4
       \/ SubSeq(data, 1, 2) # DAMagic
       \/ data[3] # DAVersion3
       \/ (data[4] \div 16) % 4 \notin Aggregations
    THEN Unreadable
    ELSE {[amount |-> number.value,
           asset  |-> [divisibility |-> data[4] % 8,
                       lock         |-> (data[4] \div 8) % 2 = 1,
                       aggregation  |-> (data[4] \div 16) % 4]] :
          number \in DecodeLeb128(data, 4)}

-----------------------------------------------------------------------------
(* Transfer *)

TransferInstruction(vout, amount) == EncodeLeb128(vout) \o EncodeLeb128(amount)

TransferPayload(instructions) ==
    DAMagic \o <<DATransferOpcode>> \o
    FlattenSeq([i \in DOMAIN instructions |->
        TransferInstruction(instructions[i].vout, instructions[i].amount)])
=============================================================================
