------------------------------ MODULE Scripts ------------------------------
(***************************************************************************)
(* The scripts that lock the collateral of a vault (digiforge/scripts.py): *)
(* script numbers, pushes, the CLTV script and the collateral output.      *)
(*                                                                         *)
(* A script is a sequence of bytes. A number is its sign and the bytes of  *)
(* its absolute value, the lowest first and without a zero on top, since   *)
(* script numbers are wider than the integers of TLC. A tagged hash is the *)
(* term it is computed from: a value of 32 bytes that nobody looks into.   *)
(***************************************************************************)
EXTENDS Integers, SequencesExt

Byte      == 0 .. 255
Magnitude == {bytes \in Seq(Byte) : bytes # <<>> => Last(bytes) # 0}
Number    == {n \in [negative : BOOLEAN, bytes : Magnitude] :
                 n.negative => n.bytes # <<>>}

(* The loop that takes an integer to pieces. *)
BytesOf[n \in Nat] == IF n = 0 THEN <<>> ELSE <<n % 256>> \o BytesOf[n \div 256]

Positive(bytes) == [negative |-> FALSE, bytes |-> bytes]

OpCltv        == 177
OpDrop        == 117
OpDup         == 118
OpHash160     == 169
OpEqualVerify == 136
OpCheckSig    == 172
Op1           == 81
OpPushData1   == 76
OpPushData2   == 77
MaxPush       == 65535

-----------------------------------------------------------------------------
(* Script numbers and pushes *)

(* Mutants: no byte for the sign; the highest byte first. *)
EncodeUnsigned(n)  == n.bytes
EncodeBigEndian(n) == Reverse(n.bytes)

(* A number whose top bit is in use needs one more byte for its sign. *)
EncodeScriptNumber(n) ==
    IF n.bytes = <<>> THEN <<>>
    ELSE IF Last(n.bytes) >= 128 THEN Append(n.bytes, IF n.negative THEN 128 ELSE 0)
    ELSE IF n.negative THEN Append(Front(n.bytes), Last(n.bytes) + 128)
    ELSE n.bytes

(* Mutant: 76 bytes are still pushed with their length alone. *)
PushBytes76(data) ==
    LET length == Len(data) IN
    CASE length <= 76                 -> <<length>> \o data
      [] 77 <= length /\ length <= 255 -> <<OpPushData1, length>> \o data
      [] length > 255 -> <<OpPushData2, length % 256, length \div 256>> \o data

(* For data of MaxPush bytes at most. *)
PushBytes(data) ==
    LET length == Len(data) IN
    CASE length <= 75                 -> <<length>> \o data
      [] 76 <= length /\ length <= 255 -> <<OpPushData1, length>> \o data
      [] length > 255 -> <<OpPushData2, length % 256, length \div 256>> \o data

Small(n, top) == ~n.negative /\ Len(n.bytes) = 1 /\ n.bytes[1] <= top

(* Mutant: an opcode for 17, too. *)
PushNumber17(n) ==
    IF Small(n, 17) THEN <<80 + n.bytes[1]>> ELSE PushBytes(EncodeScriptNumber(n))

(* OP_1 to OP_16 for their numbers; zero is the empty push. *)
PushNumber(n) ==
    IF Small(n, 16) THEN <<80 + n.bytes[1]>> ELSE PushBytes(EncodeScriptNumber(n))

-----------------------------------------------------------------------------
(* The CLTV script *)

(* Mutant: only the first byte is looked at. *)
ValidPrefix(key) == key[1] \in {2, 3}

ValidPubkey(key) == Len(key) = 33 /\ key[1] \in {2, 3}

ValidTimelock(t) == ~t.negative /\ t.bytes # <<>>

(* Stands for RIPEMD160(SHA256(key)), for keys that differ in their first  *)
(* twenty bytes.                                                           *)
Hash160(key) == SubSeq(key, 1, 20)

CltvScript(timelock, key) ==
    PushNumber(timelock)
    \o <<OpCltv, OpDrop, OpDup, OpHash160>>
    \o PushBytes(Hash160(key))
    \o <<OpEqualVerify, OpCheckSig>>

-----------------------------------------------------------------------------
(* The Taproot output *)

TaggedHash(tag, data) == <<tag, data>>

(* Mutant: the one byte of a length goes too far. *)
CompactSizeFar(n) == IF n <= 253 THEN <<n>> ELSE <<253, n % 256, n \div 256>>

(* For lengths below 2^32. *)
CompactSize(n) ==
    CASE n < 253                -> <<n>>
      [] 253 <= n /\ n <= 65535 -> <<253, n % 256, n \div 256>>
      [] n > 65535              -> <<254, n % 256, (n \div 256) % 256,
                                     (n \div 65536) % 256, n \div 16777216>>

LeafVersion == 192

LeafHash(script) ==
    TaggedHash("TapLeaf", <<LeafVersion>> \o CompactSize(Len(script)) \o script)

(* Mutant: the tweak of an output without scripts. *)
TweakOfKey(key, root) == TaggedHash("TapTweak", <<key>>)

(* Both are 32 bytes long, so a pair says as much as their concatenation.  *)
TaprootTweak(key, root) == TaggedHash("TapTweak", <<key, root>>)

(* The x coordinate of the NUMS point, which no property looks into. *)
NumsXonly == [i \in 1..32 |-> 80]

(* The bytes of 172800: thirty days of blocks. *)
DefaultTimelock == Positive(BytesOf[172800])

EstimateTimelockBlocks(days, blockTime) == days * ((24 * 60 * 60) \div blockTime)

CollateralOutput(key, timelock) ==
    LET script == CltvScript(timelock, key)
        leaf   == LeafHash(script)
    IN  [cltv_script  |-> script,
         leaf_hash    |-> leaf,
         merkle_root  |-> leaf,
         tweak        |-> TaprootTweak(NumsXonly, leaf),
         internal_key |-> NumsXonly,
         scriptpubkey |-> <<Op1, 32>> \o NumsXonly,
         timelock     |-> timelock,
         owner_pubkey |-> key]
=============================================================================
