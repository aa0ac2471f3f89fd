------------------------------ MODULE MCScripts ------------------------------
(***************************************************************************)
(* Instances of ScriptSpending for TLC.                                    *)
(***************************************************************************)
EXTENDS ScriptSafety

Abs(n)   == IF n < 0 THEN -n ELSE n
Num(n)   == [negative |-> n < 0, bytes |-> BytesOf[Abs(n)]]
Nums(ns) == {Num(n) : n \in ns}

(* 2^31, the first time of the year 2038 that needs a fifth byte, 2^32 - 1 *)
(* and 2^32, which no transaction can name.                                *)
Year2038 == <<0, 0, 0, 128>>
LastTime == <<255, 255, 255, 255>>
TooLate  == <<0, 0, 0, 0, 1>>

Key(prefix, byte, length) == <<prefix>> \o [i \in 1 .. length - 1 |-> byte]

(* Two owners, an uncompressed key and one without its prefix.             *)
Keys   == {Key(2, 128, 33), Key(3, 255, 33), Key(4, 1, 65), Key(2, 1, 32), Key(4, 1, 33)}
Owners == {Key(2, 128, 33)}

(* Timelocks at the edges of the small numbers, of the sign bit and of     *)
(* heights and times; none that is not positive gets into an output.       *)
Locks == Nums({-1, 0, 1, 16, 17, 127, 128, 32767, 32768, 8388608,
               499999999, 500000000})
         \cup {Positive(Year2038), Positive(LastTime), Positive(TooLate)}

LockTimes == {BytesOf[n] : n \in {0, 17, 128, 41730, 500000000}} \cup {Year2038, LastTime}

Pushed == Nums({-32768, -255, -128, -127, -1, 0, 1, 16, 17, 127, 128, 255, 256,
                32767, 32768, 8388607, 8388608, 2147483647})
          \cup {Positive(Year2038), [negative |-> TRUE, bytes |-> LastTime]}

(* Lengths at the edges of the three forms of a push and of a compact      *)
(* size; 520 bytes are the most a node takes, and the last is too long.    *)
DataLengths == {0, 1, 75, 76, 119, 248, 249, 250, 255, 256, 520, 65536}

At(h, t) == [height |-> h, time |-> t]

(* The clock stops at the heights and times around the timelocks.          *)
Clock == <<At(1, BytesOf[500000000]), At(17, BytesOf[500000001]),
           At(18, BytesOf[1767225600]), At(129, Year2038),
           At(32769, <<1, 0, 0, 128>>), At(172801, <<2, 0, 0, 128>>),
           At(8388609, LastTime)>>

(* A chain of some years: the height the examples use for "~30 days from   *)
(* now", a day and a month later.                                          *)
Today == <<At(3327200, BytesOf[1767225600]), At(3332960, BytesOf[1767312000]),
           At(3500000, BytesOf[1769817600])>>
=============================================================================
