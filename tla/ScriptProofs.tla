---------------------------- MODULE ScriptProofs ----------------------------
(***************************************************************************)
(* Proofs of what ScriptSafety promises, for every value of the constants: *)
(* the forms of numbers and pushes, and the inductive invariant ScriptInv, *)
(* which follows the node through the opcodes of a script.                 *)
(***************************************************************************)
EXTENDS ScriptSafety, SumProofs, SequenceTheorems

-----------------------------------------------------------------------------
(* The bytes of a number of TLC *)

(* What BytesOf says of n, and of the numbers up to k. *)
Unfolded(g, n) == IF n = 0 THEN <<>> ELSE <<n % 256>> \o g[n \div 256]
Unfolds(g, k)  == \A n \in 0 .. k : g[n] = Unfolded(g, n)

(* Taking a number to pieces makes it smaller. *)
LEMMA Quotient == \A n \in Nat : /\ n \div 256 \in 0 .. n /\ n % 256 \in Byte
                                 /\ n # 0 => n \div 256 < n
BY DEF Byte

(* Unfolding looks only at the quotient. *)
LEMMA UnfoldedSame ==
  ASSUME NEW g, NEW h, NEW n \in Nat, n # 0 => g[n \div 256] = h[n \div 256]
  PROVE  Unfolded(g, n) = Unfolded(h, n)
BY Zenon DEF Unfolded

(* Two functions that unfold agree where both do. *)
LEMMA UnfoldsAgree ==
  ASSUME NEW g, NEW h, NEW k \in Nat, NEW l \in Nat, Unfolds(g, k), Unfolds(h, l)
  PROVE  \A n \in 0 .. k : n <= l => g[n] = h[n]
<1> DEFINE Q == {m \in Nat : \A n \in 0 .. m : n <= k /\ n <= l => g[n] = h[n]}
<1>1. 0 \in Q
  <2>1. Unfolded(g, 0) = Unfolded(h, 0)
    BY UnfoldedSame
  <2> QED BY <2>1 DEF Unfolds
<1>2. ASSUME NEW m \in Nat, m \in Q
      PROVE  m + 1 \in Q
  <2> SUFFICES ASSUME m + 1 <= k, m + 1 <= l PROVE g[m + 1] = h[m + 1]
    BY <1>2
  <2>1. PICK q : q = (m + 1) \div 256
    OBVIOUS
  <2>2. q \in 0 .. m
    BY <2>1, Quotient
  <2>3. g[q] = h[q]
    BY <1>2, <2>2
  <2>4. Unfolded(g, m + 1) = Unfolded(h, m + 1)
    BY <2>1, <2>3, UnfoldedSame
  <2> QED BY <2>4 DEF Unfolds
<1>3. \A m \in Nat : m \in Q
  <2> HIDE DEF Q
  <2> QED BY <1>1, <1>2, NumberInduction
<1> QED BY <1>3

(* For every bound there is a function that unfolds up to it. *)
LEMMA SomeUnfold == \A k \in Nat : \E g : Unfolds(g, k)
<1> DEFINE Q == {k \in Nat : \E g : Unfolds(g, k)}
<1>1. 0 \in Q
  <2>1. PICK g : g = [n \in {0} |-> <<>>]
    OBVIOUS
  <2>2. g[0] = Unfolded(g, 0)
    BY <2>1, Zenon DEF Unfolded
  <2>3. Unfolds(g, 0)
    BY <2>2 DEF Unfolds
  <2> QED BY <2>3
<1>2. ASSUME NEW k \in Nat, k \in Q
      PROVE  k + 1 \in Q
  <2>1. PICK g : Unfolds(g, k)
    BY <1>2
  <2>2. PICK h : h = [n \in 0 .. k + 1 |-> IF n = k + 1 THEN Unfolded(g, n) ELSE g[n]]
    OBVIOUS
  <2>3. /\ \A n \in 0 .. k : h[n] = g[n]
        /\ h[k + 1] = Unfolded(g, k + 1)
    BY <2>2
  <2>4. \A n \in 0 .. k : h[n] = Unfolded(h, n)
    <3> TAKE n \in 0 .. k
    <3>1. PICK q : q = n \div 256
      OBVIOUS
    <3>2. n \in Nat /\ q \in 0 .. k
      BY <3>1, Quotient
    <3>3. g[q] = h[q]
      BY <2>3, <3>2
    <3>4. Unfolded(g, n) = Unfolded(h, n)
      BY <3>1, <3>2, <3>3, UnfoldedSame
    <3> QED BY <2>1, <2>3, <3>4 DEF Unfolds
  <2>5. h[k + 1] = Unfolded(h, k + 1)
    <3>1. PICK q : q = (k + 1) \div 256
      OBVIOUS
    <3>2. k + 1 \in Nat /\ q \in 0 .. k
      BY <3>1, Quotient
    <3>3. g[q] = h[q]
      BY <2>3, <3>2
    <3>4. Unfolded(g, k + 1) = Unfolded(h, k + 1)
      BY <3>1, <3>2, <3>3, UnfoldedSame
    <3> QED BY <2>3, <3>4
  <2>6. Unfolds(h, k + 1)
    BY <2>4, <2>5 DEF Unfolds
  <2> QED BY <2>6
<1>3. \A k \in Nat : k \in Q
  <2> HIDE DEF Q
  <2> QED BY <1>1, <1>2, NumberInduction
<1> QED BY <1>3

(* So the recursive function is what its definition says. *)
LEMMA BytesUnfold == \A n \in Nat : BytesOf[n] = Unfolded(BytesOf, n)
<1> DEFINE body(g) == [n \in Nat |-> IF n = 0 THEN <<>> ELSE <<n % 256>> \o g[n \div 256]]
           f       == [k \in Nat |-> (CHOOSE g : Unfolds(g, k))[k]]
<1>1. \A k \in Nat : Unfolds(CHOOSE g : Unfolds(g, k), k)
  BY SomeUnfold
<1>2. ASSUME NEW n \in Nat PROVE f[n] = Unfolded(f, n)
  <2>1. PICK g, h, q : /\ q = n \div 256 /\ g = (CHOOSE r : Unfolds(r, n))
                       /\ h = (CHOOSE r : Unfolds(r, q))
    OBVIOUS
  <2>2. q \in 0 .. n /\ q \in Nat
    BY <2>1, Quotient
  <2>3. f[n] = g[n] /\ f[q] = h[q] /\ Unfolds(g, n) /\ Unfolds(h, q)
    BY <1>1, <2>1, <2>2
  <2>4. g[q] = h[q]
    BY <2>2, <2>3, UnfoldsAgree
  <2> HIDE DEF f
  <2>5. Unfolded(g, n) = Unfolded(f, n)
    BY <2>1, <2>3, <2>4, UnfoldedSame
  <2> QED BY <2>3, <2>5 DEF Unfolds
<1>3. f = body(f)
  <2>1. \A n \in Nat : f[n] = IF n = 0 THEN <<>> ELSE <<n % 256>> \o f[n \div 256]
    BY <1>2, Zenon DEF Unfolded
  <2>2. f = [n \in Nat |-> f[n]]
    BY SMT
  <2> HIDE DEF f
  <2> QED BY <2>1, <2>2, Zenon
<1>4. BytesOf = body(BytesOf)
  <2> HIDE DEF f
  <2> QED BY <1>3, Zenon DEF BytesOf
<1> QED BY <1>4, Zenon DEF Unfolded

(* The bytes of a number are bytes. *)
LEMMA BytesType == \A n \in Nat : BytesOf[n] \in Seq(Byte)
<1> DEFINE Q == {m \in Nat : \A n \in 0 .. m : BytesOf[n] \in Seq(Byte)}
<1>1. 0 \in Q
  <2>1. BytesOf[0] = <<>>
    BY BytesUnfold, Zenon DEF Unfolded
  <2>2. BytesOf[0] \in Seq(Byte)
    BY <2>1
  <2> QED BY <2>2
<1>2. ASSUME NEW m \in Nat, m \in Q
      PROVE  m + 1 \in Q
  <2>1. PICK q, b : q = (m + 1) \div 256 /\ b = (m + 1) % 256
    OBVIOUS
  <2>2. q \in 0 .. m /\ b \in Byte
    BY <2>1, Quotient
  <2>3. m + 1 \in Nat /\ m + 1 # 0
    OBVIOUS
  <2>4. BytesOf[m + 1] = <<b>> \o BytesOf[q]
    BY <2>1, <2>3, BytesUnfold, Zenon DEF Unfolded
  <2>5. BytesOf[m + 1] \in Seq(Byte)
    BY <1>2, <2>2, <2>4
  <2> QED BY <1>2, <2>5
<1>3. \A m \in Nat : m \in Q
  <2> HIDE DEF Q
  <2> QED BY <1>1, <1>2, NumberInduction
<1> QED
  <2> TAKE n \in Nat
  <2>1. n \in Q /\ n \in 0 .. n
    BY <1>3
  <2> QED BY <2>1

(* Short sequences, put together. *)
LEMMA OneAndTwo == \A x, y, z \in Nat : /\ <<x>> \o <<y>> = <<x, y>>
                                        /\ <<x>> \o <<y, z>> = <<x, y, z>>
<1> TAKE x, y, z \in Nat
<1>1. PICK s, t : s = <<x>> \o <<y>> /\ t = <<x>> \o <<y, z>>
  OBVIOUS
<1>2. /\ s \in Seq(Nat) /\ Len(s) = 2 /\ s[1] = x /\ s[2] = y
      /\ t \in Seq(Nat) /\ Len(t) = 3 /\ t[1] = x /\ t[2] = y /\ t[3] = z
  BY <1>1
<1>3. /\ <<x, y>> \in Seq(Nat) /\ Len(<<x, y>>) = 2
      /\ <<x, y, z>> \in Seq(Nat) /\ Len(<<x, y, z>>) = 3
  OBVIOUS
<1>4. s = <<x, y>>
  BY <1>2, <1>3, SeqEqual
<1>5. t = <<x, y, z>>
  BY <1>2, <1>3, SeqEqual
<1> QED BY <1>1, <1>4, <1>5

(* The default timelock has three bytes. *)
LEMMA DefaultIsNumber ==
  /\ DefaultTimelock = Positive(<<0, 163, 2>>)
  /\ DefaultTimelock \in Number /\ ValidTimelock(DefaultTimelock)
  /\ Len(DefaultTimelock.bytes) < MaxPush
<1>1. ASSUME NEW n \in Nat, NEW b, NEW q \in Nat, n # 0, b = n % 256, q = n \div 256
      PROVE  BytesOf[n] = <<b>> \o BytesOf[q]
  BY <1>1, BytesUnfold, Zenon DEF Unfolded
<1>2. BytesOf[0] = <<>>
  BY BytesUnfold, Zenon DEF Unfolded
<1>3. BytesOf[2] = <<2>>
  <2>1. 2 \in Nat /\ 0 \in Nat /\ 2 # 0 /\ 2 % 256 = 2 /\ 2 \div 256 = 0
    BY SMT
  <2>2. BytesOf[2] = <<2>> \o BytesOf[0]
    BY <1>1, <2>1
  <2>3. <<2>> \o <<>> = <<2>>
    OBVIOUS
  <2> QED BY <1>2, <2>2, <2>3
<1>4. BytesOf[675] = <<163, 2>>
  <2>1. 675 \in Nat /\ 2 \in Nat /\ 675 # 0 /\ 675 % 256 = 163 /\ 675 \div 256 = 2
    BY SMT
  <2>2. BytesOf[675] = <<163>> \o BytesOf[2]
    BY <1>1, <2>1, SMT
  <2>3. <<163>> \o <<2>> = <<163, 2>>
    BY OneAndTwo
  <2> QED BY <1>3, <2>2, <2>3
<1>5. BytesOf[172800] = <<0, 163, 2>>
  <2>1. /\ 172800 \in Nat /\ 675 \in Nat /\ 172800 # 0
        /\ 172800 % 256 = 0 /\ 172800 \div 256 = 675
    BY SMT
  <2>2. BytesOf[172800] = <<0>> \o BytesOf[675]
    BY <1>1, <2>1, SMT
  <2>3. <<0>> \o <<163, 2>> = <<0, 163, 2>>
    BY OneAndTwo
  <2> QED BY <1>4, <2>2, <2>3, SMT
<1>6. DefaultTimelock = Positive(<<0, 163, 2>>)
  BY <1>5, SMT DEF DefaultTimelock
<1>7. <<0, 163, 2>> \in Magnitude /\ <<0, 163, 2>> # <<>> /\ Len(<<0, 163, 2>>) = 3
  BY DEF Magnitude, Byte, Last
<1> QED BY <1>6, <1>7, SMT DEF Positive, Number, ValidTimelock, MaxPush

-----------------------------------------------------------------------------
(* Script numbers *)

(* A byte without its top bit. *)
LEMMA Modulo == \A b \in Byte : /\ b % 128 \in 0 .. 127
                                /\ b < 128 => b % 128 = b
                                /\ b >= 128 => b % 128 = b - 128
BY DEF Byte

(* A byte behind others, and the others in front of it. *)
LEMMA Appended ==
  ASSUME NEW s \in Seq(Byte), NEW b \in Byte
  PROVE  /\ Append(s, b) \in Seq(Byte) /\ Append(s, b) # <<>>
         /\ Len(Append(s, b)) = Len(s) + 1
         /\ Last(Append(s, b)) = b /\ Front(Append(s, b)) = s
         /\ \A i \in 1 .. Len(s) : Append(s, b)[i] = s[i]
<1>1. PICK t : t = Append(s, b)
  OBVIOUS
<1>2. /\ t \in Seq(Byte) /\ t # <<>> /\ Len(t) = Len(s) + 1 /\ t[Len(t)] = b
      /\ \A i \in 1 .. Len(s) : t[i] = s[i]
  BY <1>1
<1>3. SubSeq(t, 1, Len(t) - 1) = s
  <2>1. PICK f : f = SubSeq(t, 1, Len(t) - 1)
    OBVIOUS
  <2>2. f \in Seq(Byte) /\ Len(f) = Len(s) /\ \A i \in 1 .. Len(s) : f[i] = t[i]
    BY <1>2, <2>1
  <2> QED BY <1>2, <2>1, <2>2, SeqEqual
<1> QED BY <1>1, <1>2, <1>3 DEF Last, Front

(* A sequence is its front and its last element. *)
LEMMA FrontAndLast ==
  ASSUME NEW s \in Seq(Byte), s # <<>>
  PROVE  /\ Front(s) \in Seq(Byte) /\ Last(s) \in Byte /\ Last(s) = s[Len(s)]
         /\ Len(s) \in Nat \ {0} /\ Len(Front(s)) = Len(s) - 1
         /\ Append(Front(s), Last(s)) = s
<1>1. PICK f, b : f = SubSeq(s, 1, Len(s) - 1) /\ b = s[Len(s)]
  OBVIOUS
<1>2. Len(s) \in Nat \ {0} /\ b \in Byte
  BY <1>1
<1>3. f \in Seq(Byte) /\ Len(f) = Len(s) - 1 /\ \A i \in 1 .. Len(s) - 1 : f[i] = s[i]
  <2>1. PICK m : m = Len(s) - 1
    OBVIOUS
  <2>2. m \in Nat /\ \A i \in 1 .. m : s[i] \in Byte
    BY <1>2, <2>1
  <2>3. f = SubSeq(s, 1, m)
    BY <1>1, <2>1
  <2>4. f \in Seq(Byte) /\ Len(f) = m /\ \A i \in 1 .. m : f[i] = s[i]
    BY <2>2, <2>3
  <2> QED BY <2>1, <2>4, Zenon
<1>4. Append(f, b) = s
  <2>1. PICK t : t = Append(f, b)
    OBVIOUS
  <2>2. t \in Seq(Byte) /\ Len(t) = Len(s) /\ \A i \in 1 .. Len(s) : t[i] = s[i]
    BY <1>1, <1>2, <1>3, <2>1
  <2> QED BY <2>1, <2>2, SeqEqual
<1> QED BY <1>1, <1>2, <1>3, <1>4 DEF Front, Last

(* What is stripped are the zeros on top. *)
LEMMA StrippedIs ==
  ASSUME NEW bytes \in Seq(Byte), NEW k \in 0 .. Len(bytes), k # 0 => bytes[k] # 0,
         \A i \in k + 1 .. Len(bytes) : bytes[i] = 0
  PROVE  Stripped(bytes) = SubSeq(bytes, 1, k)
<1>1. PICK tops : tops = {0} \cup {i \in DOMAIN bytes : bytes[i] # 0}
  OBVIOUS
<1>2. k \in tops /\ \A i \in tops : i \in Nat /\ k >= i
  BY <1>1
<1>3. Max(tops) = k
  <2>1. PICK m : m = Max(tops)
    OBVIOUS
  <2>2. m \in tops /\ \A i \in tops : m >= i
    BY <1>2, <2>1, Zenon DEF Max
  <2> QED BY <1>2, <2>1, <2>2
<1> QED BY <1>1, <1>3, Zenon DEF Stripped

(* A sequence that ends with another number than zero stays whole. *)
LEMMA WholeIs ==
  ASSUME NEW s \in Seq(Byte)
  PROVE  SubSeq(s, 1, Len(s)) = s
<1>1. PICK f : f = SubSeq(s, 1, Len(s))
  OBVIOUS
<1>2. f \in Seq(Byte) /\ Len(f) = Len(s) /\ \A i \in 1 .. Len(s) : f[i] = s[i]
  BY <1>1
<1> QED BY <1>1, <1>2, SeqEqual

(* How the node reads data that are no number less than one byte. *)
LEMMA ReadNumber ==
  ASSUME NEW data \in Seq(Byte), data # <<>>, NEW n \in Number, n.bytes # <<>>,
         n.negative = (Last(data) >= 128),
         Stripped(Append(Front(data), Last(data) % 128)) = n.bytes
  PROVE  ScriptNumber(data) = n
<1>1. ScriptNumber(data) = [negative |-> Last(data) >= 128,
                            bytes |-> Stripped(Append(Front(data), Last(data) % 128))]
  BY Zenon DEF ScriptNumber
<1>2. n = [negative |-> n.negative, bytes |-> n.bytes]
  BY DEF Number
<1> QED BY <1>1, <1>2, Zenon

(* The encoding of a number is its shortest, and the node reads it.        *)
(* A number is encoded so that it can be read again, in the shortest form  *)
(* and with at most one byte more than its absolute value                  *)
(* (scripts.py:87-112).                                                    *)
THEOREM NumberRoundTrip ==
  ASSUME NEW n \in Number
  PROVE  /\ EncodeScriptNumber(n) \in Seq(Byte)
         /\ Len(EncodeScriptNumber(n)) \in Len(n.bytes) .. Len(n.bytes) + 1
         /\ Minimal(EncodeScriptNumber(n))
         /\ ScriptNumber(EncodeScriptNumber(n)) = n
<1>1. /\ n.bytes \in Seq(Byte) /\ n.negative \in BOOLEAN
      /\ n.bytes # <<>> => Last(n.bytes) # 0
      /\ n.negative => n.bytes # <<>>
  BY Zenon DEF Number, Magnitude
<1>2. PICK bytes, data : bytes = n.bytes /\ data = EncodeScriptNumber(n)
  OBVIOUS
<1>3. CASE bytes = <<>>
  <2>1. data = <<>>
    BY <1>2, <1>3, Zenon DEF EncodeScriptNumber
  <2>2. n.negative = FALSE
    BY <1>1, <1>2, <1>3, Zenon
  <2>3. n = [negative |-> FALSE, bytes |-> <<>>]
    BY <1>2, <1>3, <2>2 DEF Number
  <2>4. ScriptNumber(data) = n
    BY <2>1, <2>3, Zenon DEF ScriptNumber, Positive
  <2>5. Minimal(data)
    BY <2>1, Zenon DEF Minimal
  <2>6. data \in Seq(Byte) /\ Len(data) = 0 /\ Len(bytes) = 0
    BY <1>3, <2>1
  <2> QED BY <1>2, <2>4, <2>5, <2>6
<1>4. CASE bytes # <<>>
  <2>1. PICK top, m : top = Last(bytes) /\ m = Len(bytes)
    OBVIOUS
  <2>2. /\ bytes \in Seq(Byte) /\ top \in Byte /\ top # 0 /\ m \in Nat \ {0}
        /\ top = bytes[m] /\ Front(bytes) \in Seq(Byte) /\ Len(Front(bytes)) = m - 1
        /\ Append(Front(bytes), top) = bytes
    BY <1>1, <1>2, <1>4, <2>1, FrontAndLast
  <2> top \in 0 .. 255
    BY <2>2 DEF Byte
  <2>3. Stripped(bytes) = bytes
    BY <2>1, <2>2, StrippedIs, WholeIs
  <2>4. CASE top >= 128
    <3>1. PICK b : b = IF n.negative THEN 128 ELSE 0
      OBVIOUS
    <3>2. data = Append(bytes, b)
      BY <1>2, <1>4, <2>1, <2>4, <3>1, Zenon DEF EncodeScriptNumber
    <3>3. b \in Byte /\ b % 128 = 0 /\ 0 \in Byte
      BY <3>1 DEF Byte
    <3>4. /\ data \in Seq(Byte) /\ data # <<>> /\ Len(data) = m + 1
          /\ Last(data) = b /\ Front(data) = bytes /\ data[m] = top
      <4>1. m \in 1 .. Len(bytes)
        BY <2>1, <2>2
      <4>2. data[m] = bytes[m]
        BY <2>2, <3>2, <3>3, <4>1, Appended
      <4> QED BY <2>1, <2>2, <3>2, <3>3, <4>2, Appended
    <3>5. n.negative = (Last(data) >= 128)
      <4>1. CASE n.negative
        <5>1. b = 128
          BY <3>1, <4>1
        <5>2. Last(data) >= 128
          BY <3>4, <5>1
        <5> QED BY <1>1, <4>1, <5>2, Zenon
      <4>2. CASE ~n.negative
        <5>1. b = 0
          BY <3>1, <4>2
        <5>2. ~(Last(data) >= 128)
          BY <3>4, <5>1
        <5>3. n.negative = FALSE
          BY <1>1, <4>2
        <5>4. (Last(data) >= 128) = FALSE
          BY <5>2
        <5> QED BY <5>3, <5>4, Zenon
      <4> QED BY <4>1, <4>2
    <3>6. Stripped(Append(bytes, 0)) = bytes
      <4>1. PICK s : s = Append(bytes, 0)
        OBVIOUS
      <4>2. s \in Seq(Byte) /\ Len(s) = m + 1 /\ s[m] = top /\ s[m + 1] = 0
        BY <2>1, <2>2, <3>3, <4>1
      <4>3. Stripped(s) = SubSeq(s, 1, m)
        BY <2>2, <4>2, StrippedIs
      <4>4. Front(s) = bytes
        BY <2>2, <3>3, <4>1, Appended
      <4>5. Front(s) = SubSeq(s, 1, m)
        <5>1. Len(s) - 1 = m
          BY <2>2, <4>2
        <5> QED BY <5>1, Zenon DEF Front
      <4> QED BY <4>1, <4>3, <4>4, <4>5
    <3>7. ScriptNumber(data) = n
      BY <1>2, <1>4, <3>3, <3>4, <3>5, <3>6, ReadNumber
    <3>8. Minimal(data)
      BY <2>2, <2>4, <3>4 DEF Minimal
    <3> QED BY <1>2, <2>1, <2>2, <3>4, <3>7, <3>8
  <2>5. CASE top < 128 /\ n.negative
    <3>1. data = Append(Front(bytes), top + 128)
      <4>1. ~(top >= 128)
        BY <2>2, <2>5 DEF Byte
      <4> QED BY <1>2, <1>4, <2>1, <2>5, <4>1, Zenon DEF EncodeScriptNumber
    <3>2. top + 128 \in Byte /\ (top + 128) % 128 = top
      <4>1. top + 128 \in Byte
        BY <2>5 DEF Byte
      <4>2. top + 128 >= 128 /\ (top + 128) - 128 = top
        OBVIOUS
      <4> QED BY <4>1, <4>2, Modulo
    <3>3. /\ data \in Seq(Byte) /\ data # <<>> /\ Len(data) = m
          /\ Last(data) = top + 128 /\ Front(data) = Front(bytes)
      BY <2>2, <3>1, <3>2, Appended
    <3>4. n.negative = (Last(data) >= 128)
      <4>1. Last(data) >= 128
        BY <3>3
      <4> QED BY <1>1, <2>5, <4>1, Zenon
    <3>5. ScriptNumber(data) = n
      <4>1. Stripped(Append(Front(data), Last(data) % 128)) = n.bytes
        BY <1>2, <2>2, <2>3, <3>2, <3>3
      <4> QED BY <1>2, <1>4, <3>3, <3>4, <4>1, ReadNumber
    <3>6. Minimal(data)
      BY <2>2, <3>2, <3>3 DEF Minimal
    <3> QED BY <1>2, <2>1, <2>2, <3>3, <3>5, <3>6
  <2>6. CASE top < 128 /\ ~n.negative
    <3>1. data = bytes
      <4>1. ~(top >= 128)
        BY <2>2, <2>6 DEF Byte
      <4> QED BY <1>2, <1>4, <2>1, <2>6, <4>1, Zenon DEF EncodeScriptNumber
    <3>2. top % 128 = top
      BY <2>2, <2>6, Modulo
    <3>3. n.negative = (Last(data) >= 128)
      <4>1. ~(Last(data) >= 128)
        BY <2>1, <2>6, <3>1
      <4>2. n.negative = FALSE
        BY <1>1, <2>6
      <4>3. (Last(data) >= 128) = FALSE
        BY <4>1
      <4> QED BY <4>2, <4>3, Zenon
    <3>4. ScriptNumber(data) = n
      <4>1. Stripped(Append(Front(data), Last(data) % 128)) = n.bytes
        BY <1>2, <2>1, <2>2, <2>3, <3>1, <3>2
      <4> QED BY <1>2, <1>4, <2>2, <3>1, <3>3, <4>1, ReadNumber
    <3>5. Minimal(data)
      BY <2>1, <2>2, <3>1, <3>2 DEF Minimal
    <3> QED BY <1>2, <2>1, <2>2, <3>1, <3>4, <3>5
  <2> QED BY <2>2, <2>4, <2>5, <2>6 DEF Byte
<1> QED BY <1>3, <1>4

-----------------------------------------------------------------------------
(* Pushes *)

(* A piece of a code, and the length of the push there as the node reads   *)
(* it.                                                                     *)
Lies(code, at, piece) ==
    /\ at + Len(piece) - 1 <= Len(code)
    /\ \A j \in 1 .. Len(piece) : code[at + j - 1] = piece[j]

HeaderAt(code, at) ==
    CASE code[at] <= 75 -> 1 [] code[at] = OpPushData1 -> 2 [] code[at] = OpPushData2 -> 3

LengthAt(code, at) ==
    CASE code[at] <= 75 -> code[at]
      [] code[at] = OpPushData1 -> code[at + 1]
      [] code[at] = OpPushData2 -> code[at + 1] + 256 * code[at + 2]

(* What goes before data of a length. *)
HeadFor(length) ==
    IF length <= 75 THEN <<length>>
    ELSE IF length <= 255 THEN <<76, length>>
    ELSE <<77, length % 256, length \div 256>>

(* A byte, without the range of its values. *)
LEMMA ByteIs == \A b : b \in Byte <=> b \in Nat /\ b <= 255
BY DEF Byte

(* A length in two bytes. *)
LEMMA TwoBytes ==
  ASSUME NEW k \in Nat, k <= MaxPush
  PROVE  /\ k % 256 \in Byte /\ k \div 256 \in Byte
         /\ k = (k % 256) + 256 * (k \div 256)
<1>1. k \div 256 \in Nat /\ k \div 256 <= 255
  BY SMT DEF MaxPush
<1>2. k % 256 \in Nat /\ k % 256 <= 255 /\ k = (k % 256) + 256 * (k \div 256)
  BY SMT
<1> QED BY <1>1, <1>2, ByteIs

(* A push of data is its head and the data. *)
LEMMA PushBytesIs ==
  ASSUME NEW data \in Seq(Byte), Len(data) <= MaxPush
  PROVE  /\ PushBytes(data) = HeadFor(Len(data)) \o data
         /\ HeadFor(Len(data)) \in Seq(Byte)
         /\ PushBytes(data) \in Seq(Byte)
         /\ Len(PushBytes(data)) = Len(HeadFor(Len(data))) + Len(data)
         /\ \A i \in 1 .. Len(HeadFor(Len(data))) : PushBytes(data)[i] = HeadFor(Len(data))[i]
         /\ \A i \in 1 .. Len(data) : PushBytes(data)[Len(HeadFor(Len(data))) + i] = data[i]
<1>1. PICK k : k = Len(data)
  OBVIOUS
<1>2. k \in Nat /\ k <= MaxPush
  BY <1>1
<1>3. PushBytes(data) = HeadFor(Len(data)) \o data
  <2>1. CASE k <= 75
    BY <1>1, <2>1, <1>2 DEF PushBytes, HeadFor
  <2>2. CASE k > 75 /\ k <= 255
    BY <1>1, <1>2, <2>2 DEF PushBytes, HeadFor, OpPushData1
  <2>3. CASE k > 255
    BY <1>1, <1>2, <2>3 DEF PushBytes, HeadFor, OpPushData2
  <2> QED BY <1>2, <2>1, <2>2, <2>3, SMT
<1>4. HeadFor(k) \in Seq(Byte)
  <2>1. CASE k <= 75
    <3>1. HeadFor(k) = <<k>> /\ k \in Byte
      BY <1>2, <2>1, ByteIs DEF HeadFor
    <3> QED BY <3>1
  <2>2. CASE k > 75 /\ k <= 255
    <3>1. HeadFor(k) = <<76, k>> /\ k \in Byte /\ 76 \in Byte
      BY <1>2, <2>2, ByteIs DEF HeadFor
    <3> QED BY <3>1
  <2>3. CASE k > 255
    <3>1. HeadFor(k) = <<77, k % 256, k \div 256>>
      BY <1>2, <2>3 DEF HeadFor
    <3>2. k % 256 \in Byte /\ k \div 256 \in Byte /\ 77 \in Byte
      BY <1>2, TwoBytes, ByteIs
    <3> QED BY <3>1, <3>2
  <2> QED BY <1>2, <2>1, <2>2, <2>3, SMT
<1>5. PICK head, piece : head = HeadFor(k) /\ piece = PushBytes(data)
  OBVIOUS
<1>6. /\ piece \in Seq(Byte) /\ Len(piece) = Len(head) + Len(data)
      /\ \A i \in 1 .. Len(head) : piece[i] = head[i]
      /\ \A i \in 1 .. Len(data) : piece[Len(head) + i] = data[i]
  BY <1>1, <1>3, <1>4, <1>5
<1> QED BY <1>1, <1>3, <1>4, <1>5, <1>6

(* The node reads a push of data as it has been written. *)
LEMMA BytesRead ==
  ASSUME NEW data \in Seq(Byte), Len(data) <= MaxPush,
         NEW code \in Seq(Byte), NEW at \in Nat \ {0}, Lies(code, at, PushBytes(data))
  PROVE  /\ code[at] <= OpPushData2
         /\ HeaderAt(code, at) \in 1 .. 3 /\ LengthAt(code, at) = Len(data)
         /\ at + HeaderAt(code, at) + LengthAt(code, at) - 1 <= Len(code)
         /\ HeaderAt(code, at) + LengthAt(code, at) = Len(PushBytes(data))
         /\ SubSeq(code, at + HeaderAt(code, at),
                   at + HeaderAt(code, at) + LengthAt(code, at) - 1) = data
<1>1. PICK k, head, piece, h : /\ k = Len(data) /\ head = HeadFor(k)
                               /\ piece = PushBytes(data) /\ h = Len(head)
  OBVIOUS
<1>2. k \in Nat /\ k <= MaxPush
  BY <1>1
<1>3. /\ head \in Seq(Byte) /\ Len(piece) = h + k
      /\ \A i \in 1 .. h : piece[i] = head[i]
      /\ \A i \in 1 .. k : piece[h + i] = data[i]
  BY <1>1, PushBytesIs
<1>4. /\ at + h + k - 1 <= Len(code)
      /\ \A i \in 1 .. h : code[at + i - 1] = head[i]
      /\ \A i \in 1 .. k : code[at + h + i - 1] = data[i]
  <2>1. h \in Nat
    BY <1>1, <1>3
  <2>2. /\ at + (h + k) - 1 <= Len(code)
        /\ \A j \in 1 .. h + k : code[at + j - 1] = piece[j]
    BY <1>1, <1>3 DEF Lies
  <2>3. ASSUME NEW i \in 1 .. k PROVE code[at + h + i - 1] = data[i]
    <3>1. h + i \in 1 .. h + k /\ at + (h + i) - 1 = at + h + i - 1
      BY <1>2, <2>1
    <3> QED BY <1>3, <2>2, <3>1
  <2>4. ASSUME NEW i \in 1 .. h PROVE code[at + i - 1] = head[i]
    <3>1. i \in 1 .. h + k
      BY <1>2, <2>1
    <3> QED BY <1>3, <2>2, <3>1
  <2> QED BY <1>2, <2>1, <2>2, <2>3, <2>4
<1>5. /\ code[at] <= 77 /\ h \in 1 .. 3
      /\ HeaderAt(code, at) = h /\ LengthAt(code, at) = k
  <2>1. CASE k <= 75
    <3>1. head = <<k>> /\ h = 1
      BY <1>1, <2>1 DEF HeadFor
    <3>2. code[at] = k
      BY <1>4, <3>1
    <3> QED BY <1>2, <2>1, <3>1, <3>2 DEF HeaderAt, LengthAt, OpPushData1, OpPushData2
  <2>2. CASE k > 75 /\ k <= 255
    <3>1. head = <<76, k>> /\ h = 2
      BY <1>1, <1>2, <2>2, SMT DEF HeadFor
    <3>2. code[at] = 76 /\ code[at + 1] = k
      BY <1>4, <3>1
    <3> QED BY <1>2, <2>2, <3>1, <3>2 DEF HeaderAt, LengthAt, OpPushData1, OpPushData2
  <2>3. CASE k > 255
    <3>1. PICK low, high : low = k % 256 /\ high = k \div 256
      OBVIOUS
    <3>2. head = <<77, low, high>> /\ h = 3
      BY <1>1, <1>2, <2>3, <3>1 DEF HeadFor
    <3>3. code[at] = 77 /\ code[at + 1] = low /\ code[at + 2] = high
      BY <1>4, <3>2
    <3>4. k = low + 256 * high /\ low \in Byte /\ high \in Byte
      BY <1>2, <3>1, TwoBytes
    <3> QED BY <2>3, <3>2, <3>3, <3>4 DEF HeaderAt, LengthAt, OpPushData1, OpPushData2
  <2> QED BY <1>2, <2>1, <2>2, <2>3, SMT
<1>6. SubSeq(code, at + h, at + h + k - 1) = data
  <2>1. PICK s, m, n : /\ s = SubSeq(code, m, n)
                       /\ m = at + h /\ n = at + h + k - 1
    OBVIOUS
  <2>2. m \in Int /\ n \in Int /\ \A i \in m .. n : code[i] \in Byte
    BY <1>2, <1>4, <1>5, <2>1, SMT
  <2>3. /\ s \in Seq(Byte)
        /\ Len(s) = IF m <= n THEN n - m + 1 ELSE 0
        /\ \A i \in 1 .. n - m + 1 : s[i] = code[m + i - 1]
    BY <2>1, <2>2, SubSeqProperties
  <2>4. n - m + 1 = k /\ Len(s) = k
    BY <1>2, <1>5, <2>1, <2>3, SMT
  <2>5. \A i \in 1 .. k : s[i] = data[i]
    <3> TAKE i \in 1 .. k
    <3>1. m + i - 1 = at + h + i - 1
      BY <1>2, <1>5, <2>1, SMT
    <3> QED BY <1>4, <2>3, <2>4, <3>1
  <2> QED BY <1>1, <2>1, <2>3, <2>4, <2>5, SeqEqual
<1> QED BY <1>1, <1>2, <1>3, <1>4, <1>5, <1>6 DEF OpPushData2

(* A number is pushed with an opcode of its own, or its encoding is. *)
LEMMA PushNumberIs ==
  ASSUME NEW n \in Number, Len(n.bytes) < MaxPush
  PROVE  /\ EncodeScriptNumber(n) \in Seq(Byte) /\ Len(EncodeScriptNumber(n)) <= MaxPush
         /\ \/ PushNumber(n) = PushBytes(EncodeScriptNumber(n))
            \/ \E b \in 1 .. 16 : PushNumber(n) = <<80 + b>> /\ EncodeScriptNumber(n) = <<b>>
<1>1. /\ EncodeScriptNumber(n) \in Seq(Byte)
      /\ Len(EncodeScriptNumber(n)) \in Len(n.bytes) .. Len(n.bytes) + 1
  BY NumberRoundTrip
<1>2. /\ n.bytes \in Seq(Byte)
      /\ n.bytes # <<>> => Last(n.bytes) # 0
  BY Zenon DEF Number, Magnitude
<1>3. Len(EncodeScriptNumber(n)) <= MaxPush
  <2>1. PICK k, l : k = Len(n.bytes) /\ l = Len(EncodeScriptNumber(n))
    OBVIOUS
  <2>2. k \in Nat /\ l \in k .. k + 1 /\ k < MaxPush
    BY <1>1, <1>2, <2>1
  <2>3. l <= MaxPush
    BY <2>2, SMT DEF MaxPush
  <2> QED BY <2>1, <2>3
<1>4. CASE Small(n, 16)
  <2>1. PICK b : b = n.bytes[1]
    OBVIOUS
  <2>2. /\ ~n.negative /\ Len(n.bytes) = 1 /\ b <= 16 /\ b \in Byte
        /\ n.bytes = <<b>> /\ Last(n.bytes) = b /\ n.bytes # <<>>
    BY <1>2, <1>4, <2>1 DEF Small, Last
  <2>3. b \in 1 .. 16 /\ ~(b >= 128)
    BY <1>2, <2>2 DEF Byte
  <2>4. EncodeScriptNumber(n) = n.bytes
    BY <2>2, <2>3, Zenon DEF EncodeScriptNumber
  <2>5. PushNumber(n) = <<80 + b>>
    BY <1>4, <2>1, Zenon DEF PushNumber
  <2> QED BY <1>1, <1>3, <2>2, <2>3, <2>4, <2>5
<1>5. CASE ~Small(n, 16)
  <2>1. PushNumber(n) = PushBytes(EncodeScriptNumber(n))
    BY <1>5, Zenon DEF PushNumber
  <2> QED BY <1>1, <1>3, <2>1
<1> QED BY <1>4, <1>5

(* Pushes and what they put on the stack are bytes. *)
LEMMA PieceType ==
  ASSUME NEW x \in Pushable
  PROVE  /\ Piece(x) \in Seq(Byte) /\ Len(Piece(x)) \in Nat \ {0}
         /\ Item(x) \in Seq(Byte)
<1>1. ASSUME NEW data \in Seq(Byte), Len(data) <= MaxPush
      PROVE  PushBytes(data) \in Seq(Byte) /\ Len(PushBytes(data)) \in Nat \ {0}
  <2>1. PICK k, h : k = Len(data) /\ h = HeadFor(k)
    OBVIOUS
  <2>2. /\ PushBytes(data) \in Seq(Byte)
        /\ Len(PushBytes(data)) = Len(h) + k
    BY <1>1, <2>1, PushBytesIs
  <2>3. Len(h) \in 1 .. 3
    BY <2>1 DEF HeadFor
  <2> QED BY <2>1, <2>2, <2>3
<1>2. CASE x.kind = "data"
  <2>1. x.value \in Seq(Byte) /\ Len(x.value) <= MaxPush
    BY <1>2 DEF Pushable
  <2> QED BY <1>1, <1>2, <2>1 DEF Piece, Item
<1>3. CASE x.kind = "number"
  <2>1. x.value \in Number /\ Len(x.value.bytes) < MaxPush
    BY <1>3, Zenon DEF Pushable
  <2>2. PICK n : n = x.value
    OBVIOUS
  <2>3. Piece(x) = PushNumber(n) /\ Item(x) = EncodeScriptNumber(n)
    BY <1>3, <2>2, Zenon DEF Piece, Item
  <2>4. /\ EncodeScriptNumber(n) \in Seq(Byte) /\ Len(EncodeScriptNumber(n)) <= MaxPush
        /\ \/ PushNumber(n) = PushBytes(EncodeScriptNumber(n))
           \/ \E b \in 1 .. 16 : PushNumber(n) = <<80 + b>> /\ EncodeScriptNumber(n) = <<b>>
    BY <2>1, <2>2, PushNumberIs
  <2>5. CASE PushNumber(n) = PushBytes(EncodeScriptNumber(n))
    BY <1>1, <2>3, <2>4, <2>5
  <2>6. ASSUME NEW b \in 1 .. 16, PushNumber(n) = <<80 + b>>
        PROVE  PushNumber(n) \in Seq(Byte) /\ Len(PushNumber(n)) \in Nat \ {0}
    <3>1. 80 + b \in Byte
      BY DEF Byte
    <3> QED BY <2>6, <3>1
  <2> QED BY <2>3, <2>4, <2>5, <2>6
<1> QED BY <1>2, <1>3 DEF Pushable

(* Two numbers that are pushed with the same bytes are the same. *)
LEMMA SameNumber ==
  ASSUME NEW n \in Number, Len(n.bytes) < MaxPush,
         NEW m \in Number, Len(m.bytes) < MaxPush,
         NEW code \in Seq(Byte), NEW at \in Nat \ {0},
         Lies(code, at, PushNumber(n)), Lies(code, at, PushNumber(m))
  PROVE  n = m
<1>1. PICK e, f : e = EncodeScriptNumber(n) /\ f = EncodeScriptNumber(m)
  OBVIOUS
<1>2. /\ e \in Seq(Byte) /\ Len(e) <= MaxPush /\ f \in Seq(Byte) /\ Len(f) <= MaxPush
      /\ \/ PushNumber(n) = PushBytes(e)
         \/ \E b \in 1 .. 16 : PushNumber(n) = <<80 + b>> /\ e = <<b>>
      /\ \/ PushNumber(m) = PushBytes(f)
         \/ \E b \in 1 .. 16 : PushNumber(m) = <<80 + b>> /\ f = <<b>>
  BY <1>1, PushNumberIs
<1>3. ASSUME NEW d \in Seq(Byte), Len(d) <= MaxPush, Lies(code, at, PushBytes(d))
      PROVE  /\ code[at] <= 77
             /\ d = SubSeq(code, at + HeaderAt(code, at),
                           at + HeaderAt(code, at) + LengthAt(code, at) - 1)
  BY <1>3, BytesRead DEF OpPushData2
<1>4. ASSUME NEW b \in 1 .. 16, Lies(code, at, <<80 + b>>)
      PROVE  code[at] = 80 + b
  <2>1. PICK piece : piece = <<80 + b>>
    OBVIOUS
  <2>2. Len(piece) = 1 /\ piece[1] = 80 + b
    BY <2>1
  <2>3. \A j \in 1 .. Len(piece) : code[at + j - 1] = piece[j]
    BY <1>4, <2>1 DEF Lies
  <2> QED BY <2>2, <2>3
<1>5. e = f
  <2>1. CASE PushNumber(n) = PushBytes(e) /\ PushNumber(m) = PushBytes(f)
    BY <1>2, <1>3, <2>1, Zenon
  <2>2. CASE /\ PushNumber(n) = PushBytes(e)
             /\ \E b \in 1 .. 16 : PushNumber(m) = <<80 + b>> /\ f = <<b>>
    <3>1. PICK b \in 1 .. 16 : PushNumber(m) = <<80 + b>>
      BY <2>2
    <3>2. code[at] <= 77 /\ code[at] = 80 + b
      BY <1>2, <1>3, <1>4, <2>2, <3>1
    <3> QED BY <3>2
  <2>3. CASE /\ PushNumber(m) = PushBytes(f)
             /\ \E b \in 1 .. 16 : PushNumber(n) = <<80 + b>> /\ e = <<b>>
    <3>1. PICK b \in 1 .. 16 : PushNumber(n) = <<80 + b>>
      BY <2>3
    <3>2. code[at] <= 77 /\ code[at] = 80 + b
      BY <1>2, <1>3, <1>4, <2>3, <3>1
    <3> QED BY <3>2
  <2>4. CASE /\ \E b \in 1 .. 16 : PushNumber(n) = <<80 + b>> /\ e = <<b>>
             /\ \E b \in 1 .. 16 : PushNumber(m) = <<80 + b>> /\ f = <<b>>
    <3>1. PICK b \in 1 .. 16, c \in 1 .. 16 : /\ PushNumber(n) = <<80 + b>> /\ e = <<b>>
                                              /\ PushNumber(m) = <<80 + c>> /\ f = <<c>>
      BY <2>4
    <3>2. code[at] = 80 + b /\ code[at] = 80 + c
      BY <1>4, <3>1
    <3>3. b = c
      BY <3>2
    <3> QED BY <3>1, <3>3
  <2> QED BY <1>2, <2>1, <2>2, <2>3, <2>4
<1>6. ScriptNumber(e) = n /\ ScriptNumber(f) = m
  BY <1>1, NumberRoundTrip
<1> QED BY <1>5, <1>6

-----------------------------------------------------------------------------
(* The order of the numbers *)

(* Of two different numbers one is less. *)
LEMMA LessTotal ==
  ASSUME NEW a \in Seq(Byte), NEW b \in Seq(Byte), ~Less(a, b), ~Less(b, a)
  PROVE  a = b
<1>1. Len(a) = Len(b) /\ Len(a) \in Nat
  BY DEF Less
<1>2. PICK D : D = {i \in DOMAIN a : a[i] # b[i]}
  OBVIOUS
<1>3. ASSUME D # {} PROVE FALSE
  <2>1. PICK k : k = Len(a)
    OBVIOUS
  <2>2. k \in Nat /\ DOMAIN a = 1 .. k /\ DOMAIN b = 1 .. k
    BY <1>1, <2>1
  <2>3. IsFiniteSet(1 .. k) /\ D \subseteq 1 .. k
    BY <1>2, <2>2, FS_Interval
  <2>4. IsFiniteSet(D) /\ D \subseteq Int
    <3>1. 1 .. k \subseteq Int
      OBVIOUS
    <3>2. IsFiniteSet(D)
      BY <2>3, FS_Subset
    <3> QED BY <2>3, <3>1, <3>2
  <2>5. PICK m \in D : \A j \in D : j <= m
    BY <1>3, <2>4, HasLast
  <2>6. m \in 1 .. k /\ a[m] # b[m] /\ a[m] \in Nat /\ b[m] \in Nat
    <3>1. m \in 1 .. k /\ a[m] # b[m]
      BY <1>2, <2>2
    <3>2. a[m] \in Byte /\ b[m] \in Byte
      BY <2>1, <1>1, <3>1
    <3> QED BY <3>1, <3>2, ByteIs
  <2>7. \A j \in m + 1 .. k : a[j] = b[j]
    <3> TAKE j \in m + 1 .. k
    <3>1. j \in 1 .. k /\ ~(j <= m)
      BY <2>2, <2>6
    <3> QED BY <1>2, <2>2, <2>5, <3>1
  <2>8. a[m] < b[m] \/ b[m] < a[m]
    BY <2>6
  <2> QED BY <1>1, <2>1, <2>2, <2>6, <2>7, <2>8 DEF Less
<1>4. \A i \in 1 .. Len(a) : a[i] = b[i]
  BY <1>2, <1>3
<1> QED BY <1>1, <1>4, SeqEqual

(* A number less than a lesser one is less. *)
LEMMA LessTransitive ==
  ASSUME NEW a \in Seq(Byte), NEW b \in Seq(Byte), NEW c \in Seq(Byte),
         Less(a, b), Less(b, c)
  PROVE  Less(a, c)
<1>1. PICK k, l, m : k = Len(a) /\ l = Len(b) /\ m = Len(c)
  OBVIOUS
<1>2. /\ k \in Nat /\ l \in Nat /\ m \in Nat
      /\ DOMAIN a = 1 .. k /\ DOMAIN b = 1 .. l /\ DOMAIN c = 1 .. m
  BY <1>1
<1>3. CASE k < l \/ l < m
  <2>1. k <= l /\ l <= m
    BY <1>1, <1>2 DEF Less
  <2>2. k < m
    BY <1>2, <1>3, <2>1
  <2> QED BY <1>1, <2>2 DEF Less
<1>4. CASE ~(k < l) /\ ~(l < m)
  <2>1. /\ k = l /\ l = m
        /\ \E i \in 1 .. k : a[i] < b[i] /\ \A j \in i + 1 .. k : a[j] = b[j]
        /\ \E i \in 1 .. k : b[i] < c[i] /\ \A j \in i + 1 .. k : b[j] = c[j]
    BY <1>1, <1>2, <1>4 DEF Less
  <2>2. PICK x \in 1 .. k : a[x] < b[x] /\ \A j \in x + 1 .. k : a[j] = b[j]
    BY <2>1
  <2>3. PICK y \in 1 .. k : b[y] < c[y] /\ \A j \in y + 1 .. k : b[j] = c[j]
    BY <2>1
  <2>4. \A i \in 1 .. k : a[i] \in Nat /\ b[i] \in Nat /\ c[i] \in Nat
    <3> TAKE i \in 1 .. k
    <3>1. a[i] \in Byte /\ b[i] \in Byte /\ c[i] \in Byte
      BY <1>1, <2>1, ElementOfSeq
    <3> QED BY <3>1, ByteIs
  <2>5. \E i \in 1 .. k : a[i] < c[i] /\ \A j \in i + 1 .. k : a[j] = c[j]
    <3>1. CASE x <= y
      <4>1. a[y] < c[y]
        <5>1. CASE x = y
          BY <2>2, <2>3, <2>4, <5>1
        <5>2. CASE x < y
          <6>1. y \in x + 1 .. k
            BY <1>2, <5>2
          <6>2. a[y] = b[y]
            BY <2>2, <6>1
          <6> QED BY <2>3, <6>2
        <5> QED BY <3>1, <5>1, <5>2
      <4>2. \A j \in y + 1 .. k : a[j] = c[j]
        <5> TAKE j \in y + 1 .. k
        <5>1. j \in x + 1 .. k
          BY <1>2, <3>1
        <5> QED BY <2>2, <2>3, <5>1
      <4> QED BY <4>1, <4>2
    <3>2. CASE y < x
      <4>1. a[x] < c[x]
        <5>1. x \in y + 1 .. k
          BY <1>2, <3>2
        <5>2. b[x] = c[x]
          BY <2>3, <5>1
        <5> QED BY <2>2, <5>2
      <4>2. \A j \in x + 1 .. k : a[j] = c[j]
        <5> TAKE j \in x + 1 .. k
        <5>1. j \in y + 1 .. k
          BY <1>2, <3>2
        <5> QED BY <2>2, <2>3, <5>1
      <4> QED BY <4>1, <4>2
    <3> QED BY <1>2, <3>1, <3>2
  <2> QED BY <1>1, <1>2, <2>1, <2>5 DEF Less
<1> QED BY <1>3, <1>4

(* What is not above l is below what l is below. *)
LEMMA LessFollows ==
  ASSUME NEW l \in Seq(Byte), NEW t \in Seq(Byte), NEW c \in Seq(Byte),
         ~Less(l, t), Less(l, c)
  PROVE  Less(t, c)
<1>1. CASE Less(t, l)
  BY <1>1, LessTransitive
<1>2. CASE ~Less(t, l)
  BY <1>2, LessTotal
<1> QED BY <1>1, <1>2

-----------------------------------------------------------------------------
(* The leaf and the tweak *)

(* A length in four bytes. *)
LEMMA FourBytes == \A n \in Nat :
  /\ n % 256 \in Nat /\ (n \div 256) % 256 \in Nat /\ (n \div 65536) % 256 \in Nat
  /\ n \div 16777216 \in Nat /\ n \div 256 \in Nat
  /\ n = (n % 256) + 256 * (n \div 256)
  /\ n = (n % 256) + 256 * ((n \div 256) % 256)
         + 65536 * ((n \div 65536) % 256) + 16777216 * (n \div 16777216)
BY SMT

(* The length at the head of a leaf can be read again. *)
LEMMA CompactSizeIs ==
  ASSUME NEW n \in Nat
  PROVE  /\ n < 253 => CompactSize(n) = <<n>>
         /\ 253 <= n /\ n <= 65535 => CompactSize(n) = <<253, n % 256, n \div 256>>
         /\ n > 65535 => CompactSize(n) = <<254, n % 256, (n \div 256) % 256,
                                           (n \div 65536) % 256, n \div 16777216>>
<1>1. ASSUME n < 253 PROVE CompactSize(n) = <<n>>
  BY <1>1, SMT DEF CompactSize
<1>2. ASSUME 253 <= n, n <= 65535
      PROVE  CompactSize(n) = <<253, n % 256, n \div 256>>
  BY <1>2, SMT DEF CompactSize
<1>3. ASSUME n > 65535
      PROVE  CompactSize(n) = <<254, n % 256, (n \div 256) % 256,
                                (n \div 65536) % 256, n \div 16777216>>
  BY <1>3, SMT DEF CompactSize
<1> QED BY <1>1, <1>2, <1>3, SMT

(* Behind its header, what is hashed is the script. *)
LEMMA LeafReads ==
  ASSUME NEW s \in Seq(Byte), NEW data, data = LeafHash(s)[2],
         NEW header, header = LeafHeader(data)
  PROVE  /\ Len(data) = header.size + header.length
         /\ SubSeq(data, header.size + 1, Len(data)) = s
<1>1. PICK n, c, front : n = Len(s) /\ c = CompactSize(n) /\ front = <<LeafVersion>> \o c
  OBVIOUS
<1>2. n \in Nat /\ s \in Seq(Nat)
  <2>1. Byte \subseteq Nat
    BY ByteIs
  <2>2. s \in Seq(Nat)
    BY <2>1, SeqMonotonic
  <2> QED BY <1>1, <2>2
<1>3. data = front \o s
  BY <1>1 DEF LeafHash, TaggedHash
<1>4. PICK h : h = Len(front)
  OBVIOUS
<1>5. /\ c \in Seq(Nat) /\ Len(c) \in {1, 3, 5} /\ h = Len(c) + 1
      /\ front \in Seq(Nat) /\ \A i \in 1 .. Len(c) : front[i + 1] = c[i]
  <2>1. c \in Seq(Nat) /\ Len(c) \in {1, 3, 5}
    <3>1. CASE n < 253
      <4>1. c = <<n>>
        BY <1>1, <1>2, <3>1, CompactSizeIs, SMT
      <4> QED BY <1>2, <4>1
    <3>2. CASE 253 <= n /\ n <= 65535
      <4>1. PICK x, y : x = n % 256 /\ y = n \div 256
        OBVIOUS
      <4>2. x \in Nat /\ y \in Nat
        BY <1>2, <4>1, FourBytes
      <4>3. c = <<253, x, y>>
        BY <1>1, <1>2, <3>2, <4>1, CompactSizeIs, SMT
      <4> QED BY <4>2, <4>3
    <3>3. CASE n > 65535
      <4>1. PICK x, y, z, w : /\ x = n % 256 /\ y = (n \div 256) % 256
                              /\ z = (n \div 65536) % 256 /\ w = n \div 16777216
        OBVIOUS
      <4>2. x \in Nat /\ y \in Nat /\ z \in Nat /\ w \in Nat
        BY <1>2, <4>1, FourBytes, SMT
      <4>3. c = <<254, x, y, z, w>>
        BY <1>1, <1>2, <3>3, <4>1, CompactSizeIs, SMT
      <4> QED BY <4>2, <4>3
    <3> QED BY <1>2, <3>1, <3>2, <3>3, SMT
  <2>2. PICK v : v = <<LeafVersion>>
    OBVIOUS
  <2>3. v \in Seq(Nat) /\ Len(v) = 1
    BY <2>2 DEF LeafVersion
  <2>4. /\ front \in Seq(Nat) /\ Len(front) = 1 + Len(c)
        /\ \A i \in 1 .. Len(c) : front[i + 1] = c[i]
    BY <1>1, <2>1, <2>2, <2>3
  <2> QED BY <1>4, <2>1, <2>4
<1>6. /\ data \in Seq(Nat) /\ Len(data) = h + n
      /\ \A i \in 1 .. h : data[i] = front[i]
      /\ \A i \in 1 .. n : data[h + i] = s[i]
  BY <1>1, <1>2, <1>3, <1>4, <1>5
<1>7. \A i \in 1 .. Len(c) : data[i + 1] = c[i]
  <2> TAKE i \in 1 .. Len(c)
  <2>1. i + 1 \in 1 .. h
    BY <1>5
  <2> QED BY <1>5, <1>6, <2>1, Zenon
<1>8. header.size = h /\ header.length = n
  <2>1. CASE n < 253
    <3>1. c = <<n>>
      BY <1>1, <1>2, <2>1, CompactSizeIs, SMT
    <3>2. data[2] = n
      BY <1>7, <3>1
    <3>3. header = [size |-> 2, length |-> data[2]]
      BY <1>2, <2>1, <3>2 DEF LeafHeader
    <3> QED BY <1>5, <3>1, <3>2, <3>3
  <2>2. CASE 253 <= n /\ n <= 65535
    <3>1. PICK x, y : x = n % 256 /\ y = n \div 256
      OBVIOUS
    <3>2. n = x + 256 * y
      BY <1>2, <3>1, FourBytes, SMT
    <3>3. c = <<253, x, y>>
      BY <1>1, <1>2, <2>2, <3>1, CompactSizeIs, SMT
    <3>4. data[2] = 253 /\ data[3] = x /\ data[4] = y
      BY <1>7, <3>3
    <3>5. header = [size |-> 4, length |-> data[3] + 256 * data[4]]
      BY <3>4 DEF LeafHeader
    <3> QED BY <1>5, <3>2, <3>3, <3>4, <3>5
  <2>3. CASE n > 65535
    <3>1. PICK x, y, z, w : /\ x = n % 256 /\ y = (n \div 256) % 256
                            /\ z = (n \div 65536) % 256 /\ w = n \div 16777216
      OBVIOUS
    <3>2. n = x + 256 * y + 65536 * z + 16777216 * w
      BY <1>2, <3>1, FourBytes, SMT
    <3>3. c = <<254, x, y, z, w>>
      BY <1>1, <1>2, <2>3, <3>1, CompactSizeIs, SMT
    <3>4. data[2] = 254 /\ data[3] = x /\ data[4] = y /\ data[5] = z /\ data[6] = w
      BY <1>7, <3>3, SMT
    <3>5. header = [size |-> 6, length |-> data[3] + 256 * data[4]
                                         + 65536 * data[5] + 16777216 * data[6]]
      BY <3>4, SMT DEF LeafHeader
    <3>6. header.size = 6 /\ header.length = x + 256 * y + 65536 * z + 16777216 * w
      BY <3>4, <3>5, SMT
    <3>7. h = 6
      BY <1>5, <3>3
    <3> QED BY <3>2, <3>6, <3>7, SMT
  <2> QED BY <1>2, <2>1, <2>2, <2>3, SMT
<1>9. SubSeq(data, h + 1, h + n) = s
  <2>1. PICK t, a, b : t = SubSeq(data, a, b) /\ a = h + 1 /\ b = h + n
    OBVIOUS
  <2>2. h \in Nat
    BY <1>5
  <2>3. a \in Int /\ b \in Int /\ b - a + 1 = n /\ \A i \in a .. b : data[i] \in Nat
    BY <1>2, <1>6, <2>1, <2>2
  <2>4. /\ t \in Seq(Nat)
        /\ Len(t) = IF a <= b THEN b - a + 1 ELSE 0
        /\ \A i \in 1 .. b - a + 1 : t[i] = data[a + i - 1]
    BY <2>1, <2>3, SubSeqProperties
  <2>5. Len(t) = n
    BY <1>2, <2>3, <2>4
  <2>6. \A i \in 1 .. n : t[i] = s[i]
    <3> TAKE i \in 1 .. n
    <3>1. a + i - 1 = h + i
      BY <2>1, <2>2
    <3> QED BY <1>6, <2>3, <2>4, <3>1
  <2> QED BY <1>1, <1>2, <2>1, <2>5, <2>4, <2>6, SeqEqual
<1> QED BY <1>6, <1>8, <1>9

-----------------------------------------------------------------------------
(* The script of an output *)

(* A key is bytes, and its hash twenty of them. *)
LEMMA HashType ==
  ASSUME NEW key \in Pubkeys, ValidPubkey(key)
  PROVE  key \in Seq(Byte) /\ Hash160(key) \in Seq(Byte) /\ Len(Hash160(key)) = 20
<1>1. key \in Seq(Byte) /\ Len(key) = 33
  BY KeysAssumption DEF ValidPubkey
<1>2. \A i \in 1 .. 20 : key[i] \in Byte
  <2> TAKE i \in 1 .. 20
  <2>1. i \in 1 .. Len(key)
    BY <1>1
  <2> QED BY <1>1, <2>1, ElementOfSeq
<1> QED BY <1>1, <1>2, SubSeqProperties DEF Hash160

(* Where its opcodes are. *)
CltvLayout(code, t, key) ==
    LET n == Len(PushNumber(t)) IN
    /\ code \in Seq(Byte) /\ n \in Nat \ {0} /\ Len(code) = n + 27
    /\ Lies(code, 1, PushNumber(t))
    /\ code[n + 1] = 177 /\ code[n + 2] = 117 /\ code[n + 3] = 118 /\ code[n + 4] = 169
    /\ Lies(code, n + 5, PushBytes(Hash160(key))) /\ Len(PushBytes(Hash160(key))) = 21
    /\ code[n + 26] = 136 /\ code[n + 27] = 172

(* The builder lays the script out so. *)
LEMMA CltvIs ==
  ASSUME NEW t \in Number, Len(t.bytes) < MaxPush, NEW key \in Pubkeys, ValidPubkey(key)
  PROVE  CltvLayout(CltvScript(t, key), t, key)
<1>1. PICK p, a, h, q, z, s1, s2, code, n :
        /\ p = PushNumber(t) /\ a = <<177, 117, 118, 169>>
        /\ h = Hash160(key) /\ q = PushBytes(h) /\ z = <<136, 172>>
        /\ s1 = p \o a /\ s2 = s1 \o q /\ code = s2 \o z /\ n = Len(p)
  OBVIOUS
<1>2. code = CltvScript(t, key)
  BY <1>1, Zenon DEF CltvScript, OpCltv, OpDrop, OpDup, OpHash160, OpEqualVerify, OpCheckSig
<1>3. p \in Seq(Byte) /\ n \in Nat \ {0}
  <2>1. PICK x : x = [kind |-> "number", value |-> t]
    OBVIOUS
  <2>2. x \in Pushable /\ x.kind # "data" /\ x.value = t
    BY <2>1 DEF Pushable
  <2>3. Piece(x) = p
    BY <1>1, <2>2, Zenon DEF Piece
  <2> QED BY <1>1, <2>2, <2>3, PieceType
<1>4. /\ a \in Seq(Byte) /\ Len(a) = 4 /\ z \in Seq(Byte) /\ Len(z) = 2
      /\ a[1] = 177 /\ a[2] = 117 /\ a[3] = 118 /\ a[4] = 169
      /\ z[1] = 136 /\ z[2] = 172
  <2>1. 177 \in Byte /\ 117 \in Byte /\ 118 \in Byte /\ 169 \in Byte
        /\ 136 \in Byte /\ 172 \in Byte
    BY ByteIs
  <2> QED BY <1>1, <2>1
<1>5. q \in Seq(Byte) /\ Len(q) = 21
  <2>1. h \in Seq(Byte) /\ Len(h) = 20
    BY <1>1, HashType
  <2>2. 20 <= MaxPush
    BY SMT DEF MaxPush
  <2>3. HeadFor(20) = <<20>>
    BY DEF HeadFor
  <2>4. PushBytes(h) \in Seq(Byte) /\ Len(PushBytes(h)) = Len(HeadFor(20)) + 20
    BY <2>1, <2>2, PushBytesIs
  <2>5. Len(HeadFor(20)) + 20 = 21
    <3>1. Len(<<20>>) + 20 = 21
      OBVIOUS
    <3> QED BY <2>3, <3>1
  <2>6. q = PushBytes(h)
    BY <1>1
  <2> QED BY <2>4, <2>5, <2>6
<1>6. /\ s1 \in Seq(Byte) /\ Len(s1) = n + 4
      /\ \A i \in 1 .. n : s1[i] = p[i]
      /\ \A i \in 1 .. 4 : s1[n + i] = a[i]
  BY <1>1, <1>3, <1>4
<1>7. /\ s2 \in Seq(Byte) /\ Len(s2) = n + 25
      /\ \A i \in 1 .. n + 4 : s2[i] = s1[i]
      /\ \A i \in 1 .. 21 : s2[n + 4 + i] = q[i]
  <2>1. PICK l, m : l = Len(s1) /\ m = Len(q)
    OBVIOUS
  <2>2. s1 \in Seq(Byte) /\ q \in Seq(Byte) /\ s2 = s1 \o q
    BY <1>1, <1>5, <1>6
  <2>3. /\ s2 \in Seq(Byte) /\ Len(s2) = l + m
        /\ \A i \in 1 .. l : s2[i] = s1[i]
        /\ \A i \in 1 .. m : s2[l + i] = q[i]
    BY <2>1, <2>2
  <2>4. l = n + 4 /\ m = 21 /\ l + m = n + 25
    BY <1>3, <1>5, <1>6, <2>1
  <2> QED BY <2>3, <2>4
<1>8. /\ code \in Seq(Byte) /\ Len(code) = n + 27
      /\ \A i \in 1 .. n + 25 : code[i] = s2[i]
      /\ \A i \in 1 .. 2 : code[n + 25 + i] = z[i]
  <2>1. PICK l, m : l = Len(s2) /\ m = Len(z)
    OBVIOUS
  <2>2. s2 \in Seq(Byte) /\ z \in Seq(Byte) /\ code = s2 \o z
    BY <1>1, <1>4, <1>7
  <2>3. /\ code \in Seq(Byte) /\ Len(code) = l + m
        /\ \A i \in 1 .. l : code[i] = s2[i]
        /\ \A i \in 1 .. m : code[l + i] = z[i]
    BY <2>1, <2>2
  <2>4. l = n + 25 /\ m = 2 /\ l + m = n + 27
    BY <1>3, <1>4, <1>7, <2>1
  <2> QED BY <2>3, <2>4
<1>9. Lies(code, 1, p)
  <2>1. \A j \in 1 .. n : code[1 + j - 1] = p[j]
    <3> TAKE j \in 1 .. n
    <3>1. j \in 1 .. n + 4 /\ j \in 1 .. n + 25 /\ 1 + j - 1 = j
      BY <1>3
    <3> QED BY <1>6, <1>7, <1>8, <3>1
  <2>2. 1 + n - 1 <= Len(code)
    BY <1>3, <1>8
  <2> QED BY <1>1, <2>1, <2>2 DEF Lies
<1>10. Lies(code, n + 5, q)
  <2>1. \A j \in 1 .. 21 : code[n + 5 + j - 1] = q[j]
    <3> TAKE j \in 1 .. 21
    <3>1. n + 4 + j \in 1 .. n + 25 /\ n + 5 + j - 1 = n + 4 + j
      BY <1>3
    <3> QED BY <1>7, <1>8, <3>1
  <2>2. n + 5 + 21 - 1 <= Len(code)
    BY <1>3, <1>8
  <2> QED BY <1>5, <2>1, <2>2 DEF Lies
<1>11. /\ code[n + 1] = 177 /\ code[n + 2] = 117
       /\ code[n + 3] = 118 /\ code[n + 4] = 169
  <2>1. \A i \in 1 .. 4 : code[n + i] = a[i]
    <3> TAKE i \in 1 .. 4
    <3>1. n + i \in 1 .. n + 4 /\ n + i \in 1 .. n + 25
      BY <1>3
    <3> QED BY <1>6, <1>7, <1>8, <3>1
  <2> QED BY <1>4, <2>1
<1>12. code[n + 26] = 136 /\ code[n + 27] = 172
  <2>1. n + 25 + 1 = n + 26 /\ n + 25 + 2 = n + 27
    BY <1>3
  <2> QED BY <1>4, <1>8, <2>1
<1>13. CltvLayout(code, t, key)
  <2>1. p = PushNumber(t) /\ n = Len(PushNumber(t)) /\ q = PushBytes(Hash160(key))
    BY <1>1
  <2> QED BY <1>3, <1>5, <1>8, <1>9, <1>10, <1>11, <1>12, <2>1 DEF CltvLayout
<1> QED BY <1>2, <1>13

(* Scripts for other terms are other bytes. *)
LEMMA CltvDiffers ==
  ASSUME NEW t \in Number, Len(t.bytes) < MaxPush, NEW key \in Pubkeys, ValidPubkey(key),
         NEW u \in Number, Len(u.bytes) < MaxPush, NEW k \in Pubkeys, ValidPubkey(k),
         CltvScript(t, key) = CltvScript(u, k)
  PROVE  t = u /\ key = k
<1>1. PICK code : code = CltvScript(t, key)
  OBVIOUS
<1>2. CltvLayout(code, t, key) /\ CltvLayout(code, u, k)
  BY <1>1, CltvIs
<1>3. t = u
  BY <1>2, SameNumber DEF CltvLayout
<1>4. PICK n : n = Len(PushNumber(t))
  OBVIOUS
<1>5. /\ n \in Nat /\ code \in Seq(Byte)
      /\ Lies(code, n + 5, PushBytes(Hash160(key))) /\ Lies(code, n + 5, PushBytes(Hash160(k)))
  BY <1>2, <1>3, <1>4 DEF CltvLayout
<1>6. /\ Hash160(key) \in Seq(Byte) /\ Len(Hash160(key)) <= MaxPush
      /\ Hash160(k) \in Seq(Byte) /\ Len(Hash160(k)) <= MaxPush
  <2>1. 20 <= MaxPush
    BY SMT DEF MaxPush
  <2> QED BY <2>1, HashType
<1>7. PICK at : at = n + 5
  OBVIOUS
<1>8. at \in Nat \ {0}
  BY <1>5, <1>7
<1>9. ASSUME NEW d \in Seq(Byte), Len(d) <= MaxPush, Lies(code, at, PushBytes(d))
      PROVE  d = SubSeq(code, at + HeaderAt(code, at),
                        at + HeaderAt(code, at) + LengthAt(code, at) - 1)
  BY <1>5, <1>8, <1>9, BytesRead
<1>10. Hash160(key) = Hash160(k)
  BY <1>5, <1>6, <1>7, <1>9
<1> QED BY <1>3, <1>10, HashAssumption

(* So are their leaves and tweaks. *)
LEMMA TweakDiffers ==
  ASSUME NEW t \in Number, Len(t.bytes) < MaxPush, NEW key \in Pubkeys, ValidPubkey(key),
         NEW u \in Number, Len(u.bytes) < MaxPush, NEW k \in Pubkeys, ValidPubkey(k),
         CollateralOutput(key, t).tweak = CollateralOutput(k, u).tweak
  PROVE  t = u /\ key = k
<1>1. PICK s, r : s = CltvScript(t, key) /\ r = CltvScript(u, k)
  OBVIOUS
<1>2. s \in Seq(Byte) /\ r \in Seq(Byte)
  BY <1>1, CltvIs DEF CltvLayout
<1>3. TaprootTweak(NumsXonly, LeafHash(s)) = TaprootTweak(NumsXonly, LeafHash(r))
  BY <1>1 DEF CollateralOutput
<1>4. LeafHash(s) = LeafHash(r)
  BY <1>3 DEF TaprootTweak, TaggedHash
<1>5. PICK data, header : data = LeafHash(s)[2] /\ header = LeafHeader(data)
  OBVIOUS
<1>6. SubSeq(data, header.size + 1, Len(data)) = s
  BY <1>2, <1>5, LeafReads
<1>7. SubSeq(data, header.size + 1, Len(data)) = r
  BY <1>2, <1>4, <1>5, LeafReads
<1>8. CltvScript(t, key) = CltvScript(u, k)
  BY <1>1, <1>6, <1>7
<1> QED BY <1>8, CltvDiffers

-----------------------------------------------------------------------------
(* A step of the node *)

(* The node goes on. *)
LEMMA ContinueIs ==
  ASSUME eval \in Evaluation, NEW s \in Seq(Seq(Byte)), NEW n \in Nat, Continue(s, n)
  PROVE  /\ eval' \in Evaluation
         /\ eval'.stack = s /\ eval'.at = eval.at + n
         /\ eval'.of = eval.of /\ eval'.key = eval.key /\ eval'.signer = eval.signer
         /\ eval'.locktime = eval.locktime /\ eval'.final = eval.final
         /\ eval'.verdict = eval.verdict
         /\ UNCHANGED <<buildVars, now>>
<1>1. /\ eval' = [eval EXCEPT !.stack = s, !.at = eval.at + n]
      /\ UNCHANGED <<buildVars, now>>
  BY Zenon DEF Continue
<1>2. eval.at + n \in Nat \ {0}
  BY DEF Evaluation
<1>3. PICK a : a = eval.at + n
  OBVIOUS
<1> QED BY <1>1, <1>2, <1>3 DEF Evaluation

(* The node comes to a verdict. *)
LEMMA VerdictIs ==
  ASSUME eval \in Evaluation, NEW v \in {"running", "accepted", "rejected"}, Verdict(v)
  PROVE  /\ eval' \in Evaluation
         /\ eval'.stack = eval.stack /\ eval'.at = eval.at
         /\ eval'.of = eval.of /\ eval'.key = eval.key /\ eval'.signer = eval.signer
         /\ eval'.locktime = eval.locktime /\ eval'.final = eval.final
         /\ eval'.verdict = v
         /\ UNCHANGED <<buildVars, now>>
BY DEF Verdict, Evaluation

(* Which opcodes do what. *)
LEMMA Dispatch ==
  ASSUME Running, Evaluate, Code \in Seq(Byte)
  PROVE  /\ Op \in Nat
         /\ \/ Push /\ Op <= 77
            \/ PushSmall /\ 81 <= Op /\ Op <= 96
            \/ CheckLockTime /\ Op = 177
            \/ Drop /\ Op = 117
            \/ Dup /\ Op = 118
            \/ Hash /\ Op = 169
            \/ EqualVerify /\ Op = 136
            \/ CheckSig /\ Op = 172
            \/ Fail
<1>1. eval.at \in 1 .. Len(Code)
  BY DEF Running
<1>2. Op \in Byte
  BY <1>1, ElementOfSeq DEF Op
<1>3. Op \in Nat
  BY <1>2, ByteIs
<1>4. CASE Push
  BY <1>4, <1>3 DEF Push, CanPush, OpPushData2
<1>5. CASE PushSmall
  <2>1. Op \in Op1 .. Op1 + 15
    BY <1>5 DEF PushSmall, CanPushSmall
  <2>2. 81 <= Op /\ Op <= 96
    BY <2>1 DEF Op1
  <2> QED BY <1>3, <1>5, <2>2
<1>6. CASE CheckLockTime
  <2>1. Op = 177
    BY <1>6, Zenon DEF CheckLockTime, CanCheckLockTime, OpCltv
  <2> QED BY <1>3, <1>6, <2>1
<1>7. CASE Drop
  <2>1. Op = 117
    BY <1>7, Zenon DEF Drop, CanDrop, OpDrop
  <2> QED BY <1>3, <1>7, <2>1
<1>8. CASE Dup
  <2>1. Op = 118
    BY <1>8, Zenon DEF Dup, CanDup, OpDup
  <2> QED BY <1>3, <1>8, <2>1
<1>9. CASE Hash
  <2>1. Op = 169
    BY <1>9, Zenon DEF Hash, CanHash, OpHash160
  <2> QED BY <1>3, <1>9, <2>1
<1>10. CASE EqualVerify
  <2>1. Op = 136
    BY <1>10, Zenon DEF EqualVerify, CanVerifyEqual, OpEqualVerify
  <2> QED BY <1>3, <1>10, <2>1
<1>11. CASE CheckSig
  <2>1. Op = 172
    BY <1>11, Zenon DEF CheckSig, CanCheckSig, OpCheckSig
  <2> QED BY <1>3, <1>11, <2>1
<1>12. CASE Fail
  BY <1>3, <1>12
<1>13. CASE Finish
  <2>1. eval.at > Len(Code)
    BY <1>13 DEF Finish
  <2> QED BY <1>1, <2>1
<1> QED BY <1>4, <1>5, <1>6, <1>7, <1>8, <1>9, <1>10, <1>11, <1>12, <1>13 DEF Evaluate

(* OP_CHECKLOCKTIMEVERIFY lets pass or rejects. *)
LEMMA LockStep ==
  ASSUME Running, Evaluate, Code \in Seq(Byte), Op = 177
  PROVE  \/ CanCheckLockTime /\ Continue(eval.stack, 1)
         \/ ~CanCheckLockTime /\ Verdict("rejected")
<1>1. CheckLockTime \/ Fail
  BY Dispatch
<1> QED BY <1>1, Zenon DEF CheckLockTime, Fail

(* OP_DROP. *)
LEMMA DropStep ==
  ASSUME Running, Evaluate, Code \in Seq(Byte), Op = 117, Depth >= 1
  PROVE  Continue(Below(1), 1)
<1>1. Drop \/ Fail
  BY Dispatch
<1>2. CanDrop
  BY Zenon DEF CanDrop, OpDrop
<1> QED BY <1>1, <1>2, Zenon DEF Drop, Fail

(* OP_DUP. *)
LEMMA DupStep ==
  ASSUME Running, Evaluate, Code \in Seq(Byte), Op = 118, Depth >= 1
  PROVE  Continue(Append(eval.stack, Top), 1)
<1>1. Dup \/ Fail
  BY Dispatch
<1>2. CanDup
  BY Zenon DEF CanDup, OpDup
<1> QED BY <1>1, <1>2, Zenon DEF Dup, Fail

(* OP_HASH160. *)
LEMMA HashStep ==
  ASSUME Running, Evaluate, Code \in Seq(Byte), Op = 169, Depth >= 1
  PROVE  Continue(Append(Below(1), Hash160(Top)), 1)
<1>1. Hash \/ Fail
  BY Dispatch
<1>2. CanHash
  BY Zenon DEF CanHash, OpHash160
<1> QED BY <1>1, <1>2, Zenon DEF Hash, Fail

(* OP_EQUALVERIFY goes on if both are equal, or rejects. *)
LEMMA EqualStep ==
  ASSUME Running, Evaluate, Code \in Seq(Byte), Op = 136, Depth >= 2
  PROVE  \/ Top = Second /\ Continue(Below(2), 1)
         \/ Top # Second /\ Verdict("rejected")
<1>1. EqualVerify \/ Fail
  BY Dispatch
<1>2. CASE Top = Second
  <2>1. CanVerifyEqual
    BY <1>2, Zenon DEF CanVerifyEqual, OpEqualVerify
  <2> QED BY <1>1, <1>2, <2>1, Zenon DEF EqualVerify, Fail
<1>3. CASE Top # Second
  <2>1. ~CanVerifyEqual
    BY <1>3, Zenon DEF CanVerifyEqual
  <2> QED BY <1>1, <1>3, <2>1, Zenon DEF EqualVerify, Fail
<1> QED BY <1>2, <1>3

(* OP_CHECKSIG. *)
LEMMA SigStep ==
  ASSUME Running, Evaluate, Code \in Seq(Byte), Op = 172, Depth >= 2
  PROVE  Continue(Append(Below(2), IF Second = Sig(Top) THEN <<1>> ELSE <<>>), 1)
<1>1. CheckSig \/ Fail
  BY Dispatch
<1>2. CanCheckSig
  BY Zenon DEF CanCheckSig, OpCheckSig
<1> QED BY <1>1, <1>2, Zenon DEF CheckSig, Fail

(* The push of data puts these on the stack. *)
LEMMA BytesStep ==
  ASSUME Running, Evaluate, Code \in Seq(Byte), eval.at \in Nat \ {0},
         NEW data \in Seq(Byte), Len(data) <= MaxPush, Lies(Code, eval.at, PushBytes(data))
  PROVE  Continue(Append(eval.stack, data), Len(PushBytes(data)))
<1>1. PICK code, at : code = Code /\ at = eval.at
  OBVIOUS
<1>2. /\ code[at] <= OpPushData2
      /\ HeaderAt(code, at) \in 1 .. 3 /\ LengthAt(code, at) = Len(data)
      /\ at + HeaderAt(code, at) + LengthAt(code, at) - 1 <= Len(code)
      /\ HeaderAt(code, at) + LengthAt(code, at) = Len(PushBytes(data))
      /\ SubSeq(code, at + HeaderAt(code, at),
                at + HeaderAt(code, at) + LengthAt(code, at) - 1) = data
  BY <1>1, BytesRead
<1>3. Header = HeaderAt(code, at) /\ Length = LengthAt(code, at)
  BY <1>1, Zenon DEF Header, Length, HeaderAt, LengthAt, Op
<1>4. PICK h, l : h = Header /\ l = Length
  OBVIOUS
<1>5. /\ h \in 1 .. 3 /\ l \in Nat /\ l = Len(data)
      /\ at + h + l - 1 <= Len(code) /\ h + l = Len(PushBytes(data))
      /\ SubSeq(code, at + h, at + h + l - 1) = data
  BY <1>2, <1>3, <1>4
<1>6. Op <= 77 /\ Op = code[at]
  BY <1>1, <1>2 DEF Op, OpPushData2
<1>7. at + h - 1 <= Len(code)
  <2>1. Len(code) \in Nat /\ at \in Nat
    BY <1>1
  <2> QED BY <1>5, <2>1
<1>8. CanPush
  <2>1. Op <= OpPushData2
    BY <1>6 DEF OpPushData2
  <2> QED BY <1>1, <1>4, <1>5, <1>7, <2>1, Zenon DEF CanPush
<1>9. Push \/ Fail
  BY <1>6, Dispatch
<1>10. Push
  BY <1>8, <1>9, Zenon DEF Fail
<1>11. Continue(Append(eval.stack, SubSeq(code, at + h, at + h + l - 1)), h + l)
  BY <1>1, <1>4, <1>10, Zenon DEF Push
<1> QED BY <1>5, <1>11, Zenon

(* So does any push. *)
LEMMA PieceStep ==
  ASSUME Running, Evaluate, Code \in Seq(Byte), eval.at \in Nat \ {0},
         NEW x \in Pushable, Lies(Code, eval.at, Piece(x))
  PROVE  Continue(Append(eval.stack, Item(x)), Len(Piece(x)))
<1>1. CASE x.kind = "data"
  <2>1. x.value \in Seq(Byte) /\ Len(x.value) <= MaxPush
    BY <1>1 DEF Pushable
  <2>2. Piece(x) = PushBytes(x.value) /\ Item(x) = x.value
    BY <1>1, Zenon DEF Piece, Item
  <2> QED BY <2>1, <2>2, BytesStep
<1>2. CASE x.kind = "number"
  <2>1. x.value \in Number /\ Len(x.value.bytes) < MaxPush
    BY <1>2, Zenon DEF Pushable
  <2>2. PICK n : n = x.value
    OBVIOUS
  <2>3. Piece(x) = PushNumber(n) /\ Item(x) = EncodeScriptNumber(n)
    BY <1>2, <2>2, Zenon DEF Piece, Item
  <2>4. /\ EncodeScriptNumber(n) \in Seq(Byte) /\ Len(EncodeScriptNumber(n)) <= MaxPush
        /\ \/ PushNumber(n) = PushBytes(EncodeScriptNumber(n))
           \/ \E b \in 1 .. 16 : PushNumber(n) = <<80 + b>> /\ EncodeScriptNumber(n) = <<b>>
    BY <2>1, <2>2, PushNumberIs
  <2>5. CASE PushNumber(n) = PushBytes(EncodeScriptNumber(n))
    BY <2>3, <2>4, <2>5, BytesStep
  <2>6. CASE \E b \in 1 .. 16 : PushNumber(n) = <<80 + b>> /\ EncodeScriptNumber(n) = <<b>>
    <3>1. PICK b \in 1 .. 16 : PushNumber(n) = <<80 + b>> /\ EncodeScriptNumber(n) = <<b>>
      BY <2>6
    <3>2. PICK piece : piece = <<80 + b>>
      OBVIOUS
    <3>3. Len(piece) = 1 /\ piece[1] = 80 + b
      BY <3>2
    <3>4. Op = 80 + b
      <4>1. \A j \in 1 .. Len(piece) : Code[eval.at + j - 1] = piece[j]
        BY <2>3, <3>1, <3>2 DEF Lies
      <4>2. Code[eval.at + 1 - 1] = 80 + b
        BY <3>3, <4>1
      <4> QED BY <4>2 DEF Op
    <3>5. PushSmall \/ Fail
      BY <3>4, Dispatch
    <3>6. CanPushSmall
      BY <3>4 DEF CanPushSmall, Op1
    <3>7. Continue(Append(eval.stack, <<Op - 80>>), 1)
      BY <3>5, <3>6, Zenon DEF PushSmall, Fail
    <3>8. Op - 80 = b
      BY <3>4
    <3> QED BY <2>3, <3>1, <3>2, <3>3, <3>7, <3>8
  <2> QED BY <2>4, <2>5, <2>6
<1> QED BY <1>1, <1>2 DEF Pushable

-----------------------------------------------------------------------------
(* The script of some pushes *)

(* s is the pushes of items; LaidOut says it of script and pushed. *)
LaidAs(items, s) ==
    /\ Len(s) = EndOf(items, Len(items))
    /\ \A i \in DOMAIN items :
         /\ EndOf(items, i) <= Len(s)
         /\ \A j \in DOMAIN Piece(items[i]) :
              s[EndOf(items, i - 1) + j] = Piece(items[i])[j]

(* Ranges are finite. *)
LEMMA FirstFinite == \A k \in Int : IsFiniteSet(1 .. k)
<1>1. 1 \in Int
  OBVIOUS
<1> QED BY <1>1, FS_Interval

(* Each push ends behind the one before it. *)
LEMMA EndIs ==
  ASSUME NEW items \in Seq(Pushable)
  PROVE  /\ EndOf(items, 0) = 0
         /\ \A k \in 0 .. Len(items) : EndOf(items, k) \in Nat
         /\ \A k \in 1 .. Len(items) :
              EndOf(items, k) = EndOf(items, k - 1) + Len(Piece(items[k]))
<1>1. PICK f, n : f = [i \in DOMAIN items |-> Len(Piece(items[i]))] /\ n = Len(items)
  OBVIOUS
<1>2. n \in Nat /\ DOMAIN items = 1 .. n
  BY <1>1
<1>3. \A i \in 1 .. n : f[i] \in Nat /\ f[i] = Len(Piece(items[i]))
  <2> TAKE i \in 1 .. n
  <2>1. items[i] \in Pushable
    BY <1>1, <1>2, ElementOfSeq
  <2> QED BY <1>1, <1>2, <2>1, PieceType
<1>4. \A k : EndOf(items, k) = SumFunctionOnSet(f, 1 .. k)
  BY <1>1, Zenon DEF EndOf
<1>5. EndOf(items, 0) = 0
  <2>1. 1 .. 0 = {}
    OBVIOUS
  <2> QED BY <1>4, <2>1, SumOfNothing
<1>6. \A k \in 0 .. n : EndOf(items, k) \in Nat
  <2> TAKE k \in 0 .. n
  <2>1. \A x \in 1 .. k : f[x] \in Nat
    BY <1>2, <1>3
  <2>2. IsFiniteSet(1 .. k)
    BY FirstFinite
  <2> QED BY <1>4, <2>1, <2>2, SumIsNatural
<1>7. \A k \in 1 .. n : EndOf(items, k) = EndOf(items, k - 1) + Len(Piece(items[k]))
  <2> TAKE k \in 1 .. n
  <2>1. PICK S : S = 1 .. k - 1
    OBVIOUS
  <2>2. IsFiniteSet(S) /\ k \notin S /\ S \cup {k} = 1 .. k
    <3>1. k - 1 \in Int
      BY <1>2
    <3>2. IsFiniteSet(S)
      BY <2>1, <3>1, FirstFinite
    <3>3. k \notin S /\ S \cup {k} = 1 .. k
      BY <1>2, <2>1
    <3> QED BY <3>2, <3>3
  <2>3. \A x \in S \cup {k} : f[x] \in Int
    BY <1>2, <1>3, <2>2
  <2>4. SumFunctionOnSet(f, S \cup {k}) = f[k] + SumFunctionOnSet(f, S)
    BY <2>2, <2>3, SumPutsIn
  <2>5. EndOf(items, k) = f[k] + EndOf(items, k - 1)
    BY <1>4, <2>1, <2>2, <2>4, Zenon
  <2>6. k - 1 \in 0 .. n
    BY <1>2
  <2>7. f[k] = Len(Piece(items[k])) /\ f[k] \in Nat /\ EndOf(items, k - 1) \in Nat
    BY <1>3, <1>6, <2>6
  <2>8. PICK e, d : e = EndOf(items, k - 1) /\ d = Len(Piece(items[k]))
    OBVIOUS
  <2>9. d + e = e + d
    BY <2>7, <2>8
  <2> QED BY <2>5, <2>7, <2>8, <2>9, Zenon
<1> QED BY <1>1, <1>5, <1>6, <1>7

(* A push more does not move the ends of those before it. *)
LEMMA EndSame ==
  ASSUME NEW items \in Seq(Pushable), NEW x \in Pushable, NEW k \in 0 .. Len(items)
  PROVE  EndOf(Append(items, x), k) = EndOf(items, k)
<1>1. PICK f, g, more : /\ f = [i \in DOMAIN items |-> Len(Piece(items[i]))]
                        /\ more = Append(items, x)
                        /\ g = [i \in DOMAIN more |-> Len(Piece(more[i]))]
  OBVIOUS
<1>2. /\ 1 .. k \subseteq DOMAIN items /\ 1 .. k \subseteq DOMAIN more
      /\ \A i \in 1 .. k : more[i] = items[i]
  BY <1>1
<1>3. \A i \in 1 .. k : g[i] = f[i]
  BY <1>1, <1>2
<1>4. SumFunctionOnSet(g, 1 .. k) = SumFunctionOnSet(f, 1 .. k)
  <2>1. IsFiniteSet(1 .. k)
    BY FirstFinite
  <2> QED BY <1>3, <2>1, SumAgrees
<1> QED BY <1>1, <1>4, Zenon DEF EndOf

(* Another push behind the others. *)
LEMMA LaidOn ==
  ASSUME NEW items \in Seq(Pushable), NEW s \in Seq(Byte), LaidAs(items, s),
         NEW x \in Pushable
  PROVE  LaidAs(Append(items, x), s \o Piece(x))
<1>1. PICK n, more, p, t, k, l : /\ n = Len(items) /\ more = Append(items, x)
                                 /\ p = Piece(x) /\ t = s \o p
                                 /\ k = Len(s) /\ l = Len(p)
  OBVIOUS
<1>2. /\ n \in Nat /\ more \in Seq(Pushable) /\ Len(more) = n + 1
      /\ more[n + 1] = x /\ \A i \in 1 .. n : more[i] = items[i]
      /\ DOMAIN more = 1 .. n + 1 /\ DOMAIN items = 1 .. n
  BY <1>1
<1>3. p \in Seq(Byte) /\ l \in Nat \ {0} /\ k \in Nat
  BY <1>1, PieceType
<1>4. /\ t \in Seq(Byte) /\ Len(t) = k + l
      /\ \A i \in 1 .. k : t[i] = s[i]
      /\ \A i \in 1 .. l : t[k + i] = p[i]
  BY <1>1, <1>3
<1>5. /\ EndOf(items, n) = k
      /\ \A i \in 1 .. n : EndOf(items, i) <= k
      /\ \A i \in 1 .. n : \A j \in DOMAIN Piece(items[i]) :
           s[EndOf(items, i - 1) + j] = Piece(items[i])[j]
  BY <1>1, <1>2 DEF LaidAs
<1>6. \A i \in 0 .. n : EndOf(more, i) = EndOf(items, i) /\ EndOf(items, i) \in Nat
  BY <1>1, EndSame, EndIs
<1>7. EndOf(more, n + 1) = k + l /\ EndOf(more, n) = k
  <2>1. PICK m : m = n + 1
    OBVIOUS
  <2>2. m \in 1 .. Len(more) /\ n \in 0 .. n /\ m - 1 = n
    BY <1>2, <2>1
  <2>3. EndOf(more, m) = EndOf(more, m - 1) + Len(Piece(more[m]))
    BY <1>2, <2>2, EndIs
  <2>4. EndOf(more, n) = k
    BY <1>5, <1>6, <2>2
  <2>5. Piece(more[m]) = p
    BY <1>1, <1>2, <2>1
  <2> QED BY <1>1, <2>1, <2>2, <2>3, <2>4, <2>5, Zenon
<1>8. \A i \in 1 .. n + 1 : EndOf(more, i) <= k + l
  <2> TAKE i \in 1 .. n + 1
  <2>1. CASE i = n + 1
    BY <1>3, <1>7, <2>1
  <2>2. CASE i # n + 1
    <3>1. i \in 1 .. n /\ i \in 0 .. n
      BY <1>2, <2>2
    <3> QED BY <1>3, <1>5, <1>6, <3>1
  <2> QED BY <2>1, <2>2
<1>9. \A i \in 1 .. n + 1 : \A j \in DOMAIN Piece(more[i]) :
        t[EndOf(more, i - 1) + j] = Piece(more[i])[j]
  <2> TAKE i \in 1 .. n + 1
  <2> TAKE j \in DOMAIN Piece(more[i])
  <2>1. CASE i = n + 1
    <3>1. Piece(more[i]) = p /\ i - 1 = n
      BY <1>1, <1>2, <2>1
    <3>2. j \in 1 .. l
      BY <1>1, <1>3, <3>1
    <3>3. t[k + j] = p[j]
      BY <1>4, <3>2
    <3> QED BY <1>7, <3>1, <3>3, Zenon
  <2>2. CASE i # n + 1
    <3>1. i \in 1 .. n /\ i - 1 \in 0 .. n
      BY <1>2, <2>2
    <3>2. items[i] \in Pushable /\ more[i] = items[i]
      BY <1>1, <1>2, <3>1, ElementOfSeq
    <3>3. PICK q, e, m : q = Piece(items[i]) /\ e = EndOf(items, i - 1) /\ m = Len(q)
      OBVIOUS
    <3>4. q \in Seq(Byte) /\ m \in Nat
      BY <3>2, <3>3, PieceType
    <3>5. j \in 1 .. m
      BY <3>2, <3>3, <3>4
    <3>6. e \in Nat /\ EndOf(items, i) = e + m /\ EndOf(more, i - 1) = e
      BY <1>1, <1>6, <3>1, <3>3, EndIs
    <3>7. e + m <= k
      BY <1>5, <3>1, <3>6
    <3>8. e + j \in 1 .. k
      BY <1>3, <3>4, <3>5, <3>6, <3>7
    <3>9. t[e + j] = s[e + j]
      BY <1>4, <3>8
    <3>10. s[e + j] = q[j]
      BY <1>5, <3>1, <3>2, <3>3
    <3> QED BY <3>2, <3>3, <3>6, <3>9, <3>10, Zenon
  <2> QED BY <2>1, <2>2
<1>10. LaidAs(more, t)
  <2>1. Len(t) = EndOf(more, Len(more))
    BY <1>2, <1>4, <1>7
  <2> QED BY <1>2, <1>4, <1>8, <1>9, <2>1, Zenon DEF LaidAs
<1> QED BY <1>1, <1>10

(* Every push lies where the one before it ends. *)
LEMMA LaidLies ==
  ASSUME NEW items \in Seq(Pushable), NEW s \in Seq(Byte), LaidAs(items, s),
         NEW k \in 1 .. Len(items)
  PROVE  Lies(s, EndOf(items, k - 1) + 1, Piece(items[k]))
<1>1. PICK e, p, m : e = EndOf(items, k - 1) /\ p = Piece(items[k]) /\ m = Len(p)
  OBVIOUS
<1>2. items[k] \in Pushable /\ k - 1 \in 0 .. Len(items)
  BY ElementOfSeq
<1>3. p \in Seq(Byte) /\ m \in Nat /\ e \in Nat
  BY <1>1, <1>2, PieceType, EndIs
<1>4. EndOf(items, k) = e + m
  BY <1>1, EndIs
<1>5. EndOf(items, k) <= Len(s) /\ \A j \in DOMAIN p : s[e + j] = p[j]
  <2>1. k \in DOMAIN items
    OBVIOUS
  <2> QED BY <1>1, <2>1, Zenon DEF LaidAs
<1>6. e + 1 + m - 1 <= Len(s)
  BY <1>3, <1>4, <1>5
<1>7. \A j \in 1 .. m : s[e + 1 + j - 1] = p[j]
  <2> TAKE j \in 1 .. m
  <2>1. j \in DOMAIN p /\ e + 1 + j - 1 = e + j
    BY <1>1, <1>3
  <2> QED BY <1>5, <2>1
<1> QED BY <1>1, <1>6, <1>7, Zenon DEF Lies

(* The node on its way through the pushes. *)
LEMMA PushesStep ==
  ASSUME eval \in Evaluation, eval.of = "pushes", eval.verdict = "running",
         script \in Seq(Byte), pushed \in Seq(Pushable), LaidOut, PushesGoOn, Evaluate
  PROVE  /\ eval' \in Evaluation /\ eval'.of = "pushes" /\ eval'.verdict # "none"
         /\ PushesGoOn' /\ UNCHANGED <<buildVars, now>>
<1>1. PICK k \in 0 .. Len(pushed) : /\ eval.at = EndOf(pushed, k) + 1
                                    /\ eval.stack = [i \in 1 .. k |-> Item(pushed[i])]
  BY Zenon DEF PushesGoOn
<1>2. Code = script
  BY Zenon DEF Code
<1>3. LaidAs(pushed, script)
  BY Zenon DEF LaidOut, LaidAs
<1>4. PICK n : n = Len(pushed)
  OBVIOUS
<1>5. n \in Nat /\ k \in 0 .. n /\ EndOf(pushed, k) \in Nat
  BY <1>4, EndIs
<1>6. CASE k < n
  <2>1. PICK x, p, e : x = pushed[k + 1] /\ p = Piece(x) /\ e = EndOf(pushed, k)
    OBVIOUS
  <2>2. k + 1 \in 1 .. Len(pushed) /\ k + 1 - 1 = k /\ k + 1 \in 0 .. Len(pushed)
    BY <1>4, <1>5, <1>6
  <2>3. x \in Pushable
    BY <2>1, <2>2, ElementOfSeq
  <2>4. Lies(Code, eval.at, p)
    BY <1>1, <1>2, <1>3, <2>1, <2>2, LaidLies
  <2>5. p \in Seq(Byte) /\ Len(p) \in Nat \ {0} /\ Item(x) \in Seq(Byte)
    BY <2>1, <2>3, PieceType
  <2>6. eval.at \in Nat \ {0} /\ eval.stack \in Seq(Seq(Byte))
    BY DEF Evaluation
  <2>7. Running
    <3>1. eval.at \in 1 .. Len(Code)
      BY <1>2, <2>4, <2>5, <2>6 DEF Lies
    <3> QED BY <1>2, <3>1 DEF Running
  <2>8. Continue(Append(eval.stack, Item(x)), Len(p))
    BY <1>2, <2>1, <2>3, <2>4, <2>6, <2>7, PieceStep
  <2>9. PICK st : st = Append(eval.stack, Item(x))
    OBVIOUS
  <2>10. st \in Seq(Seq(Byte)) /\ Len(p) \in Nat
    BY <2>5, <2>6, <2>9
  <2>11. /\ eval' \in Evaluation
         /\ eval'.stack = st /\ eval'.at = eval.at + Len(p)
         /\ eval'.of = eval.of /\ eval'.verdict = eval.verdict
         /\ UNCHANGED <<buildVars, now>>
    BY <2>8, <2>9, <2>10, ContinueIs
  <2>12. pushed' = pushed
    BY <2>11 DEF buildVars
  <2>13. EndOf(pushed, k + 1) = e + Len(p)
    BY <2>1, <2>2, EndIs
  <2>14. eval'.at = EndOf(pushed, k + 1) + 1
    <3>1. e \in Nat /\ eval.at = e + 1
      BY <1>1, <1>5, <2>1
    <3> QED BY <2>5, <2>11, <2>13, <3>1
  <2>15. eval'.stack = [i \in 1 .. k + 1 |-> Item(pushed[i])]
    <3>1. PICK u : u = [i \in 1 .. k + 1 |-> Item(pushed[i])]
      OBVIOUS
    <3>2. \A i \in 1 .. k + 1 : Item(pushed[i]) \in Seq(Byte)
      <4> TAKE i \in 1 .. k + 1
      <4>1. i \in 1 .. Len(pushed)
        BY <1>5, <2>2
      <4>2. pushed[i] \in Pushable
        BY <4>1, ElementOfSeq
      <4> QED BY <4>2, PieceType
    <3>3. u \in Seq(Seq(Byte)) /\ Len(u) = k + 1
      BY <1>5, <3>1, <3>2
    <3>4. Len(eval.stack) = k /\ \A i \in 1 .. k : eval.stack[i] = Item(pushed[i])
      BY <1>1, <1>5, <2>6
    <3>5. /\ Len(st) = k + 1 /\ st[k + 1] = Item(x)
          /\ \A i \in 1 .. k : st[i] = eval.stack[i]
      BY <2>5, <2>6, <2>9, <3>4
    <3>6. \A i \in 1 .. k + 1 : st[i] = u[i]
      <4> TAKE i \in 1 .. k + 1
      <4>1. CASE i = k + 1
        BY <2>1, <3>1, <3>5, <4>1
      <4>2. CASE i # k + 1
        <5>1. i \in 1 .. k
          BY <1>5, <4>2
        <5> QED BY <3>1, <3>4, <3>5, <5>1
      <4> QED BY <4>1, <4>2
    <3>7. st = u
      BY <2>10, <3>3, <3>5, <3>6, SeqEqual
    <3> QED BY <2>11, <3>1, <3>7
  <2>16. PushesGoOn'
    BY <2>2, <2>11, <2>12, <2>14, <2>15, Zenon DEF PushesGoOn
  <2> QED BY <2>11, <2>16
<1>7. CASE ~(k < n)
  <2>1. k = Len(pushed)
    BY <1>4, <1>5, <1>7
  <2>2. eval.at > Len(Code)
    BY <1>1, <1>2, <1>3, <1>5, <2>1 DEF LaidAs
  <2>3. ~Running
    BY <1>2, <2>2 DEF Running
  <2>4. Finish
    BY <2>3, Zenon DEF Evaluate, Push, PushSmall, CheckLockTime, Drop, Dup, Hash,
                       EqualVerify, CheckSig, Fail
  <2>5. PICK v \in {"running", "accepted", "rejected"} : Verdict(v) /\ v # "running"
    BY <2>4, Zenon DEF Finish
  <2>6. /\ eval' \in Evaluation
        /\ eval'.stack = eval.stack /\ eval'.at = eval.at
        /\ eval'.of = eval.of /\ eval'.verdict = v
        /\ UNCHANGED <<buildVars, now>>
    BY <2>5, VerdictIs
  <2>7. pushed' = pushed
    BY <2>6 DEF buildVars
  <2>8. PushesGoOn'
    BY <1>1, <2>1, <2>6, <2>7, Zenon DEF PushesGoOn
  <2> QED BY <2>5, <2>6, <2>8
<1> QED BY <1>6, <1>7

-----------------------------------------------------------------------------
(* The script of an output, stage by stage *)

(* Stacks of two and three. *)
LEMMA TwoOf ==
  ASSUME NEW a \in Seq(Byte), NEW b \in Seq(Byte)
  PROVE  /\ <<a, b>> \in Seq(Seq(Byte)) /\ Len(<<a, b>>) = 2
         /\ Last(<<a, b>>) = b /\ <<a, b>>[1] = a
         /\ SubSeq(<<a, b>>, 1, 0) = <<>>
<1>1. PICK S : S = Seq(Byte) /\ a \in S /\ b \in S
  OBVIOUS
<1>2. PICK s : s = <<a, b>>
  OBVIOUS
<1>3. s \in Seq(S) /\ Len(s) = 2 /\ s[1] = a /\ s[2] = b
  BY <1>1, <1>2
<1>4. Last(s) = b
  BY <1>3 DEF Last
<1>5. SubSeq(s, 1, 0) = <<>>
  BY SubSeqEmpty
<1> QED BY <1>1, <1>2, <1>3, <1>4, <1>5, Zenon

LEMMA ThreeOf ==
  ASSUME NEW a \in Seq(Byte), NEW b \in Seq(Byte), NEW c \in Seq(Byte)
  PROVE  /\ <<a, b, c>> \in Seq(Seq(Byte)) /\ Len(<<a, b, c>>) = 3 /\ Last(<<a, b, c>>) = c
         /\ SubSeq(<<a, b, c>>, 1, 2) = <<a, b>>
         /\ Append(<<a, b>>, c) = <<a, b, c>>
<1>1. PICK S : S = Seq(Byte) /\ a \in S /\ b \in S /\ c \in S
  OBVIOUS
<1>2. PICK s, r : s = <<a, b, c>> /\ r = <<a, b>>
  OBVIOUS
<1>3. s \in Seq(S) /\ Len(s) = 3 /\ s[1] = a /\ s[2] = b /\ s[3] = c
  BY <1>1, <1>2
<1>4. r \in Seq(S) /\ Len(r) = 2 /\ r[1] = a /\ r[2] = b
  BY <1>1, <1>2
<1>5. Last(s) = c
  BY <1>3 DEF Last
<1>6. Append(r, c) = s
  <2>1. PICK t : t = Append(r, c)
    OBVIOUS
  <2>2. t \in Seq(S) /\ Len(t) = 3 /\ t[1] = a /\ t[2] = b /\ t[3] = c
    <3>1. r \in Seq(S)
      BY <1>4
    <3>2. /\ t \in Seq(S) /\ Len(t) = Len(r) + 1 /\ t[Len(r) + 1] = c
          /\ \A i \in 1 .. Len(r) : t[i] = r[i]
      BY <1>1, <2>1, <3>1, AppendProperties
    <3> QED BY <1>4, <3>2
  <2>3. \A i \in 1 .. 3 : t[i] = s[i]
    BY <1>3, <2>2
  <2> QED BY <1>3, <2>1, <2>2, <2>3, SeqEqual
<1>7. SubSeq(s, 1, 2) = r
  <2>1. PICK t : t = SubSeq(s, 1, 2)
    OBVIOUS
  <2>2. \A i \in 1 .. 2 : s[i] \in S
    BY <1>1, <1>3
  <2>3. t \in Seq(S) /\ Len(t) = 2 /\ \A i \in 1 .. 2 : t[i] = s[i]
    BY <1>1, <1>3, <2>1, <2>2
  <2>4. \A i \in 1 .. 2 : t[i] = r[i]
    BY <1>3, <1>4, <2>3
  <2> QED BY <1>4, <2>1, <2>3, <2>4, SeqEqual
<1> QED BY <1>1, <1>2, <1>3, <1>5, <1>6, <1>7, Zenon

(* Signatures of different keys differ. *)
LEMMA SigType ==
  ASSUME NEW a \in Seq(Byte), NEW b \in Seq(Byte)
  PROVE  Sig(a) \in Seq(Byte) /\ (Sig(a) = Sig(b) => a = b)
<1>1. PICK h : h = <<48>>
  OBVIOUS
<1>2. h \in Seq(Byte)
  BY <1>1 DEF Byte
<1>3. Sig(a) = h \o a /\ Sig(b) = h \o b
  BY <1>1 DEF Sig
<1>4. h \o a = h \o b => a = b
  BY <1>2, ConcatSimplifications
<1> QED BY <1>2, <1>3, <1>4

(* The stages, one by one. *)
StageOf(o, signer, key, i, at, stack) ==
    /\ Stages(o, signer, key)[i].at = at
    /\ Stages(o, signer, key)[i].stack = stack

LEMMA StagesAre ==
  ASSUME NEW o, NEW signer, NEW key
  PROVE  LET n    == Len(PushNumber(o.timelock))
             lock == EncodeScriptNumber(o.timelock)
             sig  == Sig(signer)
             h    == Hash160(key)
             w    == Hash160(o.owner_pubkey)
         IN  /\ StageOf(o, signer, key, 1, 1, <<sig, key>>)
             /\ StageOf(o, signer, key, 2, n + 1, <<sig, key, lock>>)
             /\ StageOf(o, signer, key, 3, n + 2, <<sig, key, lock>>)
             /\ StageOf(o, signer, key, 4, n + 3, <<sig, key>>)
             /\ StageOf(o, signer, key, 5, n + 4, <<sig, key, key>>)
             /\ StageOf(o, signer, key, 6, n + 5, <<sig, key, h>>)
             /\ StageOf(o, signer, key, 7, n + 26, <<sig, key, h, w>>)
             /\ StageOf(o, signer, key, 8, n + 27, <<sig, key>>)
             /\ StageOf(o, signer, key, 9, n + 28,
                        <<IF sig = Sig(key) THEN <<1>> ELSE <<>>>>)
<1> DEFINE n    == Len(PushNumber(o.timelock))
           lock == EncodeScriptNumber(o.timelock)
           sig  == Sig(signer)
           h    == Hash160(key)
           w    == Hash160(o.owner_pubkey)
<1> DEFINE r1 == [at |-> 1,      stack |-> <<sig, key>>]
           r2 == [at |-> n + 1,  stack |-> <<sig, key, lock>>]
           r3 == [at |-> n + 2,  stack |-> <<sig, key, lock>>]
           r4 == [at |-> n + 3,  stack |-> <<sig, key>>]
           r5 == [at |-> n + 4,  stack |-> <<sig, key, key>>]
           r6 == [at |-> n + 5,  stack |-> <<sig, key, h>>]
           r7 == [at |-> n + 26, stack |-> <<sig, key, h, w>>]
           r8 == [at |-> n + 27, stack |-> <<sig, key>>]
           r9 == [at |-> n + 28, stack |-> <<IF sig = Sig(key) THEN <<1>> ELSE <<>>>>]
<1>1. PICK stages : stages = Stages(o, signer, key)
  OBVIOUS
<1>2. stages = <<r1, r2, r3, r4, r5, r6, r7, r8, r9>>
  BY <1>1, Zenon DEF Stages
<1>3. \A i, at, stack : stages[i] = [at |-> at, stack |-> stack] =>
        StageOf(o, signer, key, i, at, stack)
  BY <1>1 DEF StageOf
<1>4. ASSUME NEW a, NEW b, NEW c, NEW d, NEW e, NEW f, NEW g, NEW k, NEW l,
             stages = <<a, b, c, d, e, f, g, k, l>>
      PROVE  /\ stages[1] = a /\ stages[2] = b /\ stages[3] = c /\ stages[4] = d
             /\ stages[5] = e /\ stages[6] = f /\ stages[7] = g /\ stages[8] = k
             /\ stages[9] = l
  BY <1>4
<1>5. /\ stages[1] = r1 /\ stages[2] = r2 /\ stages[3] = r3 /\ stages[4] = r4
      /\ stages[5] = r5 /\ stages[6] = r6 /\ stages[7] = r7 /\ stages[8] = r8
      /\ stages[9] = r9
  <2> HIDE DEF r1, r2, r3, r4, r5, r6, r7, r8, r9
  <2> QED BY <1>2, <1>4, Zenon
<1> QED BY <1>3, <1>5, Zenon

(* Only a one is true. *)
LEMMA TrueIs == ScriptNumber(<<1>>).bytes # <<>> /\ ScriptNumber(<<>>).bytes = <<>>
<1>1. PICK n : n = Positive(<<1>>)
  OBVIOUS
<1>2. PICK one : one = <<1>>
  OBVIOUS
<1>3. one \in Seq(Byte) /\ one # <<>> /\ Last(one) = 1
  BY <1>2 DEF Byte, Last
<1>4. n.bytes = one /\ ~n.negative /\ n \in Number
  BY <1>1, <1>2, <1>3 DEF Positive, Number, Magnitude
<1>5. EncodeScriptNumber(n) = one
  <2>1. ~(Last(one) >= 128)
    BY <1>3
  <2> QED BY <1>3, <1>4, <2>1, Zenon DEF EncodeScriptNumber
<1>6. ScriptNumber(one) = n
  BY <1>4, <1>5, NumberRoundTrip
<1>7. ScriptNumber(<<>>).bytes = <<>>
  BY DEF ScriptNumber, Positive
<1> QED BY <1>2, <1>3, <1>4, <1>6, <1>7, Zenon

(* The node evaluates the script that has been built. *)
LEMMA OutputCode ==
  ASSUME eval.of = "output", NEW o, OutputIsBuilt(o)
  PROVE  CltvLayout(Code, o.timelock, o.owner_pubkey)
<1>1. Code = o.cltv_script
  <2>1. Code = (CHOOSE x \in output : TRUE).cltv_script
    BY Zenon DEF Code
  <2>2. (CHOOSE x \in output : TRUE) = o
    BY DEF OutputIsBuilt
  <2> QED BY <2>1, <2>2, Zenon
<1>2. o = CollateralOutput(o.owner_pubkey, o.timelock)
  BY Zenon DEF OutputIsBuilt
<1>3. PICK key, t : key = o.owner_pubkey /\ t = o.timelock
  OBVIOUS
<1>4. CollateralOutput(key, t).cltv_script = CltvScript(t, key)
  BY DEF CollateralOutput
<1>5. o.cltv_script = CltvScript(t, key)
  BY <1>2, <1>3, <1>4, Zenon
<1> QED BY <1>1, <1>3, <1>5, CltvIs DEF OutputIsBuilt

(* Why it may turn a transaction away. *)
Declines(o) ==
    \/ eval.key # o.owner_pubkey \/ eval.signer # o.owner_pubkey
    \/ IsHeight(o.timelock.bytes) # IsHeight(eval.locktime)
    \/ Less(eval.locktime, o.timelock.bytes)
    \/ eval.final

(* What OP_CHECKLOCKTIMEVERIFY decides, on the timelock as it was pushed. *)
LEMMA LockPasses ==
  ASSUME eval \in Evaluation, Len(eval.locktime) <= 4, Op = 177, NEW o,
         o.timelock \in Number, ValidTimelock(o.timelock),
         Depth >= 1, Top = EncodeScriptNumber(o.timelock)
  PROVE  /\ CanCheckLockTime => Due(o)
         /\ ~CanCheckLockTime => Declines(o)
<1>1. PICK t, lock : t = o.timelock /\ lock = EncodeScriptNumber(t)
  OBVIOUS
<1>2. /\ lock \in Seq(Byte) /\ Len(lock) \in Len(t.bytes) .. Len(t.bytes) + 1
      /\ Minimal(lock) /\ ScriptNumber(lock) = t
  BY <1>1, NumberRoundTrip
<1>3. ASSUME CanCheckLockTime PROVE Due(o)
  <2>1. /\ IsHeight(t.bytes) <=> IsHeight(eval.locktime)
        /\ ~Less(eval.locktime, t.bytes)
        /\ ~eval.final
    BY <1>1, <1>2, <1>3, Zenon DEF CanCheckLockTime
  <2> QED BY <1>1, <2>1, Zenon DEF Due
<1>4. ASSUME ~CanCheckLockTime, ~Declines(o) PROVE FALSE
  <2>1. /\ IsHeight(t.bytes) = IsHeight(eval.locktime)
        /\ ~Less(eval.locktime, t.bytes)
        /\ ~eval.final
    BY <1>1, <1>4, Zenon DEF Declines
  <2>2. ~t.negative
    BY <1>1, Zenon DEF ValidTimelock
  <2>3. Len(lock) <= 5
    <3>1. ~(Len(eval.locktime) < Len(t.bytes))
      BY <2>1, Zenon DEF Less
    <3>2. eval.locktime \in Seq(Byte) /\ t.bytes \in Seq(Byte)
      BY <1>1 DEF Evaluation, Number, Magnitude
    <3>3. PICK k, l, m : k = Len(eval.locktime) /\ l = Len(t.bytes) /\ m = Len(lock)
      OBVIOUS
    <3>4. k \in Nat /\ l \in Nat /\ m \in l .. l + 1 /\ k <= 4 /\ ~(k < l)
      BY <1>2, <3>1, <3>2, <3>3
    <3> QED BY <3>3, <3>4
  <2>4. CanCheckLockTime
    <3>1. Top = lock /\ Op = OpCltv
      BY <1>1 DEF OpCltv
    <3> QED BY <1>2, <2>1, <2>2, <2>3, <3>1, Zenon DEF CanCheckLockTime
  <2> QED BY <1>4, <2>4
<1> QED BY <1>3, <1>4

(* What the stack says. *)
LEMMA OfTwo ==
  ASSUME NEW a \in Seq(Byte), NEW b \in Seq(Byte), eval.stack = <<a, b>>
  PROVE  Depth = 2 /\ Top = b /\ Second = a /\ Below(2) = <<>>
<1>1. PICK s : s = <<a, b>>
  OBVIOUS
<1>2. eval.stack = s
  BY <1>1
<1>3. Len(s) = 2 /\ Last(s) = b /\ s[1] = a /\ SubSeq(s, 1, 0) = <<>>
  BY <1>1, TwoOf, Zenon
<1>4. Depth = 2 /\ Top = b
  BY <1>2, <1>3, Zenon DEF Depth, Top
<1>5. Depth - 1 = 1 /\ Depth - 2 = 0
  BY <1>4
<1>6. Second = a
  BY <1>2, <1>3, <1>5, Zenon DEF Second
<1>7. Below(2) = <<>>
  BY <1>2, <1>3, <1>5, Zenon DEF Below
<1> QED BY <1>4, <1>6, <1>7

LEMMA OfThree ==
  ASSUME NEW a \in Seq(Byte), NEW b \in Seq(Byte), NEW c \in Seq(Byte),
         eval.stack = <<a, b, c>>
  PROVE  Depth = 3 /\ Top = c /\ Below(1) = <<a, b>>
<1>1. PICK s : s = <<a, b, c>>
  OBVIOUS
<1>2. eval.stack = s
  BY <1>1
<1>3. Len(s) = 3 /\ Last(s) = c /\ SubSeq(s, 1, 2) = <<a, b>>
  BY <1>1, ThreeOf, Zenon
<1>4. Depth = 3 /\ Top = c
  BY <1>2, <1>3, Zenon DEF Depth, Top
<1>5. Depth - 1 = 2
  BY <1>4
<1>6. Below(1) = <<a, b>>
  BY <1>2, <1>3, <1>5, Zenon DEF Below
<1> QED BY <1>4, <1>6

LEMMA OfFour ==
  ASSUME NEW a \in Seq(Byte), NEW b \in Seq(Byte), NEW c \in Seq(Byte), NEW d \in Seq(Byte),
         eval.stack = <<a, b, c, d>>
  PROVE  Depth = 4 /\ Top = d /\ Second = c /\ Below(2) = <<a, b>>
<1>1. PICK S, s, q : S = Seq(Byte) /\ s = <<a, b, c, d>> /\ q = <<a, b>>
  OBVIOUS
<1>2. a \in S /\ b \in S /\ c \in S /\ d \in S /\ eval.stack = s
  BY <1>1
<1>3. /\ s \in Seq(S) /\ Len(s) = 4 /\ s[1] = a /\ s[2] = b /\ s[3] = c /\ s[4] = d
      /\ q \in Seq(S) /\ Len(q) = 2 /\ q[1] = a /\ q[2] = b
  BY <1>1, <1>2
<1>4. Last(s) = d
  BY <1>3 DEF Last
<1>5. SubSeq(s, 1, 2) = q
  <2>1. PICK t : t = SubSeq(s, 1, 2)
    OBVIOUS
  <2>2. \A i \in 1 .. 2 : s[i] \in S
    BY <1>2, <1>3
  <2>3. t \in Seq(S) /\ Len(t) = 2 /\ \A i \in 1 .. 2 : t[i] = s[i]
    BY <1>3, <2>1, <2>2
  <2>4. \A i \in 1 .. 2 : t[i] = q[i]
    BY <1>3, <2>3
  <2> QED BY <1>3, <2>1, <2>3, <2>4, SeqEqual
<1>6. Depth = 4 /\ Top = d
  BY <1>2, <1>3, <1>4, Zenon DEF Depth, Top
<1>7. Depth - 1 = 3 /\ Depth - 2 = 2
  BY <1>6
<1>8. Second = c
  BY <1>2, <1>3, <1>7, Zenon DEF Second
<1>9. Below(2) = <<a, b>>
  BY <1>1, <1>2, <1>5, <1>7, Zenon DEF Below
<1> QED BY <1>6, <1>8, <1>9

(* A push on a stack of three. *)
LEMMA FourOn ==
  ASSUME NEW a \in Seq(Byte), NEW b \in Seq(Byte), NEW c \in Seq(Byte), NEW d \in Seq(Byte),
         eval.stack = <<a, b, c>>
  PROVE  /\ Append(eval.stack, d) = <<a, b, c, d>>
         /\ <<a, b, c, d>> \in Seq(Seq(Byte))
<1>1. PICK S, s, r, t : /\ S = Seq(Byte) /\ s = <<a, b, c, d>> /\ r = <<a, b, c>>
                        /\ t = Append(r, d)
  OBVIOUS
<1>2. a \in S /\ b \in S /\ c \in S /\ d \in S /\ eval.stack = r
  BY <1>1
<1>3. /\ s \in Seq(S) /\ Len(s) = 4 /\ s[1] = a /\ s[2] = b /\ s[3] = c /\ s[4] = d
      /\ r \in Seq(S) /\ Len(r) = 3 /\ r[1] = a /\ r[2] = b /\ r[3] = c
  BY <1>1, <1>2
<1>4. t \in Seq(S) /\ Len(t) = 4 /\ t[1] = a /\ t[2] = b /\ t[3] = c /\ t[4] = d
  <2>1. r \in Seq(S)
    BY <1>3
  <2>2. /\ t \in Seq(S) /\ Len(t) = Len(r) + 1 /\ t[Len(r) + 1] = d
        /\ \A i \in 1 .. Len(r) : t[i] = r[i]
    BY <1>1, <1>2, <2>1, AppendProperties
  <2> QED BY <1>3, <2>2
<1>5. \A i \in 1 .. 4 : t[i] = s[i]
  BY <1>3, <1>4
<1>6. t = s
  BY <1>3, <1>4, <1>5, SeqEqual
<1> QED BY <1>1, <1>2, <1>3, <1>6, Zenon

(* What the opcodes behind the number do. *)
LEMMA DropsLock ==
  ASSUME eval.verdict = "running", Evaluate, Code \in Seq(Byte),
         eval.at \in 1 .. Len(Code), Code[eval.at] = 117,
         NEW a \in Seq(Byte), NEW b \in Seq(Byte), NEW c \in Seq(Byte),
         eval.stack = <<a, b, c>>
  PROVE  Continue(<<a, b>>, 1)
<1>1. Running /\ Op = 117
  BY DEF Running, Op
<1>2. Depth = 3 /\ Below(1) = <<a, b>>
  BY OfThree
<1>3. Depth >= 1
  BY <1>2
<1> QED BY <1>1, <1>2, <1>3, DropStep

LEMMA DupsKey ==
  ASSUME eval.verdict = "running", Evaluate, Code \in Seq(Byte),
         eval.at \in 1 .. Len(Code), Code[eval.at] = 118,
         NEW a \in Seq(Byte), NEW b \in Seq(Byte), eval.stack = <<a, b>>
  PROVE  Continue(<<a, b, b>>, 1)
<1>1. Running /\ Op = 118
  BY DEF Running, Op
<1>2. Depth = 2 /\ Top = b
  BY OfTwo
<1>3. Depth >= 1
  BY <1>2
<1>4. Continue(Append(eval.stack, Top), 1)
  BY <1>1, <1>3, DupStep
<1>5. Append(<<a, b>>, b) = <<a, b, b>>
  BY ThreeOf, Zenon
<1> QED BY <1>2, <1>4, <1>5, Zenon

LEMMA HashesKey ==
  ASSUME eval.verdict = "running", Evaluate, Code \in Seq(Byte),
         eval.at \in 1 .. Len(Code), Code[eval.at] = 169,
         NEW a \in Seq(Byte), NEW b \in Seq(Byte), NEW c \in Seq(Byte),
         eval.stack = <<a, b, c>>, NEW h \in Seq(Byte), h = Hash160(c)
  PROVE  Continue(<<a, b, h>>, 1)
<1>1. Running /\ Op = 169
  BY DEF Running, Op
<1>2. Depth = 3 /\ Top = c /\ Below(1) = <<a, b>>
  BY OfThree
<1>3. Depth >= 1
  BY <1>2
<1>4. Continue(Append(Below(1), Hash160(Top)), 1)
  BY <1>1, <1>3, HashStep
<1>5. Append(<<a, b>>, h) = <<a, b, h>>
  BY ThreeOf, Zenon
<1> QED BY <1>2, <1>4, <1>5, Zenon

LEMMA ComparesHashes ==
  ASSUME eval.verdict = "running", Evaluate, Code \in Seq(Byte),
         eval.at \in 1 .. Len(Code), Code[eval.at] = 136,
         NEW a \in Seq(Byte), NEW b \in Seq(Byte), NEW c \in Seq(Byte), NEW d \in Seq(Byte),
         eval.stack = <<a, b, c, d>>
  PROVE  \/ d = c /\ Continue(<<a, b>>, 1)
         \/ d # c /\ Verdict("rejected")
<1>1. Running /\ Op = 136
  BY DEF Running, Op
<1>2. Depth = 4 /\ Top = d /\ Second = c /\ Below(2) = <<a, b>>
  BY OfFour
<1>3. Depth >= 2
  BY <1>2
<1>4. \/ Top = Second /\ Continue(Below(2), 1)
      \/ Top # Second /\ Verdict("rejected")
  BY <1>1, <1>3, EqualStep
<1> QED BY <1>2, <1>4, Zenon

LEMMA ChecksSig ==
  ASSUME eval.verdict = "running", Evaluate, Code \in Seq(Byte),
         eval.at \in 1 .. Len(Code), Code[eval.at] = 172,
         NEW a \in Seq(Byte), NEW b \in Seq(Byte), eval.stack = <<a, b>>, NEW v
  PROVE  v = (IF a = Sig(b) THEN <<1>> ELSE <<>>) => Continue(<<v>>, 1)
<1>1. Running /\ Op = 172
  BY DEF Running, Op
<1>2. Depth = 2 /\ Top = b /\ Second = a /\ Below(2) = <<>>
  BY OfTwo
<1>3. Depth >= 2
  BY <1>2
<1>4. Continue(Append(Below(2), IF Second = Sig(Top) THEN <<1>> ELSE <<>>), 1)
  BY <1>1, <1>3, SigStep
<1>5. Append(<<>>, v) = <<v>>
  OBVIOUS
<1> QED BY <1>2, <1>4, <1>5, Zenon

(* The node goes on to the stage j. *)
GoesTo(o, j) ==
    \E s \in Seq(Seq(Byte)), m \in Nat :
        /\ Continue(s, m)
        /\ StageOf(o, eval.signer, eval.key, j, eval.at + m, s)

SameHash(o) == Hash160(eval.key) = Hash160(o.owner_pubkey)

LEMMA Going ==
  ASSUME NEW o, NEW j, NEW s \in Seq(Seq(Byte)), NEW m \in Nat, NEW at, at = eval.at + m,
         Continue(s, m), StageOf(o, eval.signer, eval.key, j, at, s)
  PROVE  GoesTo(o, j)
BY Zenon DEF GoesTo

(* From each stage the node goes to the next, or it declines for a reason. *)
LEMMA StageStep ==
  ASSUME eval \in Evaluation, eval.of = "output", eval.verdict = "running",
         NEW o, OutputIsBuilt(o), Spending, Evaluate,
         NEW i \in 1 .. 9, NEW at, NEW stack,
         eval.at = at, eval.stack = stack,
         StageOf(o, eval.signer, eval.key, i, at, stack)
  PROVE  /\ i = 1 => GoesTo(o, 2)
         /\ i = 2 => \/ GoesTo(o, 3) /\ Due(o)
                     \/ Verdict("rejected") /\ Declines(o)
         /\ i = 3 => GoesTo(o, 4)
         /\ i = 4 => GoesTo(o, 5)
         /\ i = 5 => GoesTo(o, 6)
         /\ i = 6 => GoesTo(o, 7)
         /\ i = 7 => \/ GoesTo(o, 8) /\ SameHash(o)
                     \/ Verdict("rejected") /\ Declines(o)
         /\ i = 8 => GoesTo(o, 9)
         /\ i = 9 => \/ Verdict("accepted") /\ eval.signer = eval.key
                     \/ Verdict("rejected") /\ Declines(o)
<1> DEFINE t      == o.timelock
           own    == o.owner_pubkey
           key    == eval.key
           signer == eval.signer
           n      == Len(PushNumber(t))
           lock   == EncodeScriptNumber(t)
           sig    == Sig(signer)
           valid  == IF sig = Sig(key) THEN <<1>> ELSE <<>>
           h      == Hash160(key)
           w      == Hash160(own)
           Stage(j, a, s) == StageOf(o, signer, key, j, a, s)
<1>1. /\ Stage(1, 1, <<sig, key>>)
      /\ Stage(2, n + 1, <<sig, key, lock>>)
      /\ Stage(3, n + 2, <<sig, key, lock>>)
      /\ Stage(4, n + 3, <<sig, key>>)
      /\ Stage(5, n + 4, <<sig, key, key>>)
      /\ Stage(6, n + 5, <<sig, key, h>>)
      /\ Stage(7, n + 26, <<sig, key, h, w>>)
      /\ Stage(8, n + 27, <<sig, key>>)
      /\ Stage(9, n + 28, <<valid>>)
  BY StagesAre, Zenon
<1>2. /\ Code \in Seq(Byte) /\ n \in Nat \ {0} /\ Len(Code) = n + 27
      /\ Code[n + 1] = 177 /\ Code[n + 2] = 117 /\ Code[n + 3] = 118 /\ Code[n + 4] = 169
      /\ Code[n + 26] = 136 /\ Code[n + 27] = 172
      /\ Lies(Code, 1, PushNumber(t))
      /\ Lies(Code, n + 5, PushBytes(w)) /\ Len(PushBytes(w)) = 21
  <2>1. CltvLayout(Code, o.timelock, o.owner_pubkey)
    BY OutputCode
  <2> QED BY <2>1, Zenon DEF CltvLayout
<1>3. /\ t \in Number /\ Len(t.bytes) < MaxPush /\ ValidTimelock(t)
      /\ own \in Pubkeys /\ ValidPubkey(own)
      /\ key \in Pubkeys /\ ValidPubkey(key) /\ signer \in Pubkeys /\ ValidPubkey(signer)
      /\ Len(eval.locktime) <= 4
  BY Zenon DEF OutputIsBuilt, Spending
<1>4. key \in Seq(Byte) /\ signer \in Seq(Byte) /\ h \in Seq(Byte)
  BY <1>3, HashType
<1>5. w \in Seq(Byte) /\ Len(w) = 20
  BY <1>3, HashType
<1>6. lock \in Seq(Byte)
  BY <1>3, NumberRoundTrip
<1>7. sig \in Seq(Byte) /\ (sig = Sig(key) => signer = key)
  BY <1>4, SigType
<1>8. valid \in Seq(Byte)
  <2>1. <<1>> \in Seq(Byte) /\ <<>> \in Seq(Byte)
    <3>1. 1 \in Byte
      BY ByteIs
    <3> QED BY <3>1
  <2> QED BY <2>1, Zenon
<1>9. \A a, s : Stage(i, a, s) => at = a /\ stack = s
  BY DEF StageOf
<1>10. /\ i = 1 => at = 1 /\ stack = <<sig, key>>
       /\ i = 2 => at = n + 1 /\ stack = <<sig, key, lock>>
       /\ i = 3 => at = n + 2 /\ stack = <<sig, key, lock>>
       /\ i = 4 => at = n + 3 /\ stack = <<sig, key>>
       /\ i = 5 => at = n + 4 /\ stack = <<sig, key, key>>
       /\ i = 6 => at = n + 5 /\ stack = <<sig, key, h>>
       /\ i = 7 => at = n + 26 /\ stack = <<sig, key, h, w>>
       /\ i = 8 => at = n + 27 /\ stack = <<sig, key>>
       /\ i = 9 => at = n + 28 /\ stack = <<valid>>
  <2> HIDE DEF Stage, n, lock, sig, valid, h, w
  <2> QED BY <1>1, <1>9, Zenon
<1>11. at \in Nat \ {0} /\ stack \in Seq(Seq(Byte))
  BY DEF Evaluation
<1>12. w = Hash160(own) /\ h = Hash160(key) /\ valid = IF sig = Sig(key) THEN <<1>> ELSE <<>>
  OBVIOUS
<1>13. ASSUME NEW j, NEW a, NEW s \in Seq(Seq(Byte)), NEW m \in Nat, a = at + m,
              Continue(s, m), Stage(j, a, s)
       PROVE  GoesTo(o, j)
  BY <1>13, Going, Zenon
<1>14. ASSUME i = 1 PROVE GoesTo(o, 2)
  <2>1. PICK x : x = [kind |-> "number", value |-> t]
    OBVIOUS
  <2>2. x \in Pushable /\ x.kind # "data" /\ x.value = t
    BY <1>3, <2>1 DEF Pushable
  <2>3. Piece(x) = PushNumber(t) /\ Item(x) = lock
    BY <2>2, Zenon DEF Piece, Item
  <2>4. Len(Piece(x)) = n /\ Lies(Code, eval.at, Piece(x))
    BY <1>2, <1>10, <1>14, <2>3, Zenon
  <2> HIDE DEF n, lock, sig, valid, h, w, t, own, key, signer, Stage
  <2>5. at = 1 /\ stack = <<sig, key>> /\ n + 1 = at + n
    BY <1>2, <1>10, <1>14
  <2>6. Running
    BY <1>2, <2>5 DEF Running
  <2>7. Continue(Append(stack, lock), n)
    BY <1>2, <1>11, <2>2, <2>3, <2>4, <2>6, PieceStep
  <2>8. Append(stack, lock) = <<sig, key, lock>> /\ <<sig, key, lock>> \in Seq(Seq(Byte))
    <3>1. /\ Append(<<sig, key>>, lock) = <<sig, key, lock>>
          /\ <<sig, key, lock>> \in Seq(Seq(Byte))
      BY <1>4, <1>6, <1>7, ThreeOf, Zenon
    <3> QED BY <2>5, <3>1, Zenon
  <2>9. n \in Nat
    BY <1>2
  <2> QED BY <1>1, <1>13, <2>5, <2>7, <2>8, <2>9, Zenon
<1> HIDE DEF n, lock, sig, valid, h, w, t, own, key, signer, Stage
<1>15. n + 1 \in 1 .. Len(Code) /\ n + 2 \in 1 .. Len(Code) /\ n + 3 \in 1 .. Len(Code)
       /\ n + 4 \in 1 .. Len(Code) /\ n + 5 \in 1 .. Len(Code)
       /\ n + 26 \in 1 .. Len(Code) /\ n + 27 \in 1 .. Len(Code)
  BY <1>2
<1>16. /\ n + 2 = n + 1 + 1 /\ n + 3 = n + 2 + 1 /\ n + 4 = n + 3 + 1 /\ n + 5 = n + 4 + 1
       /\ n + 26 = n + 5 + 21 /\ n + 27 = n + 26 + 1 /\ n + 28 = n + 27 + 1
       /\ 1 \in Nat /\ 21 \in Nat
  BY <1>2
<1>17. <<sig, key>> \in Seq(Seq(Byte)) /\ <<valid>> \in Seq(Seq(Byte))
  <2>1. PICK S : S = Seq(Byte) /\ sig \in S /\ key \in S /\ valid \in S
    BY <1>4, <1>7, <1>8
  <2>2. <<sig, key>> \in Seq(S) /\ <<valid>> \in Seq(S)
    BY <2>1
  <2> QED BY <2>1, <2>2
<1>18. <<sig, key, key>> \in Seq(Seq(Byte)) /\ <<sig, key, h>> \in Seq(Seq(Byte))
  BY <1>4, <1>7, ThreeOf, Zenon
<1>19. ASSUME i = 2
       PROVE  \/ GoesTo(o, 3) /\ Due(o)
              \/ Verdict("rejected") /\ Declines(o)
  <2>1. eval.at = n + 1 /\ eval.stack = <<sig, key, lock>>
    BY <1>10, <1>19
  <2>2. Running /\ Op = 177
    BY <1>2, <1>15, <2>1 DEF Running, Op
  <2>3. Depth = 3 /\ Top = lock
    BY <1>4, <1>6, <1>7, <2>1, OfThree
  <2>4. Depth >= 1
    BY <2>3
  <2>5. (CanCheckLockTime => Due(o)) /\ (~CanCheckLockTime => Declines(o))
    BY <1>3, <2>2, <2>3, <2>4, LockPasses, Zenon DEF t, lock
  <2>6. \/ CanCheckLockTime /\ Continue(stack, 1)
        \/ ~CanCheckLockTime /\ Verdict("rejected")
    BY <1>2, <2>2, LockStep
  <2>7. Continue(stack, 1) => GoesTo(o, 3)
    <3>1. n + 2 = at + 1 /\ Stage(3, n + 2, stack)
      BY <1>1, <1>16, <2>1, Zenon
    <3> QED BY <1>11, <1>13, <1>16, <3>1, Zenon
  <2> QED BY <2>5, <2>6, <2>7, Zenon
<1>20. ASSUME i = 3 PROVE GoesTo(o, 4)
  <2>1. eval.at = n + 2 /\ eval.stack = <<sig, key, lock>>
    BY <1>10, <1>20
  <2>2. eval.at \in 1 .. Len(Code) /\ Code[eval.at] = 117
    BY <1>2, <1>15, <2>1
  <2>3. Continue(<<sig, key>>, 1)
    BY <1>2, <1>4, <1>6, <1>7, <2>1, <2>2, DropsLock, Zenon
  <2> QED BY <1>1, <1>13, <1>16, <1>17, <2>1, <2>3, Zenon
<1>21. ASSUME i = 4 PROVE GoesTo(o, 5)
  <2>1. eval.at = n + 3 /\ eval.stack = <<sig, key>>
    BY <1>10, <1>21
  <2>2. eval.at \in 1 .. Len(Code) /\ Code[eval.at] = 118
    BY <1>2, <1>15, <2>1
  <2>3. Continue(<<sig, key, key>>, 1)
    BY <1>2, <1>4, <1>7, <2>1, <2>2, DupsKey, Zenon
  <2> QED BY <1>1, <1>13, <1>16, <1>18, <2>1, <2>3, Zenon
<1>22. ASSUME i = 5 PROVE GoesTo(o, 6)
  <2>1. eval.at = n + 4 /\ eval.stack = <<sig, key, key>>
    BY <1>10, <1>22
  <2>2. eval.at \in 1 .. Len(Code) /\ Code[eval.at] = 169
    BY <1>2, <1>15, <2>1
  <2>3. Continue(<<sig, key, h>>, 1)
    BY <1>2, <1>4, <1>7, <1>12, <2>1, <2>2, HashesKey, Zenon
  <2> QED BY <1>1, <1>13, <1>16, <1>18, <2>1, <2>3, Zenon
<1>23. ASSUME i = 6 PROVE GoesTo(o, 7)
  <2>1. eval.at = n + 5 /\ eval.stack = <<sig, key, h>>
    BY <1>10, <1>23
  <2>2. Running
    BY <1>2, <1>15, <2>1 DEF Running
  <2>3. Lies(Code, eval.at, PushBytes(w)) /\ Len(PushBytes(w)) = 21
    BY <1>2, <2>1, Zenon
  <2>4. Len(w) <= MaxPush
    <3>1. 20 <= MaxPush
      BY SMT DEF MaxPush
    <3> QED BY <1>5, <3>1, Zenon
  <2>5. Continue(Append(eval.stack, w), 21)
    <3>1. eval.at \in Nat \ {0}
      BY <1>11
    <3>2. Code \in Seq(Byte) /\ w \in Seq(Byte) /\ Lies(Code, eval.at, PushBytes(w))
      BY <1>2, <1>5, <2>3
    <3>3. Continue(Append(eval.stack, w), Len(PushBytes(w)))
      BY <2>2, <2>4, <3>1, <3>2, BytesStep, Zenon
    <3> QED BY <2>3, <3>3, Zenon
  <2>6. Append(eval.stack, w) = <<sig, key, h, w>> /\ <<sig, key, h, w>> \in Seq(Seq(Byte))
    BY <1>4, <1>5, <1>7, <2>1, FourOn
  <2> QED BY <1>1, <1>13, <1>16, <2>1, <2>5, <2>6, Zenon
<1>24. ASSUME i = 7
       PROVE  \/ GoesTo(o, 8) /\ SameHash(o)
              \/ Verdict("rejected") /\ Declines(o)
  <2>1. eval.at = n + 26 /\ eval.stack = <<sig, key, h, w>>
    BY <1>10, <1>24
  <2>2. eval.at \in 1 .. Len(Code) /\ Code[eval.at] = 136
    BY <1>2, <1>15, <2>1
  <2>3. \/ w = h /\ Continue(<<sig, key>>, 1)
        \/ w # h /\ Verdict("rejected")
    BY <1>2, <1>4, <1>5, <1>7, <2>1, <2>2, ComparesHashes
  <2>4. Continue(<<sig, key>>, 1) => GoesTo(o, 8)
    BY <1>1, <1>13, <1>16, <1>17, <2>1, Zenon
  <2>5. w = h => SameHash(o)
    BY <1>12, Zenon DEF SameHash, key, own
  <2>6. w # h => Declines(o)
    BY <1>12, Zenon DEF Declines, key, own
  <2> QED BY <2>3, <2>4, <2>5, <2>6, Zenon
<1>25. ASSUME i = 8 PROVE GoesTo(o, 9)
  <2>1. eval.at = n + 27 /\ eval.stack = <<sig, key>>
    BY <1>10, <1>25
  <2>2. eval.at \in 1 .. Len(Code) /\ Code[eval.at] = 172
    BY <1>2, <1>15, <2>1
  <2>3. Continue(<<valid>>, 1)
    BY <1>2, <1>4, <1>7, <1>12, <2>1, <2>2, ChecksSig
  <2> QED BY <1>1, <1>13, <1>16, <1>17, <2>1, <2>3, Zenon
<1>26. ASSUME i = 9
       PROVE  \/ Verdict("accepted") /\ eval.signer = eval.key
              \/ Verdict("rejected") /\ Declines(o)
  <2>1. eval.at = n + 28 /\ eval.stack = <<valid>>
    BY <1>10, <1>26
  <2>2. ~Running
    <3>1. ~(n + 28 \in 1 .. Len(Code))
      BY <1>2
    <3> QED BY <1>2, <2>1, <3>1 DEF Running
  <2>3. Finish
    BY <2>2, Zenon DEF Evaluate, Push, PushSmall, CheckLockTime, Drop, Dup, Hash,
                       EqualVerify, CheckSig, Fail
  <2>4. Depth = 1 /\ Top = valid
    <3>1. PICK s : s = <<valid>>
      OBVIOUS
    <3>2. Len(s) = 1 /\ s[1] = valid
      BY <3>1
    <3>3. Last(s) = valid
      BY <3>2, Zenon DEF Last
    <3> QED BY <2>1, <3>1, <3>2, <3>3, Zenon DEF Depth, Top
  <2>5. Verdict(IF ScriptNumber(valid).bytes # <<>> THEN "accepted" ELSE "rejected")
    BY <2>3, <2>4, Zenon DEF Finish
  <2>6. CASE sig = Sig(key)
    <3>1. ScriptNumber(valid).bytes # <<>>
      BY <1>12, <2>6, TrueIs, Zenon
    <3>2. Verdict("accepted")
      BY <2>5, <3>1, Zenon
    <3> QED BY <1>7, <2>6, <3>2, Zenon DEF key, signer
  <2>7. CASE sig # Sig(key)
    <3>1. ~(ScriptNumber(valid).bytes # <<>>)
      BY <1>12, <2>7, TrueIs, Zenon
    <3>2. Verdict("rejected")
      BY <2>5, <3>1, Zenon
    <3>3. Declines(o)
      BY <2>7, Zenon DEF Declines, sig, key, signer
    <3> QED BY <3>2, <3>3
  <2> QED BY <2>6, <2>7
<1> QED BY <1>14, <1>19, <1>20, <1>21, <1>22, <1>23, <1>24, <1>25, <1>26, Zenon

(* What a step of the node leaves as it is. *)
Kept ==
    /\ eval' \in Evaluation
    /\ eval'.of = eval.of /\ eval'.key = eval.key /\ eval'.signer = eval.signer
    /\ eval'.locktime = eval.locktime /\ eval'.final = eval.final
    /\ UNCHANGED <<buildVars, now>>

(* The reasons stay what they are while the node goes on. *)
LEMMA DueKept ==
  ASSUME NEW o, Kept
  PROVE  (Due(o) => Due(o)') /\ (Declines(o) => Declines(o)')
<1>1. /\ eval'.key = eval.key /\ eval'.signer = eval.signer
      /\ eval'.locktime = eval.locktime /\ eval'.final = eval.final
  BY Zenon DEF Kept
<1>2. PICK l, m : l = eval.locktime /\ m = eval'.locktime
  OBVIOUS
<1>3. Due(o) => Due(o)'
  BY <1>1, Zenon DEF Due
<1>4. Declines(o) => Declines(o)'
  BY <1>1, Zenon DEF Declines
<1> QED BY <1>3, <1>4

(* The node goes on along the script. *)
LEMMA MovesOn ==
  ASSUME eval \in Evaluation, eval.verdict = "running",
         NEW o, NEW j \in 2 .. 9, GoesTo(o, j), j > 2 => Due(o), j > 7 => SameHash(o)
  PROVE  Kept /\ eval'.verdict = "running" /\ ScriptGoesOn(o)'
<1>1. PICK s \in Seq(Seq(Byte)), m \in Nat :
        Continue(s, m) /\ StageOf(o, eval.signer, eval.key, j, eval.at + m, s)
  BY Zenon DEF GoesTo
<1>2. /\ eval' \in Evaluation
      /\ eval'.stack = s /\ eval'.at = eval.at + m
      /\ eval'.of = eval.of /\ eval'.key = eval.key /\ eval'.signer = eval.signer
      /\ eval'.locktime = eval.locktime /\ eval'.final = eval.final
      /\ eval'.verdict = eval.verdict
      /\ UNCHANGED <<buildVars, now>>
  BY <1>1, ContinueIs
<1>3. Kept
  BY <1>2, Zenon DEF Kept
<1>4. /\ eval'.at = Stages(o, eval'.signer, eval'.key)[j].at
      /\ eval'.stack = Stages(o, eval'.signer, eval'.key)[j].stack
  BY <1>1, <1>2, Zenon DEF StageOf
<1>5. j > 2 => Due(o)'
  BY <1>3, DueKept, Zenon
<1>6. j > 7 => Hash160(eval'.key) = Hash160(o.owner_pubkey)
  BY <1>2, Zenon DEF SameHash
<1>7. eval'.verdict = "running" /\ eval'.verdict # "accepted" /\ j \in 1 .. 9
  BY <1>2
<1>8. ScriptGoesOn(o)'
  BY <1>4, <1>5, <1>6, <1>7, Zenon DEF ScriptGoesOn
<1> QED BY <1>3, <1>7, <1>8

(* Or it stops where it is. *)
LEMMA StopsAt ==
  ASSUME eval \in Evaluation, NEW o, NEW i \in 1 .. 9,
         StageOf(o, eval.signer, eval.key, i, eval.at, eval.stack),
         i > 2 => Due(o), i > 7 => SameHash(o),
         NEW v \in {"accepted", "rejected"}, Verdict(v),
         v = "accepted" => i = 9 /\ eval.signer = eval.key
  PROVE  Kept /\ eval'.verdict = v /\ ScriptGoesOn(o)'
<1>1. /\ eval' \in Evaluation
      /\ eval'.stack = eval.stack /\ eval'.at = eval.at
      /\ eval'.of = eval.of /\ eval'.key = eval.key /\ eval'.signer = eval.signer
      /\ eval'.locktime = eval.locktime /\ eval'.final = eval.final
      /\ eval'.verdict = v
      /\ UNCHANGED <<buildVars, now>>
  <2>1. v \in {"running", "accepted", "rejected"}
    OBVIOUS
  <2> QED BY <2>1, VerdictIs
<1>2. Kept
  BY <1>1, Zenon DEF Kept
<1>3. /\ eval'.at = Stages(o, eval'.signer, eval'.key)[i].at
      /\ eval'.stack = Stages(o, eval'.signer, eval'.key)[i].stack
  BY <1>1, Zenon DEF StageOf
<1>4. i > 2 => Due(o)'
  BY <1>2, DueKept, Zenon
<1>5. i > 7 => Hash160(eval'.key) = Hash160(o.owner_pubkey)
  BY <1>1, Zenon DEF SameHash
<1>6. eval'.verdict = "accepted" => i = 9 /\ eval'.signer = eval'.key
  BY <1>1, Zenon
<1>7. ScriptGoesOn(o)'
  BY <1>3, <1>4, <1>5, <1>6, Zenon DEF ScriptGoesOn
<1> QED BY <1>1, <1>2, <1>7

(* One step of the node on the script of an output. *)
LEMMA OutputStep ==
  ASSUME eval \in Evaluation, eval.of = "output", eval.verdict = "running",
         NEW o, OutputIsBuilt(o), Spending, ScriptGoesOn(o), Evaluate
  PROVE  /\ Kept /\ ScriptGoesOn(o)'
         /\ eval'.verdict \in {"running", "accepted", "rejected"}
         /\ eval'.verdict = "rejected" => Declines(o)'
<1>1. PICK i \in 1 .. 9 :
        /\ eval.at = Stages(o, eval.signer, eval.key)[i].at
        /\ eval.stack = Stages(o, eval.signer, eval.key)[i].stack
        /\ i > 2 => Due(o)
        /\ i > 7 => Hash160(eval.key) = Hash160(o.owner_pubkey)
  BY Zenon DEF ScriptGoesOn
<1>2. StageOf(o, eval.signer, eval.key, i, eval.at, eval.stack)
  BY <1>1, Zenon DEF StageOf
<1>3. (i > 2 => Due(o)) /\ (i > 7 => SameHash(o))
  BY <1>1, Zenon DEF SameHash
<1>4. /\ i = 1 => GoesTo(o, 2)
      /\ i = 2 => \/ GoesTo(o, 3) /\ Due(o)
                  \/ Verdict("rejected") /\ Declines(o)
      /\ i = 3 => GoesTo(o, 4)
      /\ i = 4 => GoesTo(o, 5)
      /\ i = 5 => GoesTo(o, 6)
      /\ i = 6 => GoesTo(o, 7)
      /\ i = 7 => \/ GoesTo(o, 8) /\ SameHash(o)
                  \/ Verdict("rejected") /\ Declines(o)
      /\ i = 8 => GoesTo(o, 9)
      /\ i = 9 => \/ Verdict("accepted") /\ eval.signer = eval.key
                  \/ Verdict("rejected") /\ Declines(o)
  BY <1>2, StageStep
<1>5. \/ \E j \in 2 .. 9 : GoesTo(o, j) /\ (j > 2 => Due(o)) /\ (j > 7 => SameHash(o))
      \/ Verdict("rejected") /\ Declines(o)
      \/ Verdict("accepted") /\ i = 9 /\ eval.signer = eval.key
  <2>1. CASE i = 1
    BY <1>3, <1>4, <2>1
  <2>2. CASE i = 2
    BY <1>3, <1>4, <2>2
  <2>3. CASE i = 3
    BY <1>3, <1>4, <2>3
  <2>4. CASE i = 4
    BY <1>3, <1>4, <2>4
  <2>5. CASE i = 5
    BY <1>3, <1>4, <2>5
  <2>6. CASE i = 6
    BY <1>3, <1>4, <2>6
  <2>7. CASE i = 7
    BY <1>3, <1>4, <2>7
  <2>8. CASE i = 8
    BY <1>3, <1>4, <2>8
  <2>9. CASE i = 9
    BY <1>3, <1>4, <2>9
  <2> QED BY <2>1, <2>2, <2>3, <2>4, <2>5, <2>6, <2>7, <2>8, <2>9
<1>6. CASE \E j \in 2 .. 9 : GoesTo(o, j) /\ (j > 2 => Due(o)) /\ (j > 7 => SameHash(o))
  <2>1. Kept /\ eval'.verdict = "running" /\ ScriptGoesOn(o)'
    BY <1>6, MovesOn
  <2> QED BY <2>1
<1>7. CASE Verdict("rejected") /\ Declines(o)
  <2>1. Kept /\ eval'.verdict = "rejected" /\ ScriptGoesOn(o)'
    BY <1>2, <1>3, <1>7, StopsAt
  <2>2. Declines(o)'
    BY <1>7, <2>1, DueKept
  <2> QED BY <2>1, <2>2
<1>8. CASE Verdict("accepted") /\ i = 9 /\ eval.signer = eval.key
  <2>1. Kept /\ eval'.verdict = "accepted" /\ ScriptGoesOn(o)'
    BY <1>2, <1>3, <1>8, StopsAt
  <2> QED BY <2>1
<1> QED BY <1>5, <1>6, <1>7, <1>8

-----------------------------------------------------------------------------
(* The inductive invariant *)

(* The invariant holds in the beginning. *)
LEMMA InitInv == Init => ScriptInv
<1> SUFFICES ASSUME Init PROVE ScriptInv
  OBVIOUS
<1>1. eval = NoEval /\ output = {} /\ script = <<>> /\ pushed = <<>>
      /\ outcome = "none" /\ born = 0 /\ now = 1
  BY Zenon DEF Init
<1>2. eval \in Evaluation /\ eval.of = "none"
  BY <1>1 DEF NoEval, Evaluation
<1>3. TypeOK
  <2>1. Len(Moments) \in Nat /\ Len(Moments) # 0
    BY ClockAssumption
  <2>2. born \in 0 .. Len(Moments) /\ now \in 1 .. Len(Moments)
    BY <1>1, <2>1
  <2>3. script \in Seq(Byte) /\ Len(pushed) \in 0 .. MaxPushes
    BY <1>1, LengthsAssumption
  <2> QED BY <1>1, <1>2, <2>2, <2>3 DEF TypeOK
<1>4. pushed \in Seq(Pushable) /\ Len(pushed) = 0 /\ DOMAIN pushed = {} /\ Len(script) = 0
  BY <1>1
<1>5. LaidOut
  <2>1. EndOf(pushed, 0) = 0
    BY <1>4, EndIs
  <2> QED BY <1>4, <2>1, Zenon DEF LaidOut
<1>6. OpensForOwner
  BY <1>2, Zenon DEF OpensForOwner
<1> QED BY <1>1, <1>2, <1>3, <1>4, <1>5, <1>6 DEF ScriptInv

(* What the node does leaves what has been built as it is. *)
LEMMA NodeKeeps ==
  ASSUME ScriptInv, UNCHANGED buildVars, now' \in 1 .. Len(Moments),
         eval' \in Evaluation, eval'.of = "none" => eval' = NoEval,
         eval'.of = "pushes" => output = {} /\ eval'.verdict # "none" /\ PushesGoOn',
         eval'.of = "output" => Spending',
         OpensForOwner'
  PROVE  ScriptInv'
<1>1. /\ output' = output /\ outcome' = outcome /\ born' = born
      /\ script' = script /\ pushed' = pushed
  BY DEF buildVars
<1>2. TypeOK /\ pushed \in Seq(Pushable) /\ LaidOut /\ \A o \in output : OutputIsBuilt(o)
  BY Zenon DEF ScriptInv
<1>3. TypeOK'
  BY <1>1, <1>2, Zenon DEF TypeOK
<1>4. LaidOut'
  BY <1>1, <1>2, Zenon DEF LaidOut
<1>5. \A o \in output' : OutputIsBuilt(o)'
  BY <1>1, <1>2, Zenon DEF OutputIsBuilt
<1> QED BY <1>1, <1>2, <1>3, <1>4, <1>5, Zenon DEF ScriptInv

(* What the builder does happens before the node looks. *)
LEMMA BuilderKeeps ==
  ASSUME ScriptInv, eval = NoEval, UNCHANGED <<now, eval>>,
         outcome' \in {"none", "returned", "InvalidPubkeyError", "ValidationError",
                       "ScriptError"},
         born' \in 0 .. Len(Moments), script' \in Seq(Byte), Len(pushed') \in 0 .. MaxPushes,
         pushed' \in Seq(Pushable), LaidOut',
         \A o \in output' :
           /\ OutputIsBuilt(o)'
           /\ o.owner_pubkey \in Pubkeys /\ Len(o.owner_pubkey) = 33
           /\ o.owner_pubkey[1] \in {2, 3}
           /\ Len(o.scriptpubkey) = 34 /\ Len(o.internal_key) = 32
  PROVE  ScriptInv'
<1>1. eval'.of = "none" /\ eval' = NoEval
  BY DEF NoEval
<1>2. TypeOK'
  <2>1. eval' \in Evaluation /\ now' \in 1 .. Len(Moments)
    BY Zenon DEF ScriptInv, TypeOK
  <2> QED BY <2>1, Zenon DEF TypeOK
<1>3. OpensForOwner'
  BY <1>1, Zenon DEF OpensForOwner
<1> QED BY <1>1, <1>2, <1>3, Zenon DEF ScriptInv

(* The actions keep it, one by one: a caller builds an output, *)
LEMMA BuildInv ==
  ASSUME ScriptInv, NEW key \in Pubkeys, NEW t \in Number, Len(t.bytes) < MaxPush,
         NEW m \in 0 .. Len(Moments), Build(key, t, m)
  PROVE  ScriptInv'
<1>1. /\ output = {} /\ pushed = <<>> /\ eval = NoEval
      /\ script' = script /\ pushed' = pushed /\ UNCHANGED <<now, eval>>
  BY DEF Build, Building
<1>2. /\ TypeOK /\ pushed \in Seq(Pushable) /\ LaidOut
      /\ born \in 0 .. Len(Moments) /\ script \in Seq(Byte) /\ Len(pushed) \in 0 .. MaxPushes
  BY Zenon DEF ScriptInv, TypeOK
<1>3. /\ script' \in Seq(Byte) /\ pushed' \in Seq(Pushable) /\ LaidOut'
      /\ Len(pushed') \in 0 .. MaxPushes
  BY <1>1, <1>2, Zenon DEF LaidOut
<1>4. ASSUME NEW e \in {"InvalidPubkeyError", "ValidationError"}, Refused(e)
      PROVE  ScriptInv'
  <2>1. output' = {} /\ born' \in 0 .. Len(Moments) /\ outcome' = e
    BY <1>1, <1>2, <1>4 DEF Refused
  <2> QED BY <1>1, <1>3, <2>1, BuilderKeeps
<1>5. ASSUME ValidPubkey(key), ValidTimelock(t), output' = {CollateralOutput(key, t)},
             outcome' = "returned", born' = m
      PROVE  ScriptInv'
  <2>1. PICK o : o = CollateralOutput(key, t)
    OBVIOUS
  <2>2. PICK leaf, code : code = CltvScript(t, key) /\ leaf = LeafHash(code)
    OBVIOUS
  <2>3. o = [cltv_script |-> code, leaf_hash |-> leaf, merkle_root |-> leaf,
             tweak |-> TaprootTweak(NumsXonly, leaf), internal_key |-> NumsXonly,
             scriptpubkey |-> <<Op1, 32>> \o NumsXonly,
             timelock |-> t, owner_pubkey |-> key]
    BY <2>1, <2>2, Zenon DEF CollateralOutput
  <2>4. /\ o.owner_pubkey = key /\ o.timelock = t /\ o.internal_key = NumsXonly
        /\ o.scriptpubkey = <<Op1, 32>> \o NumsXonly
    BY <2>3
  <2>5. OutputIsBuilt(o)'
    <3>1. o = CollateralOutput(o.owner_pubkey, o.timelock)
      BY <2>1, <2>4, Zenon
    <3> QED BY <1>1, <1>5, <2>1, <2>4, <3>1, Zenon DEF OutputIsBuilt
  <2>6. Len(o.internal_key) = 32 /\ Len(o.scriptpubkey) = 34
    <3>1. PICK x, h : x = NumsXonly /\ h = <<Op1, 32>>
      OBVIOUS
    <3>2. x \in Seq(Nat) /\ Len(x) = 32
      BY <3>1 DEF NumsXonly
    <3>3. h \in Seq(Nat) /\ Len(h) = 2
      BY <3>1 DEF Op1
    <3>4. Len(h \o x) = Len(h) + Len(x)
      BY <3>2, <3>3, ConcatProperties, Zenon
    <3>5. Len(h \o x) = 34
      BY <3>2, <3>3, <3>4
    <3> QED BY <2>4, <3>1, <3>2, <3>5, Zenon
  <2>7. Len(key) = 33 /\ key[1] \in {2, 3}
    BY <1>5 DEF ValidPubkey
  <2>8. output' = {o}
    BY <1>5, <2>1
  <2>9. \A x \in output' :
          /\ OutputIsBuilt(x)'
          /\ x.owner_pubkey \in Pubkeys /\ Len(x.owner_pubkey) = 33
          /\ x.owner_pubkey[1] \in {2, 3}
          /\ Len(x.scriptpubkey) = 34 /\ Len(x.internal_key) = 32
    <3> TAKE x \in output'
    <3>1. x = o
      BY <2>8
    <3> QED BY <2>4, <2>5, <2>6, <2>7, <3>1, Zenon
  <2>10. born' \in 0 .. Len(Moments)
    BY <1>5
  <2> QED BY <1>1, <1>3, <1>5, <2>9, <2>10, BuilderKeeps
<1> QED BY <1>4, <1>5 DEF Build

(* puts another push behind the others, *)
LEMMA ComposedInv ==
  ASSUME ScriptInv, Composing, NEW x \in Pushable, script' = script \o Piece(x),
         pushed' = Append(pushed, x), outcome' = "returned", UNCHANGED <<output, born, now, eval>>
  PROVE  ScriptInv'
<1>1. eval = NoEval /\ output' = {} /\ born' = born /\ UNCHANGED <<now, eval>>
  BY DEF Composing
<1>2. /\ pushed \in Seq(Pushable) /\ LaidOut
      /\ born \in 0 .. Len(Moments) /\ script \in Seq(Byte)
  BY Zenon DEF ScriptInv, TypeOK
<1>3. LaidAs(pushed, script)
  BY <1>2, Zenon DEF LaidOut, LaidAs
<1>4. LaidAs(pushed', script')
  BY <1>2, <1>3, LaidOn, Zenon
<1>5. LaidOut'
  BY <1>4, Zenon DEF LaidOut, LaidAs
<1>6. pushed' \in Seq(Pushable) /\ Len(pushed') \in 0 .. MaxPushes
  <2>1. Len(pushed) < MaxPushes
    BY Zenon DEF Composing
  <2> QED BY <1>2, <2>1, LengthsAssumption
<1>7. script' \in Seq(Byte)
  <2>1. Piece(x) \in Seq(Byte)
    BY PieceType
  <2> QED BY <1>2, <2>1
<1> QED BY <1>1, <1>2, <1>5, <1>6, <1>7, BuilderKeeps

(* of a number *)
LEMMA ComposeNumberInv ==
  ASSUME ScriptInv, NEW n \in Numbers, ComposeNumber(n)
  PROVE  ScriptInv'
<1>1. PICK x : x = [kind |-> "number", value |-> n]
  OBVIOUS
<1>2. n \in Number /\ Len(n.bytes) < MaxPush
  BY NumbersAssumption
<1>3. x \in Pushable /\ x.kind # "data" /\ x.value = n
  BY <1>1, <1>2 DEF Pushable
<1>4. Piece(x) = PushNumber(n)
  BY <1>3, Zenon DEF Piece
<1>5. /\ Composing /\ script' = script \o Piece(x) /\ pushed' = Append(pushed, x)
      /\ outcome' = "returned" /\ UNCHANGED <<output, born, now, eval>>
  BY <1>1, <1>4, Zenon DEF ComposeNumber
<1> QED BY <1>3, <1>5, ComposedInv

(* or of data; *)
LEMMA ComposeDataInv ==
  ASSUME ScriptInv, NEW length \in Lengths, ComposeData(length)
  PROVE  ScriptInv'
<1>1. Composing /\ UNCHANGED <<output, born, now, eval>>
  BY Zenon DEF ComposeData
<1>2. CASE length > MaxPush /\ outcome' = "ScriptError" /\ UNCHANGED <<script, pushed>>
  <2>1. eval = NoEval /\ output' = {} /\ born' = born /\ UNCHANGED <<now, eval>>
    BY <1>1 DEF Composing
  <2>2. /\ pushed \in Seq(Pushable) /\ LaidOut
        /\ born \in 0 .. Len(Moments) /\ script \in Seq(Byte) /\ Len(pushed) \in 0 .. MaxPushes
    BY Zenon DEF ScriptInv, TypeOK
  <2>3. script' = script /\ pushed' = pushed
    BY <1>2
  <2>4. LaidOut'
    BY <2>2, <2>3, Zenon DEF LaidOut
  <2> QED BY <1>2, <2>1, <2>2, <2>3, <2>4, BuilderKeeps
<1>3. CASE ~(length > MaxPush /\ outcome' = "ScriptError" /\ UNCHANGED <<script, pushed>>)
  <2>1. PICK data, x : data = Data(length) /\ x = [kind |-> "data", value |-> data]
    OBVIOUS
  <2>2. /\ length <= MaxPush /\ script' = script \o PushBytes(data)
        /\ pushed' = Append(pushed, x) /\ outcome' = "returned"
    BY <1>3, <2>1, Zenon DEF ComposeData
  <2>3. data \in Seq(Byte) /\ Len(data) = length
    <3>1. length \in Nat /\ OpDrop \in Byte
      BY LengthsAssumption DEF OpDrop, Byte
    <3> QED BY <2>1, <3>1 DEF Data
  <2>4. x \in Pushable /\ x.kind = "data" /\ x.value = data
    BY <2>1, <2>2, <2>3 DEF Pushable
  <2>5. Piece(x) = PushBytes(data)
    BY <2>4, Zenon DEF Piece
  <2> QED BY <1>1, <2>2, <2>4, <2>5, ComposedInv
<1> QED BY <1>2, <1>3

(* blocks come; *)
LEMMA TickInv ==
  ASSUME ScriptInv, Tick
  PROVE  ScriptInv'
<1>1. /\ eval' = eval /\ UNCHANGED buildVars /\ now < Len(Moments) /\ now' = now + 1
      /\ eval.verdict \notin {"running", "accepted"}
  BY DEF Tick, Idle
<1>2. now' \in 1 .. Len(Moments)
  <2>1. now \in 1 .. Len(Moments)
    BY Zenon DEF ScriptInv, TypeOK
  <2>2. Len(Moments) \in Nat
    BY ClockAssumption
  <2> QED BY <1>1, <2>1, <2>2
<1>3. /\ eval' \in Evaluation /\ (eval'.of = "none" => eval' = NoEval)
      /\ OpensForOwner
  BY <1>1, Zenon DEF ScriptInv, TypeOK
<1>4. output' = output /\ pushed' = pushed
  BY <1>1 DEF buildVars
<1>5. OpensForOwner'
  BY <1>1, <1>3, <1>4, Zenon DEF OpensForOwner
<1>6. ASSUME eval'.of = "pushes"
      PROVE  output = {} /\ eval'.verdict # "none" /\ PushesGoOn'
  <2>1. output = {} /\ eval.verdict # "none" /\ PushesGoOn
    BY <1>1, <1>6, Zenon DEF ScriptInv
  <2> QED BY <1>1, <1>4, <2>1, Zenon DEF PushesGoOn
<1>7. ASSUME eval'.of = "output"
      PROVE  Spending'
  <2>1. Spending
    BY <1>1, <1>7, Zenon DEF ScriptInv
  <2>2. \A o \in output : ScriptGoesOn(o)'
    <3> TAKE o \in output
    <3>1. ScriptGoesOn(o)
      BY <2>1, Zenon DEF Spending
    <3> QED BY <1>1, <3>1, Zenon DEF ScriptGoesOn, Due
  <2>3. eval'.verdict \notin {"running", "accepted"} /\ eval'.verdict # "none"
    BY <1>1, <2>1 DEF Spending
  <2> QED BY <1>1, <1>4, <2>1, <2>2, <2>3, Zenon DEF Spending
<1> QED BY <1>1, <1>2, <1>3, <1>5, <1>6, <1>7, NodeKeeps

(* a transaction comes for the output, *)
LEMMA SpendInv ==
  ASSUME ScriptInv, NEW key \in Pubkeys, NEW signer \in Pubkeys, NEW l \in Seq(Byte),
         NEW f \in BOOLEAN, ValidPubkey(key), ValidPubkey(signer), Spend(key, signer, l, f)
  PROVE  ScriptInv'
<1>1. /\ output # {} /\ Len(l) <= 4 /\ (f \/ l = <<>> \/ Passed(l))
      /\ UNCHANGED <<buildVars, now>>
  BY Zenon DEF Spend
<1>2. PICK s : s = <<Sig(signer), key>>
  OBVIOUS
<1>3. eval' = [of |-> "output", at |-> 1, stack |-> s, key |-> key, signer |-> signer,
               locktime |-> l, final |-> f, verdict |-> "running"]
  BY <1>2, Zenon DEF Spend
<1>4. /\ eval'.of = "output" /\ eval'.at = 1 /\ eval'.stack = s /\ eval'.key = key
      /\ eval'.signer = signer /\ eval'.locktime = l /\ eval'.final = f
      /\ eval'.verdict = "running"
  BY <1>3
<1>5. key \in Seq(Byte) /\ signer \in Seq(Byte) /\ Sig(signer) \in Seq(Byte)
  BY HashType, SigType
<1>6. s \in Seq(Seq(Byte))
  BY <1>2, <1>5, TwoOf, Zenon
<1>7. eval' \in Evaluation
  BY <1>3, <1>5, <1>6 DEF Evaluation
<1>8. \A o \in output : ScriptGoesOn(o)'
  <2> TAKE o \in output
  <2>1. StageOf(o, signer, key, 1, 1, s)
    BY <1>2, StagesAre, Zenon
  <2>2. /\ eval'.at = Stages(o, eval'.signer, eval'.key)[1].at
        /\ eval'.stack = Stages(o, eval'.signer, eval'.key)[1].stack
    BY <1>4, <2>1, Zenon DEF StageOf
  <2>3. 1 \in 1 .. 9 /\ ~(1 > 2) /\ ~(1 > 7) /\ eval'.verdict # "accepted"
    BY <1>4
  <2> QED BY <2>2, <2>3, Zenon DEF ScriptGoesOn
<1>9. output' = output /\ now' = now
  BY <1>1 DEF buildVars
<1>10. Spending'
  <2>1. eval'.final \/ eval'.locktime = <<>> \/ Passed(eval.locktime)'
    <3>1. Passed(l) => Passed(eval.locktime)'
      BY <1>4, <1>9, Zenon DEF Passed
    <3> QED BY <1>1, <1>4, <3>1
  <2>2. \A k \in {eval'.key, eval'.signer} : k \in Pubkeys /\ ValidPubkey(k)
    BY <1>4
  <2>3. eval'.verdict # "none" /\ Len(eval'.locktime) <= 4 /\ output' # {}
    BY <1>1, <1>4, <1>9
  <2> QED BY <1>8, <1>9, <2>1, <2>2, <2>3, Zenon DEF Spending
<1>11. OpensForOwner'
  BY <1>4, Zenon DEF OpensForOwner
<1>12. now' \in 1 .. Len(Moments)
  BY <1>9, Zenon DEF ScriptInv, TypeOK
<1>13. eval'.of # "none" /\ eval'.of # "pushes"
  BY <1>4
<1> QED BY <1>1, <1>7, <1>10, <1>11, <1>12, <1>13, NodeKeeps, Zenon

(* or the pushes are run; *)
LEMMA RunPushesInv ==
  ASSUME ScriptInv, RunPushes
  PROVE  ScriptInv'
<1>1. /\ pushed # <<>> /\ UNCHANGED <<buildVars, now>>
      /\ eval' = [NoEval EXCEPT !.of = "pushes", !.verdict = "running"]
  BY DEF RunPushes
<1>2. /\ eval'.of = "pushes" /\ eval'.verdict = "running" /\ eval'.at = 1
      /\ eval'.stack = <<>> /\ eval' \in Evaluation
  <2>1. eval' = [of |-> "pushes", at |-> 1, stack |-> <<>>, key |-> <<>>, signer |-> <<>>,
                 locktime |-> <<>>, final |-> TRUE, verdict |-> "running"]
    BY <1>1 DEF NoEval
  <2>2. <<>> \in Seq(Byte) /\ <<>> \in Seq(Seq(Byte)) /\ 1 \in Nat \ {0}
    OBVIOUS
  <2> QED BY <2>1, <2>2 DEF Evaluation
<1>3. output = {}
  <2> SUFFICES ASSUME NEW o \in output PROVE FALSE
    OBVIOUS
  <2>1. pushed = <<>>
    BY Zenon DEF ScriptInv, OutputIsBuilt
  <2> QED BY <1>1, <2>1
<1>4. pushed' = pushed /\ now' = now
  BY <1>1 DEF buildVars
<1>5. PushesGoOn'
  <2>1. pushed \in Seq(Pushable)
    BY Zenon DEF ScriptInv
  <2>2. EndOf(pushed, 0) = 0 /\ 0 \in 0 .. Len(pushed)
    BY <2>1, EndIs
  <2>3. eval'.at = EndOf(pushed, 0) + 1
    BY <1>2, <2>2
  <2>4. eval'.stack = [i \in 1 .. 0 |-> Item(pushed[i])]
    BY <1>2
  <2> QED BY <1>2, <1>4, <2>2, <2>3, <2>4, Zenon DEF PushesGoOn
<1>6. OpensForOwner'
  BY <1>2, Zenon DEF OpensForOwner
<1>7. now' \in 1 .. Len(Moments)
  BY <1>4, Zenon DEF ScriptInv, TypeOK
<1>8. eval'.of # "none" /\ eval'.of # "output" /\ eval'.verdict # "none"
  BY <1>2
<1> QED BY <1>1, <1>2, <1>3, <1>5, <1>6, <1>7, <1>8, NodeKeeps, Zenon

(* the node takes a step. *)
LEMMA EvaluateInv ==
  ASSUME ScriptInv, Evaluate
  PROVE  ScriptInv'
<1>1. eval \in Evaluation /\ now \in 1 .. Len(Moments)
  BY Zenon DEF ScriptInv, TypeOK
<1>2. eval.verdict = "running"
  BY Zenon DEF Evaluate, Push, PushSmall, CheckLockTime, Drop, Dup, Hash, EqualVerify,
               CheckSig, Fail, Finish, Running
<1>3. eval.of \in {"output", "pushes"}
  <2>1. eval.of \in {"none", "output", "pushes"}
    BY <1>1 DEF Evaluation
  <2>2. eval # NoEval
    BY <1>2 DEF NoEval
  <2>3. eval.of # "none"
    BY <2>2, Zenon DEF ScriptInv
  <2> QED BY <2>1, <2>3
<1>4. CASE eval.of = "pushes"
  <2>1. /\ output = {} /\ PushesGoOn /\ pushed \in Seq(Pushable) /\ LaidOut
        /\ script \in Seq(Byte)
    BY <1>4, Zenon DEF ScriptInv, TypeOK
  <2>2. /\ eval' \in Evaluation /\ eval'.of = "pushes" /\ eval'.verdict # "none"
        /\ PushesGoOn' /\ UNCHANGED <<buildVars, now>>
    BY <1>1, <1>2, <1>4, <2>1, PushesStep
  <2>3. eval'.of # "none" /\ eval'.of # "output"
    BY <2>2
  <2>4. OpensForOwner'
    BY <2>3, Zenon DEF OpensForOwner
  <2>5. now' \in 1 .. Len(Moments) /\ UNCHANGED buildVars
    BY <1>1, <2>2
  <2> QED BY <2>1, <2>2, <2>3, <2>4, <2>5, NodeKeeps, Zenon
<1>5. CASE eval.of = "output"
  <2>1. Spending
    BY <1>5, Zenon DEF ScriptInv
  <2>2. PICK o : o \in output
    BY <2>1, Zenon DEF Spending
  <2>3. OutputIsBuilt(o) /\ ScriptGoesOn(o)
    BY <2>1, <2>2, Zenon DEF Spending, ScriptInv
  <2>4. /\ Kept /\ ScriptGoesOn(o)'
        /\ eval'.verdict \in {"running", "accepted", "rejected"}
        /\ eval'.verdict = "rejected" => Declines(o)'
    BY <1>1, <1>2, <1>5, <2>1, <2>3, OutputStep
  <2>5. /\ eval' \in Evaluation
        /\ eval'.of = eval.of /\ eval'.key = eval.key /\ eval'.signer = eval.signer
        /\ eval'.locktime = eval.locktime /\ eval'.final = eval.final
        /\ UNCHANGED <<buildVars, now>>
    BY <2>4, Zenon DEF Kept
  <2>6. output' = {o} /\ output = {o} /\ now' = now /\ UNCHANGED buildVars
    <3>1. output = {o}
      BY <2>3, Zenon DEF OutputIsBuilt
    <3> QED BY <2>5, <3>1 DEF buildVars
  <2>7. \A x \in output' : x = o
    BY <2>6
  <2>8. Spending'
    <3>1. eval.final \/ eval.locktime = <<>> \/ Passed(eval.locktime)
      BY <1>2, <2>1 DEF Spending
    <3>2. Passed(eval.locktime) => Passed(eval.locktime)'
      BY <2>5, <2>6, Zenon DEF Passed
    <3>3. eval'.final \/ eval'.locktime = <<>> \/ Passed(eval.locktime)'
      BY <2>5, <3>1, <3>2, Zenon
    <3>4. \A k \in {eval'.key, eval'.signer} : k \in Pubkeys /\ ValidPubkey(k)
      BY <2>1, <2>5, Zenon DEF Spending
    <3>5. Len(eval'.locktime) <= 4 /\ output' # {} /\ eval'.verdict # "none"
      BY <2>1, <2>4, <2>5, <2>6 DEF Spending
    <3>6. \A x \in output' : ScriptGoesOn(x)'
      BY <2>4, <2>7, Zenon
    <3> QED BY <3>3, <3>4, <3>5, <3>6, Zenon DEF Spending
  <2>9. OpensForOwner'
    BY <2>4, <2>7, Zenon DEF OpensForOwner, Declines
  <2>10. eval'.of # "none" /\ eval'.of # "pushes" /\ now' \in 1 .. Len(Moments)
    BY <1>1, <1>5, <2>5, <2>6
  <2> QED BY <2>5, <2>6, <2>8, <2>9, <2>10, NodeKeeps, Zenon
<1> QED BY <1>3, <1>4, <1>5

(* So every step keeps it. *)
LEMMA ScriptInductive == ScriptInv /\ [Next]_vars => ScriptInv'
<1> SUFFICES ASSUME ScriptInv, [Next]_vars PROVE ScriptInv'
  OBVIOUS
<1>1. now \in 1 .. Len(Moments)
  BY Zenon DEF ScriptInv, TypeOK
<1>2. ASSUME NEW key \in Pubkeys, NEW t \in Timelocks, Build(key, t, 0)
      PROVE  ScriptInv'
  <2>1. t \in Number /\ Len(t.bytes) < MaxPush
    BY NumbersAssumption
  <2>2. 0 \in 0 .. Len(Moments)
    BY ClockAssumption
  <2> QED BY <1>2, <2>1, <2>2, BuildInv
<1>3. ASSUME NEW key \in Pubkeys, Build(key, DefaultTimelock, now)
      PROVE  ScriptInv'
  <2>1. DefaultTimelock \in Number /\ Len(DefaultTimelock.bytes) < MaxPush
    BY DefaultIsNumber
  <2>2. now \in 0 .. Len(Moments)
    BY <1>1
  <2> QED BY <1>3, <2>1, <2>2, BuildInv
<1>4. ASSUME NEW n \in Numbers, ComposeNumber(n)
      PROVE  ScriptInv'
  BY <1>4, ComposeNumberInv
<1>5. ASSUME NEW length \in Lengths, ComposeData(length)
      PROVE  ScriptInv'
  BY <1>5, ComposeDataInv
<1>6. CASE Tick
  BY <1>6, TickInv
<1>7. ASSUME NEW key \in {k \in Pubkeys : ValidPubkey(k)},
             NEW signer \in {k \in Pubkeys : ValidPubkey(k)},
             NEW l \in Locktimes, NEW f \in BOOLEAN, Spend(key, signer, l, f)
      PROVE  ScriptInv'
  <2>1. l \in Seq(Byte)
    BY LocksAssumption DEF Magnitude
  <2> QED BY <1>7, <2>1, SpendInv
<1>8. CASE OwnerSpends
  <2>1. PICK o \in output : Spend(o.owner_pubkey, o.owner_pubkey, o.timelock.bytes, FALSE)
    BY <1>8, Zenon DEF OwnerSpends
  <2>2. o.owner_pubkey \in Pubkeys /\ ValidPubkey(o.owner_pubkey) /\ o.timelock \in Number
    BY Zenon DEF ScriptInv, OutputIsBuilt
  <2>3. o.timelock.bytes \in Seq(Byte)
    BY <2>2 DEF Number, Magnitude
  <2> QED BY <2>1, <2>2, <2>3, SpendInv
<1>9. CASE RunPushes
  BY <1>9, RunPushesInv
<1>10. CASE Evaluate
  BY <1>10, EvaluateInv
<1>11. CASE UNCHANGED vars
  <2>1. UNCHANGED <<buildVars, now, eval>>
    BY <1>11, Zenon DEF vars
  <2>2. /\ output' = output /\ outcome' = outcome /\ born' = born /\ script' = script
        /\ pushed' = pushed /\ now' = now /\ eval' = eval
    BY <2>1 DEF buildVars
  <2>3. /\ TypeOK' /\ LaidOut' /\ pushed' \in Seq(Pushable)
        /\ (eval'.of = "none" => eval' = NoEval) /\ OpensForOwner'
    BY <2>2, Zenon DEF ScriptInv, TypeOK, LaidOut, OpensForOwner
  <2>4. \A o \in output' : OutputIsBuilt(o)'
    BY <2>2, Zenon DEF ScriptInv, OutputIsBuilt
  <2>5. eval'.of = "pushes" => output' = {} /\ eval'.verdict # "none" /\ PushesGoOn'
    BY <2>2, Zenon DEF ScriptInv, PushesGoOn
  <2>6. eval'.of = "output" => Spending'
    <3>1. eval.of = "output" => Spending
      BY Zenon DEF ScriptInv
    <3>2. \A o : ScriptGoesOn(o) => ScriptGoesOn(o)'
      BY <2>2, Zenon DEF ScriptGoesOn, Due
    <3>3. Passed(eval.locktime) => Passed(eval.locktime)'
      BY <2>2, Zenon DEF Passed
    <3> QED BY <2>2, <3>1, <3>2, <3>3, Zenon DEF Spending
  <2> QED BY <2>3, <2>4, <2>5, <2>6, Zenon DEF ScriptInv
<1> QED BY <1>2, <1>3, <1>4, <1>5, <1>6, <1>7, <1>8, <1>9, <1>10, <1>11, Zenon DEF Next

(* Every behaviour keeps the inductive invariant: pushes lie one behind    *)
(* the other, an output is what its terms say, and the node is at one of   *)
(* the nine stages of the script with the stack of this stage.             *)
THEOREM ScriptInvariant == Spec => []ScriptInv
<1>1. Init => ScriptInv
  BY InitInv
<1>2. ScriptInv /\ [Next]_vars => ScriptInv'
  BY ScriptInductive
<1> QED BY <1>1, <1>2, PTL DEF Spec

-----------------------------------------------------------------------------
(* What follows from it *)

(* What the node has accepted is due, and its owner's. *)
LEMMA LocktimePassed ==
  ASSUME ScriptInv, eval.of = "output", eval.verdict = "accepted", NEW o \in output
  PROVE  /\ Due(o) /\ eval.signer = eval.key /\ eval.key = o.owner_pubkey
         /\ eval.locktime # <<>>
<1>1. Spending /\ OutputIsBuilt(o) /\ ScriptGoesOn(o)
  BY Zenon DEF ScriptInv, Spending
<1>2. PICK i \in 1 .. 9 :
        /\ i > 2 => Due(o)
        /\ i > 7 => Hash160(eval.key) = Hash160(o.owner_pubkey)
        /\ i = 9 /\ eval.signer = eval.key
  BY <1>1, Zenon DEF ScriptGoesOn
<1>3. i > 2 /\ i > 7
  BY <1>2
<1>4. Due(o) /\ Hash160(eval.key) = Hash160(o.owner_pubkey)
  BY <1>2, <1>3
<1>5. eval.key \in Pubkeys /\ ValidPubkey(eval.key)
  BY <1>1, Zenon DEF Spending
<1>6. o.owner_pubkey \in Pubkeys /\ ValidPubkey(o.owner_pubkey)
  BY <1>1, Zenon DEF OutputIsBuilt
<1>7. eval.key = o.owner_pubkey
  BY <1>4, <1>5, <1>6, HashAssumption
<1>8. ASSUME eval.locktime = <<>> PROVE FALSE
  <2>1. o.timelock.bytes \in Seq(Byte) /\ o.timelock.bytes # <<>>
    BY <1>1 DEF OutputIsBuilt, Number, Magnitude, ValidTimelock
  <2>2. Len(eval.locktime) < Len(o.timelock.bytes)
    BY <1>8, <2>1
  <2>3. Less(eval.locktime, o.timelock.bytes)
    BY <2>2, Zenon DEF Less
  <2> QED BY <1>4, <2>3, Zenon DEF Due
<1> QED BY <1>2, <1>4, <1>7, <1>8

(* The invariant is strong enough for every promise. *)
LEMMA ClosedHolds == ScriptInv => ClosedUntilDue
<1> SUFFICES ASSUME ScriptInv, eval.of = "output", eval.verdict = "accepted", NEW o \in output
             PROVE  /\ eval.key = o.owner_pubkey /\ eval.signer = o.owner_pubkey
                    /\ Passed(o.timelock.bytes)
  BY DEF ClosedUntilDue
<1>1. /\ Due(o) /\ eval.signer = eval.key /\ eval.key = o.owner_pubkey
      /\ eval.locktime # <<>>
  BY LocktimePassed
<1>2. Spending /\ eval \in Evaluation /\ now \in 1 .. Len(Moments) /\ OutputIsBuilt(o)
  BY Zenon DEF ScriptInv, TypeOK
<1>3. Passed(eval.locktime)
  BY <1>1, <1>2 DEF Spending, Due
<1>4. PICK l, t, c : /\ l = eval.locktime /\ t = o.timelock.bytes
                     /\ c = IF IsHeight(l) THEN BytesOf[Moments[now].height]
                                           ELSE Moments[now].time
  OBVIOUS
<1>5. Less(l, c) /\ ~Less(l, t) /\ (IsHeight(t) <=> IsHeight(l))
  BY <1>1, <1>3, <1>4, Zenon DEF Passed, Due
<1>6. l \in Seq(Byte) /\ t \in Seq(Byte)
  BY <1>2, <1>4 DEF Evaluation, OutputIsBuilt, Number, Magnitude
<1>7. c \in Seq(Byte)
  <2>1. Moments[now] \in Moment
    BY <1>2, ClockAssumption, ElementOfSeq
  <2>2. Moments[now].height \in Nat /\ Moments[now].time \in Seq(Byte)
    BY <2>1 DEF Moment, Magnitude
  <2>3. BytesOf[Moments[now].height] \in Seq(Byte)
    BY <2>2, BytesType
  <2> QED BY <1>4, <2>2, <2>3, Zenon
<1>8. Less(t, c)
  BY <1>5, <1>6, <1>7, LessFollows
<1>9. c = IF IsHeight(t) THEN BytesOf[Moments[now].height] ELSE Moments[now].time
  BY <1>4, <1>5, Zenon
<1>10. Passed(t)
  BY <1>8, <1>9, Zenon DEF Passed
<1> QED BY <1>1, <1>4, <1>10

LEMMA TweakHolds == ScriptInv => TweakCommits
<1> SUFFICES ASSUME ScriptInv, NEW o \in output, NEW t \in Timelocks, NEW key \in Pubkeys,
                    ValidPubkey(key), ValidTimelock(t),
                    CollateralOutput(key, t).tweak = o.tweak
             PROVE  t = o.timelock /\ key = o.owner_pubkey
  BY DEF TweakCommits
<1>1. OutputIsBuilt(o)
  BY Zenon DEF ScriptInv
<1>2. t \in Number /\ Len(t.bytes) < MaxPush
  BY NumbersAssumption
<1>3. PICK u, k : u = o.timelock /\ k = o.owner_pubkey
  OBVIOUS
<1>4. u \in Number /\ Len(u.bytes) < MaxPush /\ k \in Pubkeys /\ ValidPubkey(k)
  BY <1>1, <1>3, Zenon DEF OutputIsBuilt
<1>5. CollateralOutput(key, t).tweak = CollateralOutput(k, u).tweak
  BY <1>1, <1>3, Zenon DEF OutputIsBuilt
<1> QED BY <1>2, <1>3, <1>4, <1>5, TweakDiffers

LEMMA PushesHold == ScriptInv => PushesArrive
<1> SUFFICES ASSUME ScriptInv, eval.of = "pushes", eval.verdict # "running"
             PROVE  /\ Len(eval.stack) = Len(pushed)
                    /\ \A i \in DOMAIN pushed : LET item == eval.stack[i] IN
                         IF pushed[i].kind = "data" THEN item = pushed[i].value
                         ELSE Minimal(item) /\ ScriptNumber(item) = pushed[i].value
  BY DEF PushesArrive
<1>1. pushed \in Seq(Pushable) /\ PushesGoOn
  BY Zenon DEF ScriptInv
<1>2. PICK k : k = Len(pushed) /\ eval.stack = [i \in 1 .. k |-> Item(pushed[i])]
  BY <1>1, Zenon DEF PushesGoOn
<1>3. k \in Nat /\ DOMAIN pushed = 1 .. k
  BY <1>1, <1>2
<1>4. Len(eval.stack) = k
  BY <1>2, <1>3
<1>5. ASSUME NEW i \in DOMAIN pushed
      PROVE  IF pushed[i].kind = "data" THEN eval.stack[i] = pushed[i].value
             ELSE Minimal(eval.stack[i]) /\ ScriptNumber(eval.stack[i]) = pushed[i].value
  <2>1. PICK x : x = pushed[i]
    OBVIOUS
  <2>2. x \in Pushable
    BY <1>1, <1>2, <1>3, <2>1, ElementOfSeq
  <2>3. eval.stack[i] = Item(x)
    BY <1>2, <1>3, <2>1
  <2>4. CASE x.kind = "data"
    BY <2>1, <2>3, <2>4, Zenon DEF Item
  <2>5. CASE x.kind # "data"
    <3>1. x.value \in Number
      BY <2>2, <2>5, Zenon DEF Pushable
    <3>2. PICK n : n = x.value
      OBVIOUS
    <3>3. Minimal(EncodeScriptNumber(n)) /\ ScriptNumber(EncodeScriptNumber(n)) = n
      BY <3>1, <3>2, NumberRoundTrip
    <3>4. eval.stack[i] = EncodeScriptNumber(n)
      BY <2>3, <2>5, <3>2, Zenon DEF Item
    <3> QED BY <2>1, <2>5, <3>2, <3>3, <3>4, Zenon
  <2> QED BY <2>4, <2>5
<1> QED BY <1>2, <1>4, <1>5

LEMMA LeafHolds == ScriptInv => LeafIsOfScript
<1> SUFFICES ASSUME ScriptInv PROVE LeafIsOfScript
  OBVIOUS
<1>1. script \in Seq(Byte)
  BY Zenon DEF ScriptInv, TypeOK
<1>2. PICK data, header : data = LeafHash(script)[2] /\ header = LeafHeader(data)
  OBVIOUS
<1>3. /\ Len(data) = header.size + header.length
      /\ SubSeq(data, header.size + 1, Len(data)) = script
  BY <1>1, <1>2, LeafReads
<1> QED BY <1>2, <1>3, Zenon DEF LeafIsOfScript

-----------------------------------------------------------------------------
(* Every variable keeps its type; an output is for a valid key and its     *)
(* scripts have the documented lengths (scripts.py:372-413).               *)
THEOREM ScriptTypeCorrect == Spec => []TypeOK
<1>1. ScriptInv => TypeOK
  BY Zenon DEF ScriptInv
<1> QED BY <1>1, ScriptInvariant, PTL

(* An output never opens to anyone but its owner, nor before the chain has *)
(* passed its timelock, for timelocks of any size and transactions with    *)
(* any lock time (scripts.py:169-209).                                     *)
THEOREM ClosedUntilDueAlways == Spec => []ClosedUntilDue
BY ClosedHolds, ScriptInvariant, PTL

(* The script never rejects a transaction of the owner with a lock time of *)
(* the right kind, high enough and in force (scripts.py:199-207).          *)
THEOREM OpensForOwnerAlways == Spec => []OpensForOwner
<1>1. ScriptInv => OpensForOwner
  BY Zenon DEF ScriptInv
<1> QED BY <1>1, ScriptInvariant, PTL

(* No other timelock and no other key gives the tweak of the output        *)
(* (scripts.py:232-269, 400-413).                                          *)
THEOREM TweakAlwaysCommits == Spec => []TweakCommits
BY TweakHolds, ScriptInvariant, PTL

(* Whatever numbers and data have been pushed, in whatever order and       *)
(* number, are on the stack at the end, the numbers in their shortest form *)
(* (scripts.py:87-139).                                                    *)
THEOREM PushesAlwaysArrive == Spec => []PushesArrive
BY PushesHold, ScriptInvariant, PTL

(* The leaf hash is of the length of the script and the whole script,      *)
(* whatever has been pushed (scripts.py:232-241, 474-482).                 *)
THEOREM LeafIsAlwaysOfScript == Spec => []LeafIsOfScript
BY LeafHolds, ScriptInvariant, PTL
=============================================================================
