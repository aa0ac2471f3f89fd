---------------------------- MODULE PayloadProofs ----------------------------
(***************************************************************************)
(* Proofs about Payloads: what is written into a data output reads back to *)
(* what it was written from, for every amount, wherever it stands.         *)
(***************************************************************************)
EXTENDS Payloads, SequenceTheorems, TLAPS

-----------------------------------------------------------------------------
(* Numbers *)

(* A minimum and a maximum are what their names say. *)
LEMMA MinIs ==
  ASSUME NEW S \in SUBSET Int, NEW m \in S, \A x \in S : m <= x
  PROVE  Min(S) = m
<1> DEFINE c == CHOOSE x \in S : \A y \in S : x <= y
<1>1. c \in S /\ \A y \in S : c <= y
  OBVIOUS
<1> HIDE DEF c
<1>2. c <= m /\ m <= c /\ c \in Int /\ m \in Int
  BY <1>1
<1> QED BY <1>2 DEF Min, c

LEMMA MaxIs ==
  ASSUME NEW S \in SUBSET Int, NEW m \in S, \A x \in S : m >= x
  PROVE  Max(S) = m
<1> DEFINE c == CHOOSE x \in S : \A y \in S : x >= y
<1>1. c \in S /\ \A y \in S : c >= y
  OBVIOUS
<1> HIDE DEF c
<1>2. c >= m /\ m >= c /\ c \in Int /\ m \in Int
  BY <1>1
<1> QED BY <1>2 DEF Max, c

(* What stands where in two sequences joined, and in a part of one. *)
LEMMA Joined ==
  ASSUME NEW s \in Seq(Nat), NEW t \in Seq(Nat)
  PROVE  /\ s \o t \in Seq(Nat) /\ Len(s \o t) = Len(s) + Len(t)
         /\ \A i \in 1 .. Len(s) : (s \o t)[i] = s[i]
         /\ \A i \in 1 .. Len(t) : (s \o t)[Len(s) + i] = t[i]
<1>1. /\ s \o t \in Seq(Nat) /\ Len(s \o t) = Len(s) + Len(t)
      /\ \A i \in 1 .. Len(s) + Len(t) :
           (s \o t)[i] = IF i <= Len(s) THEN s[i] ELSE t[i - Len(s)]
  BY ConcatProperties, Zenon
<1>2. Len(s) \in Nat /\ Len(t) \in Nat
  OBVIOUS
<1>3. ASSUME NEW i \in 1 .. Len(s)
      PROVE  (s \o t)[i] = s[i]
  BY <1>1, <1>2
<1>4. ASSUME NEW i \in 1 .. Len(t)
      PROVE  (s \o t)[Len(s) + i] = t[i]
  <2>1. /\ Len(s) + i \in 1 .. Len(s) + Len(t) /\ ~(Len(s) + i <= Len(s))
        /\ (Len(s) + i) - Len(s) = i
    BY <1>2
  <2> QED BY <1>1, <2>1
<1> QED BY <1>1, <1>3, <1>4

LEMMA PartIs ==
  ASSUME NEW s \in Seq(Nat), NEW t \in Seq(Nat), NEW m \in Nat, NEW n \in Nat,
         Len(t) = n, \A i \in 1 .. n : s[m + i] = t[i]
  PROVE  SubSeq(s, m + 1, m + n) = t
<1> DEFINE a == m + 1
           b == m + n
           p == SubSeq(s, a, b)
<1>1. a \in Int /\ b \in Int /\ b - a + 1 = n /\ (IF a <= b THEN b - a + 1 ELSE 0) = n
  OBVIOUS
<1>2. \A i \in a .. b : s[i] \in Nat
  <2>1. ASSUME NEW i \in a .. b
        PROVE  s[i] \in Nat
    <3>1. i - m \in 1 .. n /\ m + (i - m) = i
      OBVIOUS
    <3>2. s[i] = t[i - m]
      BY <3>1
    <3> QED BY <3>1, <3>2
  <2> QED BY <2>1
<1> HIDE DEF a, b
<1>3. /\ p \in Seq(Nat) /\ Len(p) = IF a <= b THEN b - a + 1 ELSE 0
      /\ \A i \in 1 .. b - a + 1 : p[i] = s[a + i - 1]
  BY <1>1, <1>2, SubSeqProperties, SMT
<1>4. \A i \in 1 .. n : p[i] = t[i]
  <2>1. ASSUME NEW i \in 1 .. n
        PROVE  p[i] = t[i]
    <3>1. a + i - 1 = m + i
      BY DEF a
    <3> QED BY <1>1, <1>3, <3>1
  <2> QED BY <2>1
<1> HIDE DEF p
<1>5. p = t
  BY <1>1, <1>3, <1>4, SeqEqual
<1> QED BY <1>5 DEF p, a, b

(* The digits of an amount, the last of which is not zero. *)
LEMMA Digits ==
  ASSUME NEW amount \in Amount
  PROVE  /\ amount \in Seq(Nat) /\ Len(amount) \in Nat
         /\ DOMAIN amount = 1 .. Len(amount)
         /\ \A i \in 1 .. Len(amount) : amount[i] \in 0 .. 127
         /\ amount = <<>> <=> Len(amount) = 0
         /\ amount # <<>> => amount[Len(amount)] # 0
<1> DEFINE D == 0 .. 127
<1>1. amount \in Seq(D) /\ (amount = <<>> \/ amount[Len(amount)] # 0)
  BY DEF Amount, Last
<1>2. D \subseteq Nat
  OBVIOUS
<1> HIDE DEF D
<1>3. /\ Len(amount) \in Nat /\ DOMAIN amount = 1 .. Len(amount)
      /\ \A i \in 1 .. Len(amount) : amount[i] \in D
  BY <1>1
<1>4. amount \in Seq(Nat)
  BY <1>1, <1>2, SeqMonotonic
<1>5. amount = <<>> <=> Len(amount) = 0
  BY <1>1
<1> QED BY <1>1, <1>3, <1>4, <1>5 DEF D

(* An amount keeps its digits when it is stripped of leading zeroes. *)
LEMMA NothingToStrip ==
  ASSUME NEW amount \in Amount
  PROVE  Stripped(amount) = amount
<1> DEFINE k == Len(amount)
           S == {0} \cup {i \in DOMAIN amount : amount[i] # 0}
<1>1. k \in S
  BY Digits
<1>2. \A x \in S : k >= x
  BY Digits
<1>3. S \in SUBSET Int
  BY Digits
<1>4. Max(S) = k
  BY <1>1, <1>2, <1>3, MaxIs
<1>5. SubSeq(amount, 1, k) = amount
  BY Digits, SubSeqFull
<1> QED BY <1>4, <1>5 DEF Stripped

-----------------------------------------------------------------------------
(* Variable-length integers *)

(* One byte to a digit, and one for zero; only the last one is below 128.  *)
LEMMA Encoded ==
  ASSUME NEW amount \in Amount
  PROVE  LET bytes == EncodeLeb128(amount)
             k     == Len(bytes) IN
         /\ k = (IF amount = <<>> THEN 1 ELSE Len(amount)) /\ k \in Nat \ {0}
         /\ bytes \in Seq(Nat) /\ DOMAIN bytes = 1 .. k
         /\ \A i \in 1 .. k : bytes[i] < 128 <=> i = k
         /\ amount = <<>> => bytes[1] = 0
         /\ amount # <<>> => \A i \in 1 .. k : bytes[i] % 128 = amount[i]
<1>1. CASE amount = <<>>
  <2> DEFINE bytes == <<0>>
  <2>1. EncodeLeb128(amount) = bytes
    BY <1>1 DEF EncodeLeb128
  <2>2. bytes \in Seq(Nat) /\ Len(bytes) = 1 /\ DOMAIN bytes = 1 .. 1 /\ bytes[1] = 0
    OBVIOUS
  <2> HIDE DEF bytes
  <2>3. \A i \in 1 .. 1 : bytes[i] < 128 <=> i = 1
    BY <2>2
  <2>4. Len(bytes) \in Nat \ {0}
    BY <2>2
  <2> QED BY <1>1, <2>1, <2>2, <2>3, <2>4, Zenon
<1>2. CASE amount # <<>>
  <2> DEFINE n == Len(amount)
             bytes == [i \in 1 .. n |-> IF i = n THEN amount[i] ELSE amount[i] + 128]
  <2>1. EncodeLeb128(amount) = bytes
    BY <1>2, Digits DEF EncodeLeb128
  <2>2. n \in Nat \ {0} /\ \A i \in 1 .. n : amount[i] \in 0 .. 127
    BY <1>2, Digits
  <2> HIDE DEF n
  <2>3. \A i \in 1 .. n : bytes[i] \in Nat /\ (bytes[i] < 128 <=> i = n)
    BY <2>2
  <2>4. \A i \in 1 .. n : bytes[i] % 128 = amount[i]
    BY <2>2
  <2>5. DOMAIN bytes = 1 .. n /\ bytes \in Seq(Nat) /\ Len(bytes) = n
    BY <2>2, <2>3, IsASeq
  <2> HIDE DEF bytes
  <2> QED BY <1>2, <2>1, <2>2, <2>3, <2>4, <2>5 DEF n
<1> QED BY <1>1, <1>2

(* Wherever the bytes of an amount stand, and whatever follows them, they  *)
(* read back to the amount if they are ten or fewer; more are an error and *)
(* never another amount.                                                   *)
THEOREM Leb128ReadsBack ==
  ASSUME NEW amount \in Amount, NEW data \in Seq(Nat), NEW offset \in Nat,
         offset + Len(EncodeLeb128(amount)) <= Len(data),
         \A i \in DOMAIN EncodeLeb128(amount) : data[offset + i] = EncodeLeb128(amount)[i]
  PROVE  DecodeLeb128(data, offset) =
           IF Len(amount) <= 10
           THEN {[value |-> amount, consumed |-> Len(EncodeLeb128(amount))]}
           ELSE Unreadable
<1> DEFINE bytes == EncodeLeb128(amount)
           k     == Len(bytes)
           E     == Ends(data, offset)
<1>1. k \in Nat /\ k >= 1
  BY Encoded
<1>2. /\ k = (IF amount = <<>> THEN 1 ELSE Len(amount))
      /\ DOMAIN bytes = 1 .. k
      /\ \A i \in 1 .. k : bytes[i] < 128 <=> i = k
      /\ amount = <<>> => bytes[1] = 0
      /\ amount # <<>> => \A i \in 1 .. k : bytes[i] % 128 = amount[i]
  BY Encoded
<1>3. Len(amount) \in Nat /\ (Len(amount) <= 10 <=> k <= 10)
  BY <1>2, Digits
<1>4. Len(data) \in Nat /\ offset + k <= Len(data)
      /\ \A i \in 1 .. k : data[offset + i] = bytes[i]
  BY <1>2
<1> HIDE DEF bytes, k
<1>5. \A n \in 1 .. 10 : n <= k => (n \in E <=> n = k)
  BY <1>2, <1>4 DEF Ends
<1>6. E \subseteq 1 .. 10
  BY DEF Ends
<1> HIDE DEF E
<1>7. CASE k <= 10
  <2>1. k \in E /\ E \in SUBSET Int /\ \A x \in E : k <= x
    <3>1. k \in 1 .. 10
      BY <1>1, <1>7
    <3>2. ASSUME NEW x \in E
          PROVE  x \in 1 .. 10 /\ k <= x
      <4>1. x \in 1 .. 10
        BY <1>6
      <4> QED BY <1>1, <1>5, <4>1
    <3> QED BY <1>5, <3>1, <3>2
  <2>2. Min(E) = k /\ E # {}
    BY <2>1, MinIs
  <2> DEFINE digits == [i \in 1 .. k |-> data[offset + i] % 128]
  <2>3. Stripped(digits) = amount
    <3>1. CASE amount = <<>>
      <4>1. k = 1 /\ data[offset + 1] = 0
        BY <1>2, <1>4, <3>1
      <4>2. digits = [i \in 1 .. 1 |-> 0]
        BY <4>1
      <4> HIDE DEF digits
      <4> DEFINE S == {0} \cup {i \in DOMAIN digits : digits[i] # 0}
      <4>3. S = {0}
        BY <4>2
      <4> HIDE DEF S
      <4>4. Max(S) = 0
        <5>1. S \in SUBSET Int /\ 0 \in S /\ \A x \in S : 0 >= x
          BY <4>3
        <5> QED BY <5>1, MaxIs
      <4>5. SubSeq(digits, 1, 0) = <<>>
        BY <4>2
      <4> QED BY <3>1, <4>4, <4>5 DEF Stripped, S
    <3>2. CASE amount # <<>>
      <4>1. \A i \in 1 .. k : data[offset + i] % 128 = amount[i]
        BY <1>2, <1>4, <3>2
      <4>2. amount = [i \in 1 .. k |-> amount[i]]
        BY <1>2, <3>2, Digits
      <4>3. digits = amount
        BY <4>1, <4>2
      <4> QED BY <4>3, NothingToStrip
    <3> QED BY <3>1, <3>2
  <2> QED BY <1>3, <1>7, <2>2, <2>3 DEF DecodeLeb128, E, k, bytes
<1>8. CASE k > 10
  <2>1. E = {}
    <3>1. ASSUME NEW x \in E
          PROVE  FALSE
      <4>1. x \in 1 .. 10
        BY <1>6
      <4> QED BY <1>1, <1>5, <1>8, <4>1
    <3> QED BY <3>1
  <2> QED BY <1>2, <1>3, <1>8, <2>1 DEF DecodeLeb128, E
<1> QED BY <1>2, <1>7, <1>8

-----------------------------------------------------------------------------
(* Issuance *)

(* The three flags do not overlap in their byte. *)
LEMMA FlagsReadBack ==
  ASSUME NEW asset \in Asset
  PROVE  LET f == FlagsByte(asset) IN
         /\ f \in Nat
         /\ f % 8 = asset.divisibility
         /\ (f \div 8) % 2 = 1 <=> asset.lock
         /\ (f \div 16) % 4 = asset.aggregation
<1> DEFINE d == asset.divisibility
           b == Bit(asset.lock)
           g == asset.aggregation
           f == d + 8 * b + 16 * g
<1>1. d \in 0 .. 7 /\ b \in 0 .. 1 /\ g \in 0 .. 2 /\ (b = 1 <=> asset.lock)
  BY DEF Asset, Divisibilities, Aggregations, Bit
<1>2. d % 8 = d /\ g % 4 = g
  BY <1>1
<1>3. FlagsByte(asset) = f
  BY <1>2 DEF FlagsByte
<1> HIDE DEF d, b, g
<1>4. f \in Nat /\ f % 8 = d
  BY <1>1
<1>5. f \div 8 = b + 2 * g /\ f \div 16 = g
  BY <1>1
<1>6. (b + 2 * g) % 2 = b
  BY <1>1
<1> HIDE DEF f
<1> QED BY <1>1, <1>2, <1>3, <1>4, <1>5, <1>6 DEF d, g

(* Where the parts of an issuance stand. *)
LEMMA IssuanceLayout ==
  ASSUME NEW amount \in Amount, NEW asset \in Asset, NEW hash \in Seq(Nat)
  PROVE  LET data  == IssuancePayload(amount, asset, hash)
             bytes == EncodeLeb128(amount) IN
         /\ data \in Seq(Nat) /\ Len(data) = 4 + Len(bytes) + Len(hash)
         /\ data[1] = 68 /\ data[2] = 65 /\ data[3] = 3 /\ data[4] = FlagsByte(asset)
         /\ \A i \in 1 .. Len(bytes) : data[4 + i] = bytes[i]
         /\ \A i \in 1 .. Len(hash) : data[4 + Len(bytes) + i] = hash[i]
<1> DEFINE f     == FlagsByte(asset)
           bytes == EncodeLeb128(amount)
           head  == DAMagic \o <<DAVersion3, f>>
<1>1. f \in Nat /\ bytes \in Seq(Nat) /\ Len(bytes) \in Nat /\ Len(hash) \in Nat
  BY Encoded, FlagsReadBack
<1>2. IssuancePayload(amount, asset, hash) = (head \o bytes) \o hash
  BY DEF IssuancePayload
<1> HIDE DEF f, bytes
<1>3. /\ head \in Seq(Nat) /\ Len(head) = 4
      /\ head[1] = 68 /\ head[2] = 65 /\ head[3] = 3 /\ head[4] = f
  BY <1>1 DEF DAMagic, DAVersion3
<1> HIDE DEF head
<1> DEFINE front == head \o bytes
           data  == front \o hash
<1>4. /\ front \in Seq(Nat) /\ Len(front) = 4 + Len(bytes)
      /\ \A i \in 1 .. 4 : front[i] = head[i]
      /\ \A i \in 1 .. Len(bytes) : front[4 + i] = bytes[i]
  <2>1. /\ head \o bytes \in Seq(Nat) /\ Len(head \o bytes) = Len(head) + Len(bytes)
        /\ \A i \in 1 .. Len(head) : (head \o bytes)[i] = head[i]
        /\ \A i \in 1 .. Len(bytes) : (head \o bytes)[Len(head) + i] = bytes[i]
    BY <1>1, <1>3, Joined, Zenon
  <2> QED BY <1>3, <2>1
<1> HIDE DEF front
<1> DEFINE m == 4 + Len(bytes)
<1>5. m \in Nat /\ \A i \in 1 .. Len(bytes) : 4 + i \in 1 .. m
  BY <1>1
<1>6. 1 \in 1 .. m /\ 2 \in 1 .. m /\ 3 \in 1 .. m /\ 4 \in 1 .. m
  BY <1>1
<1>7. Len(front) = m
  BY <1>4
<1> HIDE DEF m
<1>8. /\ data \in Seq(Nat) /\ Len(data) = m + Len(hash)
      /\ \A i \in 1 .. m : data[i] = front[i]
      /\ \A i \in 1 .. Len(hash) : data[m + i] = hash[i]
  <2>1. /\ data \in Seq(Nat) /\ Len(data) = Len(front) + Len(hash)
        /\ \A i \in 1 .. Len(front) : data[i] = front[i]
        /\ \A i \in 1 .. Len(hash) : data[Len(front) + i] = hash[i]
    BY <1>4, Joined, Zenon
  <2> QED BY <1>7, <2>1
<1>9. IssuancePayload(amount, asset, hash) = data
  BY <1>2 DEF front
<1> HIDE DEF data
<1>10. \A i \in 1 .. Len(bytes) : data[4 + i] = bytes[i]
  BY <1>4, <1>5, <1>8
<1>11. data[1] = 68 /\ data[2] = 65 /\ data[3] = 3 /\ data[4] = f
  BY <1>3, <1>4, <1>6, <1>8
<1> QED BY <1>8, <1>9, <1>10, <1>11 DEF f, bytes, m

(* An issuance reads back to the amount and the flags it was written from, *)
(* if its amount can be read at all; its last bytes are the hash.          *)
THEOREM IssuanceReadsBack ==
  ASSUME NEW amount \in Amount, NEW asset \in Asset, NEW hash \in Seq(Nat), Len(hash) = 20
  PROVE  LET data == IssuancePayload(amount, asset, hash) IN
         /\ DecodeIssuance(data) = IF Len(amount) <= 10
                                   THEN {[amount |-> amount, asset |-> asset]}
                                   ELSE Unreadable
         /\ SubSeq(data, Len(data) - 19, Len(data)) = hash
<1> DEFINE data  == IssuancePayload(amount, asset, hash)
           bytes == EncodeLeb128(amount)
           k     == Len(bytes)
<1>1. /\ data \in Seq(Nat) /\ Len(data) = 4 + k + Len(hash)
      /\ data[1] = 68 /\ data[2] = 65 /\ data[3] = 3 /\ data[4] = FlagsByte(asset)
      /\ \A i \in 1 .. k : data[4 + i] = bytes[i]
      /\ \A i \in 1 .. Len(hash) : data[4 + k + i] = hash[i]
  BY IssuanceLayout, Zenon
<1>2. k \in Nat /\ k >= 1 /\ DOMAIN bytes = 1 .. k
  BY Encoded
<1> HIDE DEF data
<1>3. DecodeLeb128(data, 4) = IF Len(amount) <= 10
                              THEN {[value |-> amount, consumed |-> k]} ELSE Unreadable
  <2>1. 4 + Len(EncodeLeb128(amount)) <= Len(data)
    BY <1>1, <1>2
  <2>2. \A i \in DOMAIN EncodeLeb128(amount) : data[4 + i] = EncodeLeb128(amount)[i]
    BY <1>1, <1>2
  <2>3. 4 \in Nat
    OBVIOUS
  <2> QED BY <1>1, <2>1, <2>2, <2>3, Leb128ReadsBack, Zenon
<1>4. data \in Seq(Nat)
  BY <1>1
<1> HIDE DEF bytes, k
<1>5. SubSeq(data, 1, 2) = DAMagic
  <2>1. /\ DAMagic \in Seq(Nat) /\ Len(DAMagic) = 2
        /\ DAMagic[1] = 68 /\ DAMagic[2] = 65
    BY DEF DAMagic
  <2>2. SubSeq(data, 0 + 1, 0 + 2) = DAMagic
    <3>1. \A i \in 1 .. 2 : data[0 + i] = DAMagic[i]
      BY <1>1, <2>1
    <3> QED BY <1>1, <2>1, <3>1, PartIs
  <2> QED BY <2>2
<1>6. /\ data[4] % 8 = asset.divisibility
      /\ ((data[4] \div 8) % 2 = 1) <=> asset.lock
      /\ (data[4] \div 16) % 4 = asset.aggregation
  BY <1>1, FlagsReadBack
<1>7. asset = [divisibility |-> data[4] % 8,
               lock         |-> (data[4] \div 8) % 2 = 1,
               aggregation  |-> (data[4] \div 16) % 4]
  <2>1. asset = [divisibility |-> asset.divisibility, lock |-> asset.lock,
                 aggregation |-> asset.aggregation] /\ asset.lock \in BOOLEAN
    BY DEF Asset
  <2>2. ((data[4] \div 8) % 2 = 1) = asset.lock
    BY <1>6, <2>1, Zenon
  <2> QED BY <1>6, <2>1, <2>2, Zenon
<1>8. DecodeIssuance(data) = {[amount |-> number.value, asset |-> asset] :
                                 number \in DecodeLeb128(data, 4)}
  <2>1. ~(Len(data) < 4) /\ data[3] = DAVersion3
    BY <1>1, <1>2 DEF DAVersion3
  <2>2. (data[4] \div 16) % 4 \in Aggregations
    BY <1>6 DEF Asset
  <2> QED BY <1>5, <1>7, <2>1, <2>2, Zenon DEF DecodeIssuance
<1>9. SubSeq(data, Len(data) - 19, Len(data)) = hash
  <2> DEFINE m == 4 + k
  <2>1. m \in Nat /\ Len(data) - 19 = m + 1 /\ Len(data) = m + 20
    BY <1>1, <1>2
  <2>2. \A i \in 1 .. 20 : data[m + i] = hash[i]
    BY <1>1
  <2> HIDE DEF m
  <2>3. SubSeq(data, m + 1, m + 20) = hash
    BY <1>4, <2>1, <2>2, PartIs
  <2> QED BY <2>1, <2>3
<1>10. DecodeIssuance(data) = IF Len(amount) <= 10
                             THEN {[amount |-> amount, asset |-> asset]} ELSE Unreadable
  <2>1. CASE Len(amount) <= 10
    <3> DEFINE number == [value |-> amount, consumed |-> k]
    <3>1. DecodeLeb128(data, 4) = {number} /\ number.value = amount
      BY <1>3, <2>1
    <3> HIDE DEF number
    <3> QED BY <1>8, <2>1, <3>1
  <2>2. CASE ~(Len(amount) <= 10)
    BY <1>3, <1>8, <2>2 DEF Unreadable
  <2> QED BY <2>1, <2>2
<1> QED BY <1>9, <1>10 DEF data

-----------------------------------------------------------------------------
(* Transfer *)

(* One sequence flattened is that sequence. *)
LEMMA FlattenOne ==
  ASSUME NEW s \in Seq(Nat)
  PROVE  FlattenSeq(<<s>>) = s
<1> DEFINE seqs == <<s>>
           Is(g) == g = [i \in 1 .. Len(seqs) |->
                           IF i = 1 THEN seqs[i] ELSE g[i - 1] \o seqs[i]]
           flatten == CHOOSE g : Is(g)
<1>1. Len(seqs) = 1 /\ seqs[1] = s
  OBVIOUS
<1>2. FlattenSeq(seqs) = flatten[Len(seqs)]
  BY <1>1 DEF FlattenSeq
<1> HIDE DEF seqs
<1>3. Is([i \in 1 .. 1 |-> s])
  BY <1>1
<1>4. Is(flatten)
  BY <1>3
<1> HIDE DEF flatten
<1>5. flatten[1] = s
  BY <1>1, <1>4
<1> QED BY <1>1, <1>2, <1>5 DEF seqs

(* Where the parts of a transfer with one instruction stand. *)
LEMMA TransferLayout ==
  ASSUME NEW vout \in Amount, NEW amount \in Amount
  PROVE  LET data  == TransferPayload(<<[vout |-> vout, amount |-> amount]>>)
             first  == EncodeLeb128(vout)
             second == EncodeLeb128(amount) IN
         /\ data \in Seq(Nat) /\ Len(data) = 3 + Len(first) + Len(second)
         /\ data[1] = 68 /\ data[2] = 65 /\ data[3] = 21
         /\ \A i \in 1 .. Len(first) : data[3 + i] = first[i]
         /\ \A i \in 1 .. Len(second) : data[3 + Len(first) + i] = second[i]
<1> DEFINE first  == EncodeLeb128(vout)
           second == EncodeLeb128(amount)
           body   == first \o second
           head   == DAMagic \o <<DATransferOpcode>>
           data   == head \o body
           one    == [vout |-> vout, amount |-> amount]
<1>1. first \in Seq(Nat) /\ Len(first) \in Nat /\ second \in Seq(Nat) /\ Len(second) \in Nat
  BY Encoded
<1>2. TransferPayload(<<one>>) = data
  <2>1. <<one>>[1] = one /\ DOMAIN <<one>> = 1 .. 1
    OBVIOUS
  <2>2. TransferInstruction(one.vout, one.amount) = body
    BY DEF TransferInstruction
  <2> HIDE DEF one, body
  <2>3. [i \in DOMAIN <<one>> |-> TransferInstruction(<<one>>[i].vout, <<one>>[i].amount)]
          = <<body>>
    BY <2>1, <2>2
  <2>4. body \in Seq(Nat)
    BY <1>1, Joined, Zenon DEF body
  <2>5. FlattenSeq(<<body>>) = body
    BY <2>4, FlattenOne
  <2> QED BY <2>3, <2>5 DEF TransferPayload
<1> HIDE DEF first, second
<1>3. /\ body \in Seq(Nat) /\ Len(body) = Len(first) + Len(second)
      /\ \A i \in 1 .. Len(first) : body[i] = first[i]
      /\ \A i \in 1 .. Len(second) : body[Len(first) + i] = second[i]
  BY <1>1, Joined, Zenon
<1> HIDE DEF body
<1>4. /\ head \in Seq(Nat) /\ Len(head) = 3
      /\ head[1] = 68 /\ head[2] = 65 /\ head[3] = 21
  BY DEF DAMagic, DATransferOpcode
<1> HIDE DEF head
<1>5. /\ data \in Seq(Nat) /\ Len(data) = Len(head) + Len(body)
      /\ \A i \in 1 .. Len(head) : data[i] = head[i]
      /\ \A i \in 1 .. Len(body) : data[Len(head) + i] = body[i]
  BY <1>3, <1>4, Joined, Zenon
<1> HIDE DEF data
<1>6. data[1] = 68 /\ data[2] = 65 /\ data[3] = 21
  BY <1>4, <1>5
<1>7. ASSUME NEW i \in 1 .. Len(first)
      PROVE  data[3 + i] = first[i]
  <2>1. i \in 1 .. Len(body)
    BY <1>1, <1>3
  <2> QED BY <1>3, <1>4, <1>5, <2>1
<1>8. ASSUME NEW i \in 1 .. Len(second)
      PROVE  data[3 + Len(first) + i] = second[i]
  <2>1. /\ Len(first) + i \in 1 .. Len(body)
        /\ 3 + Len(first) + i = Len(head) + (Len(first) + i)
    BY <1>1, <1>3, <1>4
  <2>2. data[Len(head) + (Len(first) + i)] = body[Len(first) + i]
    BY <1>5, <2>1
  <2>3. body[Len(first) + i] = second[i]
    BY <1>3
  <2> QED BY <2>1, <2>2, <2>3
<1>9. Len(data) = 3 + Len(first) + Len(second)
  BY <1>1, <1>3, <1>4, <1>5
<1> QED BY <1>2, <1>5, <1>6, <1>7, <1>8, <1>9 DEF first, second

(* The instruction of a transfer reads back to its output and its amount,  *)
(* with nothing left over; and a transfer is no issuance.                  *)
THEOREM TransferReadsBack ==
  ASSUME NEW vout \in Amount, NEW amount \in Amount
  PROVE  LET data == TransferPayload(<<[vout |-> vout, amount |-> amount]>>)
             n    == Len(EncodeLeb128(vout))
             k    == Len(EncodeLeb128(amount)) IN
         /\ DecodeLeb128(data, 3) = IF Len(vout) <= 10
                                    THEN {[value |-> vout, consumed |-> n]} ELSE Unreadable
         /\ DecodeLeb128(data, 3 + n) = IF Len(amount) <= 10
                                        THEN {[value |-> amount, consumed |-> k]}
                                        ELSE Unreadable
         /\ Len(data) = 3 + n + k
         /\ DecodeIssuance(data) = Unreadable
<1> DEFINE data == TransferPayload(<<[vout |-> vout, amount |-> amount]>>)
           n    == Len(EncodeLeb128(vout))
           k    == Len(EncodeLeb128(amount))
<1>1. /\ data \in Seq(Nat) /\ Len(data) = 3 + n + k /\ data[3] = 21
      /\ \A i \in 1 .. n : data[3 + i] = EncodeLeb128(vout)[i]
      /\ \A i \in 1 .. k : data[3 + n + i] = EncodeLeb128(amount)[i]
  BY TransferLayout, ZenonT(60)
<1>2. /\ n \in Nat /\ DOMAIN EncodeLeb128(vout) = 1 .. n
      /\ k \in Nat /\ DOMAIN EncodeLeb128(amount) = 1 .. k
  BY Encoded
<1> HIDE DEF data
<1>3. DecodeLeb128(data, 3) = IF Len(vout) <= 10
                              THEN {[value |-> vout, consumed |-> n]} ELSE Unreadable
  <2>1. 3 \in Nat /\ 3 + Len(EncodeLeb128(vout)) <= Len(data)
    BY <1>1, <1>2
  <2>2. \A i \in DOMAIN EncodeLeb128(vout) : data[3 + i] = EncodeLeb128(vout)[i]
    BY <1>1, <1>2
  <2> QED BY <1>1, <2>1, <2>2, Leb128ReadsBack, Zenon
<1>4. DecodeLeb128(data, 3 + n) = IF Len(amount) <= 10
                                  THEN {[value |-> amount, consumed |-> k]} ELSE Unreadable
  <2>1. 3 + n \in Nat /\ (3 + n) + Len(EncodeLeb128(amount)) <= Len(data)
    BY <1>1, <1>2
  <2> QED BY <1>1, <1>2, <2>1, Leb128ReadsBack, Zenon
<1>5. DecodeIssuance(data) = Unreadable
  BY <1>1 DEF DecodeIssuance, DAVersion3
<1> QED BY <1>1, <1>3, <1>4, <1>5, Zenon DEF data
=============================================================================
