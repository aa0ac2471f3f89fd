----------------------------- MODULE AssetProofs -----------------------------
(***************************************************************************)
(* Proofs about AssetPipeline for any number of sessions, coins, arguments,*)
(* faults and calls: AssetInv is inductive, and with it every property of  *)
(* AssetSafety holds that does not ask for fairness.                       *)
(***************************************************************************)
EXTENDS AssetSafety, PayloadProofs, FiniteSetTheorems

-----------------------------------------------------------------------------
(* Outputs *)

(* A set without two different elements has one at most. *)
LEMMA OneAtMost ==
  ASSUME NEW S, \A i, j \in S : i = j
  PROVE  Cardinality(S) <= 1
<1>1. CASE S = {}
  BY <1>1, FS_EmptySet
<1>2. CASE S # {}
  <2>1. PICK i \in S : S = {i}
    BY <1>2
  <2>2. Cardinality({i}) = 1
    BY FS_Singleton
  <2> QED BY <2>1, <2>2
<1> QED BY <1>1, <1>2

(* Lemma Joined, for outputs. *)
LEMMA OutputsJoined ==
  ASSUME NEW s \in Seq(Output), NEW t \in Seq(Output)
  PROVE  /\ s \o t \in Seq(Output) /\ Len(s \o t) = Len(s) + Len(t)
         /\ \A i \in 1 .. Len(s) : (s \o t)[i] = s[i]
         /\ \A i \in 1 .. Len(t) : (s \o t)[Len(s) + i] = t[i]
<1>1. /\ s \o t \in Seq(Output) /\ Len(s \o t) = Len(s) + Len(t)
      /\ \A i \in 1 .. Len(s) + Len(t) :
           (s \o t)[i] = IF i <= Len(s) THEN s[i] ELSE t[i - Len(s)]
  BY ConcatProperties, Zenon
<1>2. Len(s) \in Nat /\ Len(t) \in Nat
  OBVIOUS
<1>3. ASSUME NEW i \in 1 .. Len(s)
      PROVE  (s \o t)[i] = s[i]
  BY <1>1, <1>2
<1>4. ASSUME NEW i \in 1 .. Len(t)
      PROVE  (s \o t)[Len(s) + i] = t[i]
  <2>1. /\ Len(s) + i \in 1 .. Len(s) + Len(t) /\ ~(Len(s) + i <= Len(s))
        /\ (Len(s) + i) - Len(s) = i
    BY <1>2
  <2> QED BY <1>1, <2>1
<1> QED BY <1>1, <1>3, <1>4

(* The one data output is the one that PayloadIn reads. *)
LEMMA OneDataOutput ==
  ASSUME NEW outputs, NEW i, DataIn(outputs) = {i}
  PROVE  PayloadIn(outputs) = outputs[i].payload
<1>1. (CHOOSE j \in DataIn(outputs) : TRUE) = i
  OBVIOUS
<1> QED BY <1>1 DEF PayloadIn

(* Wherever a change output is put in, the others keep their order, and    *)
(* the one data output stays the one data output.                          *)
LEMMA ChangeInserted ==
  ASSUME NEW outputs \in Seq(Output), NEW at \in 1 .. Len(outputs) + 1,
         NEW i \in DOMAIN outputs, DataIn(outputs) = {i}
  PROVE  LET new == InsertAt(outputs, at, Change) IN
         /\ new \in Seq(Output)
         /\ \E j \in DOMAIN new : DataIn(new) = {j} /\ new[j] = outputs[i]
<1> DEFINE n     == Len(outputs)
           left  == SubSeq(outputs, 1, at - 1)
           right == SubSeq(outputs, at, n)
           mid   == <<Change>>
           front == left \o mid
           new   == front \o right
<1>1. n \in Nat /\ DOMAIN outputs = 1 .. n /\ at \in 1 .. n + 1 /\ i \in 1 .. n
  OBVIOUS
<1>2. /\ left \in Seq(Output) /\ Len(left) = at - 1
      /\ \A k \in 1 .. at - 1 : left[k] = outputs[k]
  BY <1>1
<1>3. /\ right \in Seq(Output) /\ Len(right) = n - at + 1
      /\ \A k \in 1 .. n - at + 1 : right[k] = outputs[at + k - 1]
  BY <1>1
<1>4. mid \in Seq(Output) /\ Len(mid) = 1 /\ mid[1] = Change
  <2>1. Change \in Output
    <3>1. <<>> \in Seq(Nat)
      OBVIOUS
    <3> QED BY <3>1 DEF Change, Output
  <2> QED BY <2>1
<1>5. InsertAt(outputs, at, Change) = new
  BY DEF InsertAt
<1> HIDE DEF n, left, right, mid
<1>6. /\ front \in Seq(Output) /\ Len(front) = Len(left) + Len(mid)
      /\ \A k \in 1 .. Len(left) : front[k] = left[k]
      /\ \A k \in 1 .. Len(mid) : front[Len(left) + k] = mid[k]
  BY <1>2, <1>4, OutputsJoined, Zenon
<1> HIDE DEF front
<1>7. /\ new \in Seq(Output) /\ Len(new) = Len(front) + Len(right)
      /\ \A k \in 1 .. Len(front) : new[k] = front[k]
      /\ \A k \in 1 .. Len(right) : new[Len(front) + k] = right[k]
  BY <1>3, <1>6, OutputsJoined, Zenon
<1> HIDE DEF new
<1>8. Len(front) = at /\ Len(new) = n + 1 /\ DOMAIN new = 1 .. n + 1
  BY <1>1, <1>2, <1>3, <1>4, <1>6, <1>7
<1>9. new[at] = Change
  <2>1. front[at] = Change
    BY <1>1, <1>2, <1>4, <1>6
  <2> QED BY <1>1, <1>7, <1>8, <2>1
<1>10. ASSUME NEW k \in 1 .. at - 1
       PROVE  new[k] = outputs[k]
  BY <1>1, <1>2, <1>6, <1>7, <1>8
<1>11. ASSUME NEW k \in at + 1 .. n + 1
       PROVE  new[k] = outputs[k - 1]
  <2>1. k - at \in 1 .. n - at + 1 /\ at + (k - at) = k /\ at + (k - at) - 1 = k - 1
    BY <1>1
  <2>2. new[at + (k - at)] = right[k - at]
    BY <1>3, <1>7, <1>8, <2>1
  <2>3. right[k - at] = outputs[at + (k - at) - 1]
    BY <1>3, <2>1
  <2> QED BY <2>1, <2>2, <2>3
<1> DEFINE j == IF i < at THEN i ELSE i + 1
<1>12. j \in 1 .. n + 1 /\ new[j] = outputs[i]
  <2>1. CASE i < at
    BY <1>1, <1>10, <2>1
  <2>2. CASE ~(i < at)
    <3>1. i + 1 \in at + 1 .. n + 1 /\ (i + 1) - 1 = i
      BY <1>1, <2>2
    <3> QED BY <1>1, <1>11, <2>2, <3>1
  <2> QED BY <2>1, <2>2
<1>13. ASSUME NEW k \in 1 .. n + 1, new[k].kind = "data"
       PROVE  k = j
  <2>1. k # at
    BY <1>9, <1>13 DEF Change
  <2>2. CASE k < at
    <3>1. k \in 1 .. n /\ k \in 1 .. at - 1
      BY <1>1, <2>2
    <3>2. k \in DataIn(outputs)
      BY <1>1, <1>10, <1>13, <3>1 DEF DataIn
    <3> QED BY <2>2, <3>2
  <2>3. CASE k > at
    <3>1. k - 1 \in 1 .. n /\ k \in at + 1 .. n + 1
      BY <1>1, <2>3
    <3>2. k - 1 \in DataIn(outputs)
      BY <1>1, <1>11, <1>13, <3>1 DEF DataIn
    <3>3. k - 1 = i
      BY <3>2
    <3> QED BY <1>1, <2>3, <3>3
  <2> QED BY <1>1, <2>1, <2>2, <2>3
<1>14. j \in DataIn(new)
  BY <1>8, <1>12 DEF DataIn
<1> HIDE DEF j
<1>15. DataIn(new) = {j}
  BY <1>8, <1>13, <1>14 DEF DataIn
<1> QED BY <1>5, <1>7, <1>8, <1>12, <1>15

-----------------------------------------------------------------------------
(* Calls as they begin *)

(* A hash is twenty bytes, and the number 1 is an amount. *)
LEMMA HashIsBytes ==
  ASSUME NEW hash \in {NoHash, MetadataHash}
  PROVE  hash \in Seq(Nat) /\ Len(hash) = 20
<1>1. NoHash \in Seq(Nat) /\ Len(NoHash) = 20
  <2>1. [i \in 1 .. 20 |-> 0] \in Seq(Nat) /\ Len([i \in 1 .. 20 |-> 0]) = 20
    OBVIOUS
  <2> QED BY <2>1 DEF NoHash
<1>2. MetadataHash \in Seq(Nat) /\ Len(MetadataHash) = 20
  <2>1. [i \in 1 .. 20 |-> 255] \in Seq(Nat) /\ Len([i \in 1 .. 20 |-> 255]) = 20
    OBVIOUS
  <2> QED BY <2>1 DEF MetadataHash
<1> QED BY <1>1, <1>2

LEMMA OneIsAmount == <<1>> \in Amount
<1>1. <<1>> \in Seq(0 .. 127) /\ <<1>>[Len(<<1>>)] # 0
  OBVIOUS
<1> QED BY <1>1 DEF Amount, Last

(* No recipient or one, who is paid. *)
LEMMA RecipientIsPaid ==
  ASSUME NEW to \in Destinations
  PROVE  /\ Recipient(to) \in Seq(Output)
         /\ \A i \in 1 .. Len(Recipient(to)) : Recipient(to)[i].kind = "pay"
<1>1. CASE to = {}
  <2>1. Cardinality(to) = 0
    BY <1>1, FS_EmptySet
  <2>2. Recipient(to) = <<>>
    BY <2>1 DEF Recipient
  <2> QED BY <2>2
<1>2. ASSUME NEW a \in Addresses, to = {a}
      PROVE  /\ Recipient(to) \in Seq(Output)
             /\ \A i \in 1 .. Len(Recipient(to)) : Recipient(to)[i].kind = "pay"
  <2>1. Cardinality(to) = 1
    BY <1>2, FS_Singleton
  <2>2. (CHOOSE b \in to : TRUE) = a
    BY <1>2
  <2>3. Recipient(to) = [i \in 1 .. 1 |-> PaidTo(a)]
    <3> DEFINE k == Cardinality(to)
               b == CHOOSE x \in to : TRUE
    <3>1. Recipient(to) = [i \in 1 .. k |-> PaidTo(b)]
      BY DEF Recipient
    <3>2. k = 1 /\ b = a
      BY <2>1, <2>2
    <3> HIDE DEF k, b
    <3> QED BY <3>1, <3>2
  <2>4. PaidTo(a) \in Output /\ PaidTo(a).kind = "pay"
    <3>1. <<>> \in Seq(Nat)
      OBVIOUS
    <3> QED BY <3>1 DEF PaidTo, Output
  <2> HIDE DEF PaidTo
  <2>5. [i \in 1 .. 1 |-> PaidTo(a)] \in Seq(Output)
    BY <2>4
  <2> QED BY <2>3, <2>4, <2>5
<1> QED BY <1>1, <1>2 DEF Destinations

(* The first output carries the payload, and no other carries data. *)
LEMMA OneOutputOfData ==
  ASSUME NEW payload \in Seq(Nat), NEW to \in Destinations
  PROVE  LET outputs == <<DataOutput(payload)>> \o Recipient(to) IN
         /\ outputs \in Seq(Output) /\ outputs[1].payload = payload
         /\ 1 \in DOMAIN outputs /\ DataIn(outputs) = {1}
<1> DEFINE first   == <<DataOutput(payload)>>
           rest    == Recipient(to)
           outputs == first \o rest
<1>1. rest \in Seq(Output) /\ \A i \in 1 .. Len(rest) : rest[i].kind = "pay"
  BY RecipientIsPaid
<1>2. /\ first \in Seq(Output) /\ Len(first) = 1
      /\ first[1].kind = "data" /\ first[1].payload = payload
  BY DEF DataOutput, Output
<1> HIDE DEF first, rest
<1>3. /\ outputs \in Seq(Output) /\ Len(outputs) = Len(first) + Len(rest)
      /\ \A i \in 1 .. Len(first) : outputs[i] = first[i]
      /\ \A i \in 1 .. Len(rest) : outputs[Len(first) + i] = rest[i]
  BY <1>1, <1>2, OutputsJoined, Zenon
<1> HIDE DEF outputs
<1>4. Len(rest) \in Nat /\ Len(outputs) = 1 + Len(rest)
      /\ DOMAIN outputs = 1 .. 1 + Len(rest) /\ outputs[1] = first[1]
  BY <1>1, <1>2, <1>3
<1>5. ASSUME NEW i \in 1 .. 1 + Len(rest), i # 1
      PROVE  outputs[i].kind = "pay"
  <2>1. i - 1 \in 1 .. Len(rest) /\ 1 + (i - 1) = i
    BY <1>4, <1>5
  <2>2. outputs[1 + (i - 1)] = rest[i - 1]
    BY <1>2, <1>3, <2>1
  <2> QED BY <1>1, <2>1, <2>2
<1>6. DataIn(outputs) = {1}
  BY <1>2, <1>4, <1>5 DEF DataIn
<1> QED BY <1>2, <1>3, <1>4, <1>6 DEF outputs, first, rest

(* No arguments of a call but the amount and the data matter to its types. *)
LEMMA NoCallIsCall == NoCall \in Arguments /\ NoCall.outputs = <<>>
<1>1. <<>> \in Amount
  <2>1. <<>> \in Seq(0 .. 127)
    OBVIOUS
  <2> QED BY <2>1 DEF Amount
<1>2. <<>> \in Seq(Output)
  OBVIOUS
<1> QED BY <1>1, <1>2 DEF NoCall, Arguments

(* A call of issue asks for what its payload says. *)
LEMMA IssueCallSays ==
  ASSUME NEW args \in Issues, args.amount # <<>>
  PROVE  LET c == IssueCall(args) IN
         /\ c \in Arguments /\ c.op = "issue" /\ c.inputs = {} /\ c.target = 0
         /\ c.amount # <<>> /\ ~c.faulty
         /\ 1 \in DOMAIN c.outputs /\ DataIn(c.outputs) = {1}
         /\ Encodable(c.outputs[1].payload) => Says(c, c.outputs[1].payload)
<1> DEFINE p       == IssuancePayload(args.amount, args.asset, args.hash)
           outputs == <<DataOutput(p)>> \o Recipient(args.to)
           c       == IssueCall(args)
<1>1. /\ args.amount \in Amount /\ args.asset \in Asset /\ args.to \in Destinations
      /\ args.hash \in {NoHash, MetadataHash}
  BY IssuesAssumption
<1>2. args.hash \in Seq(Nat)
  BY <1>1, HashIsBytes
<1>3. p \in Seq(Nat)
  BY <1>1, <1>2, IssuanceLayout, Zenon
<1> HIDE DEF p
<1>4. /\ outputs \in Seq(Output) /\ outputs[1].payload = p
      /\ 1 \in DOMAIN outputs /\ DataIn(outputs) = {1}
  BY <1>1, <1>3, OneOutputOfData, Zenon
<1>5. c = [NoCall EXCEPT !.op = "issue", !.amount = args.amount, !.asset = {args.asset},
                         !.hash = args.hash, !.to = args.to, !.outputs = outputs]
  BY DEF IssueCall, p
<1> HIDE DEF outputs, c
<1>6. /\ c.op = "issue" /\ c.inputs = {} /\ c.target = 0 /\ c.amount = args.amount
      /\ c.asset = {args.asset} /\ c.hash = args.hash /\ ~c.faulty /\ c.outputs = outputs
  BY <1>5 DEF NoCall
<1>7. args.to \in SUBSET Addresses
  BY <1>1 DEF Destinations
<1>8. {args.asset} \in SUBSET Asset
  BY <1>1
<1>9. c \in Arguments
  BY <1>1, <1>4, <1>5, <1>7, <1>8 DEF NoCall, Arguments
<1>10. Encodable(p) => Says(c, p)
  BY <1>1, <1>6 DEF Says, p
<1> QED BY <1>4, <1>6, <1>9, <1>10 DEF c

(* So does a call of transfer, for output 1, and it has only coins of the  *)
(* wallet among its inputs.                                                *)
LEMMA TransferCallSays ==
  ASSUME NEW args \in Transfers, args.amount # <<>>
  PROVE  LET c == TransferCall(args) IN
         /\ c \in Arguments /\ c.op = "transfer" /\ c.inputs \subseteq HeldAtFirst
         /\ c.target = 0 /\ c.amount # <<>> /\ ~c.faulty
         /\ 1 \in DOMAIN c.outputs /\ DataIn(c.outputs) = {1}
         /\ Encodable(c.outputs[1].payload) => Says(c, c.outputs[1].payload)
<1> DEFINE p       == TransferPayload(<<[vout |-> <<1>>, amount |-> args.amount]>>)
           outputs == <<DataOutput(p)>> \o Recipient(args.to)
           c       == TransferCall(args)
           in      == {0} \X args.utxos
<1>1. /\ args.amount \in Amount /\ args.to \in Destinations
      /\ args.utxos \subseteq Holding
  BY TransfersAssumption
<1>2. <<1>> \in Amount
  BY OneIsAmount
<1>3. p \in Seq(Nat)
  BY <1>1, <1>2, TransferLayout, Zenon
<1> HIDE DEF p
<1>4. /\ outputs \in Seq(Output) /\ outputs[1].payload = p
      /\ 1 \in DOMAIN outputs /\ DataIn(outputs) = {1}
  BY <1>1, <1>3, OneOutputOfData, Zenon
<1>5. c = [NoCall EXCEPT !.op = "transfer", !.amount = args.amount, !.to = args.to,
                         !.inputs = in, !.outputs = outputs]
  BY DEF TransferCall, p
<1>6. in \subseteq HeldAtFirst /\ in \in SUBSET Coin
  <2>1. args.utxos \subseteq 1 .. Coins
    BY <1>1, CoinsAssumption
  <2>2. HeldAtFirst \subseteq Coin
    BY CoinsAssumption DEF HeldAtFirst, Coin
  <2>3. in \subseteq HeldAtFirst
    BY <2>1 DEF HeldAtFirst
  <2> QED BY <2>2, <2>3
<1> HIDE DEF outputs, c, in
<1>7. /\ c.op = "transfer" /\ c.inputs = in /\ c.target = 0 /\ c.amount = args.amount
      /\ ~c.faulty /\ c.outputs = outputs
  BY <1>5 DEF NoCall
<1>8. args.to \in SUBSET Addresses
  BY <1>1 DEF Destinations
<1>9. c \in Arguments
  BY <1>1, <1>4, <1>5, <1>6, <1>8 DEF NoCall, Arguments
<1>10. Encodable(p) => Says(c, p)
  BY <1>1, <1>7 DEF Says, p
<1> QED BY <1>4, <1>6, <1>7, <1>9, <1>10, <1>1 DEF c

-----------------------------------------------------------------------------
(* Steps of one session                                                    *)

(* What is known of a transaction of the chain. *)
LEMMA ChainTypes ==
  ASSUME AssetInv, NEW n \in DOMAIN chain
  PROVE  /\ chain[n] \in Transaction /\ chain[n].by \in Arguments
         /\ chain[n].by.id \in Nat /\ chain[n].by.id <= calls
         /\ chain[n].inputs \in SUBSET Coin /\ chain[n].outputs \in Seq(Output)
         /\ WellBuilt(chain[n].by) /\ chain[n].outputs = chain[n].by.outputs
<1>1. chain \in Seq(Transaction) /\ ChainIsBuilt
  BY DEF AssetInv
<1>2. chain[n] \in Transaction
  BY <1>1
<1>3. /\ chain[n].by \in Arguments /\ chain[n].inputs \in SUBSET Coin
      /\ chain[n].outputs \in Seq(Output)
  BY <1>2 DEF Transaction
<1>4. chain[n].by.id \in Nat
  BY <1>3 DEF Arguments
<1> QED BY <1>1, <1>2, <1>3, <1>4 DEF ChainIsBuilt

(* A step of one session that leaves the chain alone disturbs nothing of   *)
(* the others.                                                             *)
LEMMA OthersKeepInv ==
  ASSUME AssetInv, NEW s \in Sessions, NEW t \in Sessions, t # s,
         chain' = chain, calls <= calls', calls' \in Nat,
         pc'[t] = pc[t], call'[t] = call[t], outcome'[t] = outcome[t]
  PROVE  SessionInv(t)'
<1>1. SessionInv(t) /\ call[t] \in Arguments /\ calls \in Nat
  BY DEF AssetInv
<1>2. Own' = Own /\ Sent(t)' = Sent(t)
  BY DEF Own, Sent
<1>3. TellsTruth(t)'
  BY <1>1, <1>2 DEF SessionInv, TellsTruth
<1>4. Finds(t)'
  BY <1>1 DEF SessionInv, Finds
<1>5. call[t].id <= calls'
  <2>1. call[t].id \in Nat /\ call[t].id <= calls
    BY <1>1 DEF SessionInv, Arguments
  <2> QED BY <1>1, <2>1
<1> QED BY <1>1, <1>2, <1>3, <1>4, <1>5 DEF SessionInv, Busy, Building

LEMMA SessionStep ==
  ASSUME AssetInv, NEW s \in Sessions,
         chain' = chain, calls <= calls', calls' \in 0 .. MaxCalls,
         pc' \in [Sessions -> Locations], call' \in [Sessions -> Arguments],
         outcome' \in [Sessions -> Outcome],
         \A t \in Sessions : t # s =>
           pc'[t] = pc[t] /\ call'[t] = call[t] /\ outcome'[t] = outcome[t],
         call'[s].id = call[s].id \/ (call'[s].id = calls + 1 /\ calls' = calls + 1),
         SessionInv(s)'
  PROVE  AssetInv'
<1>1. ASSUME NEW t \in Sessions
      PROVE  SessionInv(t)'
  <2>1. CASE t = s
    BY <2>1
  <2>2. CASE t # s
    <3>1. pc'[t] = pc[t] /\ call'[t] = call[t] /\ outcome'[t] = outcome[t] /\ calls' \in Nat
      BY <2>2
    <3> QED BY <2>2, <3>1, OthersKeepInv
  <2> QED BY <2>1, <2>2
<1>2. CallsAreDistinct'
  <2>1. /\ \A t \in Sessions : call[t].id \in Nat /\ call[t].id <= calls
        /\ CallsAreDistinct /\ calls \in Nat
    BY DEF AssetInv, SessionInv, Arguments
  <2>2. ASSUME NEW t \in Sessions, NEW u \in Sessions, call'[t].id = call'[u].id,
               call'[t].id # 0
        PROVE  t = u
    <3>1. CASE call'[s].id = call[s].id
      <4>1. call[t].id = call[u].id /\ call[t].id # 0
        BY <2>2, <3>1
      <4> QED BY <2>1, <4>1 DEF CallsAreDistinct
    <3>2. CASE call'[s].id = calls + 1
      <4>1. \A v \in Sessions : v # s => call'[v].id # calls + 1
        BY <2>1
      <4>2. (t = s /\ u = s) \/ (t # s /\ u # s)
        BY <2>2, <3>2, <4>1
      <4>3. CASE t # s /\ u # s
        <5>1. call[t].id = call[u].id /\ call[t].id # 0
          BY <2>2, <4>3
        <5> QED BY <2>1, <5>1 DEF CallsAreDistinct
      <4> QED BY <4>2, <4>3
    <3> QED BY <3>1, <3>2
  <2> QED BY <2>2 DEF CallsAreDistinct
<1>3. ChainIsBuilt'
  <2>1. ChainIsBuilt /\ chain \in Seq(Transaction) /\ calls \in Nat
    BY DEF AssetInv
  <2>2. \A n \in DOMAIN chain : chain[n].by.id \in Nat
    BY ChainTypes
  <2>3. \A n \in DOMAIN chain : chain[n].by.id <= calls'
    BY <2>1, <2>2 DEF ChainIsBuilt
  <2> QED BY <2>1, <2>3 DEF ChainIsBuilt
<1> QED BY <1>1, <1>2, <1>3 DEF AssetInv

(* Nothing has been sent for a call that is only beginning. *)
LEMMA NothingSentYet ==
  ASSUME AssetInv, NEW s \in Sessions, chain' = chain, call'[s].id = calls + 1
  PROVE  Sent(s)' = {}
<1>1. \A n \in DOMAIN chain : chain[n].by.id \in Nat /\ chain[n].by.id <= calls
  BY ChainTypes
<1>2. calls \in Nat
  BY DEF AssetInv
<1> QED BY <1>1, <1>2 DEF Sent

(* What is raised without a report is an outcome. *)
LEMMA RaisedIsOutcome ==
  ASSUME NEW kind \in Kinds
  PROVE  /\ Raised(kind) \in Outcome /\ Raised(kind).kind = kind
<1> QED BY DEF Raised, Outcome

(* A call that is refused, and one that starts. *)
LEMMA RefusedStep ==
  ASSUME AssetInv, NEW s \in Sessions, NEW kind \in Exceptions, Refused(s, kind)
  PROVE  AssetInv'
<1> DEFINE c == [NoCall EXCEPT !.id = calls + 1]
<1>1. /\ pc[s] = "idle" /\ pc' = pc /\ calls < MaxCalls /\ calls' = calls + 1
      /\ call' = [call EXCEPT ![s] = c] /\ chain' = chain
      /\ outcome' = [outcome EXCEPT ![s] = Raised(kind)]
  BY DEF Refused, Call
<1>2. /\ pc \in [Sessions -> Locations] /\ call \in [Sessions -> Arguments]
      /\ outcome \in [Sessions -> Outcome] /\ calls \in 0 .. MaxCalls
      /\ chain \in Seq(Transaction)
  BY DEF AssetInv
<1>3. calls \in Nat /\ calls' \in 0 .. MaxCalls /\ calls <= calls'
  BY <1>1, <1>2, CallsAssumption
<1>4. c \in Arguments /\ c.id = calls + 1 /\ c.target = 0 /\ c.op = "none"
  <2>1. NoCall \in Arguments /\ calls + 1 \in Nat
    BY <1>3, NoCallIsCall
  <2>2. c \in Arguments
    BY <2>1 DEF Arguments
  <2>3. c.id = calls + 1 /\ c.target = 0 /\ c.op = "none"
    BY DEF NoCall
  <2> QED BY <2>2, <2>3
<1> HIDE DEF c
<1>5. Raised(kind) \in Outcome /\ Raised(kind).kind = kind /\ kind \in Kinds
  BY RaisedIsOutcome DEF Kinds
<1>6. call'[s] = c /\ outcome'[s] = Raised(kind) /\ pc'[s] = "idle"
  BY <1>1, <1>2
<1>7. Sent(s)' = {}
  BY <1>1, <1>4, <1>6, NothingSentYet
<1>8. SessionInv(s)'
  <2>1. TellsTruth(s)' /\ Finds(s)'
    BY <1>5, <1>6, <1>7 DEF TellsTruth, Finds, Exceptions
  <2>2. call'[s].id <= calls' /\ call'[s].target <= Len(chain)'
    BY <1>1, <1>2, <1>3, <1>4, <1>6
  <2> QED BY <1>6, <2>1, <2>2 DEF SessionInv, Busy, Building
<1>9. /\ call' \in [Sessions -> Arguments] /\ outcome' \in [Sessions -> Outcome]
      /\ \A t \in Sessions : t # s =>
           pc'[t] = pc[t] /\ call'[t] = call[t] /\ outcome'[t] = outcome[t]
      /\ call'[s].id = calls + 1 /\ pc' \in [Sessions -> Locations]
  BY <1>1, <1>2, <1>4, <1>5, <1>6
<1> QED BY <1>1, <1>3, <1>8, <1>9, SessionStep

LEMMA StartsStep ==
  ASSUME AssetInv, NEW s \in Sessions, NEW arguments \in Arguments, Starts(s, arguments),
         arguments.target = 0, arguments.inputs \subseteq HeldAtFirst,
         arguments.amount # <<>>, NEW i \in DOMAIN arguments.outputs,
         DataIn(arguments.outputs) = {i}, Says(arguments, arguments.outputs[i].payload)
  PROVE  AssetInv'
<1> DEFINE c == [arguments EXCEPT !.id = calls + 1]
<1>1. /\ pc[s] = "idle" /\ pc' = [pc EXCEPT ![s] = "create"]
      /\ calls < MaxCalls /\ calls' = calls + 1
      /\ call' = [call EXCEPT ![s] = c] /\ chain' = chain
      /\ outcome' = [outcome EXCEPT ![s] = Raised("running")]
  BY DEF Starts, Call
<1>2. /\ pc \in [Sessions -> Locations] /\ call \in [Sessions -> Arguments]
      /\ outcome \in [Sessions -> Outcome] /\ calls \in 0 .. MaxCalls
      /\ chain \in Seq(Transaction)
  BY DEF AssetInv
<1>3. calls \in Nat /\ calls' \in 0 .. MaxCalls /\ calls <= calls'
  BY <1>1, <1>2, CallsAssumption
<1>4. /\ c \in Arguments /\ c.id = calls + 1 /\ c.target = 0 /\ c.op = arguments.op
      /\ c.amount = arguments.amount /\ c.asset = arguments.asset
      /\ c.hash = arguments.hash /\ c.inputs = arguments.inputs
      /\ c.outputs = arguments.outputs
  BY <1>3 DEF Arguments
<1> HIDE DEF c
<1>5. Raised("running") \in Outcome /\ Raised("running").kind = "running"
  BY RaisedIsOutcome DEF Kinds
<1>6. call'[s] = c /\ outcome'[s] = Raised("running") /\ pc'[s] = "create"
  BY <1>1, <1>2
<1>7. Sent(s)' = {}
  BY <1>1, <1>4, <1>6, NothingSentYet
<1>8. WellBuilt(c) /\ c.op \in {"issue", "transfer"}
  <2>1. Says(c, c.outputs[i].payload) /\ c.op \in {"issue", "transfer"}
    BY <1>4 DEF Says
  <2>2. c.id # 0
    BY <1>3, <1>4
  <2> QED BY <1>4, <2>1, <2>2 DEF WellBuilt
<1>9. SessionInv(s)'
  <2>1. TellsTruth(s)' /\ Finds(s)'
    BY <1>5, <1>6, <1>7, <1>8 DEF TellsTruth, Finds
  <2>2. call'[s].id <= calls' /\ call'[s].target <= Len(chain)' /\ call'[s].id # 0
    BY <1>1, <1>2, <1>3, <1>4, <1>6
  <2>3. WellBuilt(call[s])'
    BY <1>6, <1>8 DEF WellBuilt, Says
  <2>4. (call[s].inputs \subseteq Own)'
    BY <1>4, <1>6 DEF Own, HeldAtFirst
  <2> QED BY <1>5, <1>6, <1>7, <2>1, <2>2, <2>3, <2>4 DEF SessionInv, Busy, Building
<1>10. /\ call' \in [Sessions -> Arguments] /\ outcome' \in [Sessions -> Outcome]
       /\ \A t \in Sessions : t # s =>
            pc'[t] = pc[t] /\ call'[t] = call[t] /\ outcome'[t] = outcome[t]
       /\ call'[s].id = calls + 1 /\ pc' \in [Sessions -> Locations]
  BY <1>1, <1>2, <1>4, <1>5, <1>6 DEF Locations
<1> QED BY <1>1, <1>3, <1>9, <1>10, SessionStep

(* issue and transfer either begin with what their payload says or raise. *)
LEMMA IssueStep ==
  ASSUME AssetInv, NEW s \in Sessions, Issue(s)
  PROVE  AssetInv'
<1>1. PICK args \in Issues :
         \/ Refused(s, "ValidationError") \/ Refused(s, "MetadataValidationError")
         \/ args.amount # <<>> /\ Submit(s, IssueCall(args), "AssetIssuanceError")
  BY DEF Issue
<1>2. CASE Refused(s, "ValidationError")
  BY <1>2, RefusedStep DEF Exceptions
<1>3. CASE Refused(s, "MetadataValidationError")
  BY <1>3, RefusedStep DEF Exceptions
<1>4. CASE args.amount # <<>> /\ Submit(s, IssueCall(args), "AssetIssuanceError")
  <2> DEFINE c == IssueCall(args)
  <2>1. /\ c \in Arguments /\ c.inputs = {} /\ c.target = 0 /\ c.amount # <<>>
        /\ 1 \in DOMAIN c.outputs /\ DataIn(c.outputs) = {1}
        /\ Encodable(c.outputs[1].payload) => Says(c, c.outputs[1].payload)
    BY <1>4, IssueCallSays
  <2> HIDE DEF c
  <2>2. \/ Encodable(c.outputs[1].payload) /\ Starts(s, c)
        \/ Refused(s, "AssetIssuanceError")
    BY <1>4 DEF Submit, c
  <2>3. CASE Encodable(c.outputs[1].payload) /\ Starts(s, c)
    <3>1. Says(c, c.outputs[1].payload) /\ c.inputs \subseteq HeldAtFirst /\ Starts(s, c)
      BY <2>1, <2>3
    <3> QED BY <2>1, <3>1, StartsStep
  <2>4. CASE Refused(s, "AssetIssuanceError")
    BY <2>4, RefusedStep DEF Exceptions
  <2> QED BY <2>2, <2>3, <2>4
<1> QED BY <1>1, <1>2, <1>3, <1>4

LEMMA TransferStep ==
  ASSUME AssetInv, NEW s \in Sessions, Transfer(s)
  PROVE  AssetInv'
<1>1. PICK args \in Transfers :
         \/ Refused(s, "ValidationError")
         \/ args.amount # <<>> /\ Submit(s, TransferCall(args), "AssetTransferError")
  BY DEF Transfer
<1>2. CASE Refused(s, "ValidationError")
  BY <1>2, RefusedStep DEF Exceptions
<1>3. CASE args.amount # <<>> /\ Submit(s, TransferCall(args), "AssetTransferError")
  <2> DEFINE c == TransferCall(args)
  <2>1. /\ c \in Arguments /\ c.inputs \subseteq HeldAtFirst /\ c.target = 0
        /\ c.amount # <<>> /\ 1 \in DOMAIN c.outputs /\ DataIn(c.outputs) = {1}
        /\ Encodable(c.outputs[1].payload) => Says(c, c.outputs[1].payload)
    BY <1>3, TransferCallSays
  <2> HIDE DEF c
  <2>2. \/ Encodable(c.outputs[1].payload) /\ Starts(s, c)
        \/ Refused(s, "AssetTransferError")
    BY <1>3 DEF Submit, c
  <2>3. CASE Encodable(c.outputs[1].payload) /\ Starts(s, c)
    <3>1. Says(c, c.outputs[1].payload) /\ Starts(s, c)
      BY <2>1, <2>3
    <3> QED BY <2>1, <3>1, StartsStep
  <2>4. CASE Refused(s, "AssetTransferError")
    BY <2>4, RefusedStep DEF Exceptions
  <2> QED BY <2>2, <2>3, <2>4
<1> QED BY <1>1, <1>2, <1>3

LEMMA VerifyStep ==
  ASSUME AssetInv, NEW s \in Sessions, Verify(s)
  PROVE  AssetInv'
<1>1. PICK tx \in 0 .. Len(chain) :
         /\ Call(s, [NoCall EXCEPT !.op = "verify", !.target = tx])
         /\ pc'      = [pc EXCEPT ![s] = "look"]
         /\ outcome' = [outcome EXCEPT ![s] = Raised("running")]
  BY DEF Verify
<1> DEFINE v == [NoCall EXCEPT !.op = "verify", !.target = tx]
           c == [v EXCEPT !.id = calls + 1]
<1>2. /\ pc[s] = "idle" /\ calls < MaxCalls /\ calls' = calls + 1
      /\ call' = [call EXCEPT ![s] = c] /\ chain' = chain
  BY <1>1 DEF Call
<1>3. /\ pc \in [Sessions -> Locations] /\ call \in [Sessions -> Arguments]
      /\ outcome \in [Sessions -> Outcome] /\ calls \in 0 .. MaxCalls
      /\ chain \in Seq(Transaction)
  BY DEF AssetInv
<1>4. calls \in Nat /\ calls' \in 0 .. MaxCalls /\ calls <= calls' /\ Len(chain) \in Nat
  BY <1>2, <1>3, CallsAssumption
<1>5. c \in Arguments /\ c.id = calls + 1 /\ c.target = tx /\ c.op = "verify"
  <2>1. NoCall \in Arguments /\ calls + 1 \in Nat /\ tx \in Nat
    BY <1>4, NoCallIsCall
  <2>2. v \in Arguments /\ v.target = tx /\ v.op = "verify"
    BY <2>1 DEF Arguments, NoCall
  <2> HIDE DEF v
  <2>3. c \in Arguments
    BY <2>1, <2>2 DEF Arguments
  <2>4. c.id = calls + 1 /\ c.target = tx /\ c.op = "verify"
    BY <2>2 DEF Arguments
  <2> QED BY <2>3, <2>4
<1> HIDE DEF v, c
<1>6. Raised("running") \in Outcome /\ Raised("running").kind = "running"
  BY RaisedIsOutcome DEF Kinds
<1>7. call'[s] = c /\ outcome'[s] = Raised("running") /\ pc'[s] = "look"
  BY <1>1, <1>2, <1>3
<1>8. Sent(s)' = {}
  BY <1>2, <1>5, <1>7, NothingSentYet
<1>9. SessionInv(s)'
  <2>1. TellsTruth(s)' /\ Finds(s)'
    BY <1>6, <1>7, <1>8 DEF TellsTruth, Finds
  <2>2. call'[s].id <= calls' /\ call'[s].target <= Len(chain)' /\ call'[s].id # 0
    BY <1>2, <1>3, <1>4, <1>5, <1>7
  <2> QED BY <1>5, <1>6, <1>7, <2>1, <2>2 DEF SessionInv, Busy, Building
<1>10. /\ call' \in [Sessions -> Arguments] /\ outcome' \in [Sessions -> Outcome]
       /\ \A t \in Sessions : t # s =>
            pc'[t] = pc[t] /\ call'[t] = call[t] /\ outcome'[t] = outcome[t]
       /\ call'[s].id = calls + 1 /\ pc' \in [Sessions -> Locations]
  BY <1>1, <1>2, <1>3, <1>5, <1>6, <1>7 DEF Locations
<1> QED BY <1>2, <1>4, <1>9, <1>10, SessionStep

(* A request that is answered as hoped, and leaves the call as it is. *)
LEMMA ProceedStep ==
  ASSUME AssetInv, NEW s \in Sessions, NEW from \in {"create", "sign"},
         NEW to \in {"fund", "send"}, Proceed(s, from, to), call' = call,
         from = "create" => to = "fund"
  PROVE  AssetInv'
<1>1. /\ pc[s] = from /\ pc' = [pc EXCEPT ![s] = to]
      /\ outcome' = outcome /\ chain' = chain /\ calls' = calls
  BY DEF Proceed
<1>2. /\ pc \in [Sessions -> Locations] /\ call \in [Sessions -> Arguments]
      /\ outcome \in [Sessions -> Outcome] /\ calls \in 0 .. MaxCalls
      /\ SessionInv(s)
  BY DEF AssetInv
<1>3. calls \in Nat /\ calls' \in 0 .. MaxCalls /\ calls <= calls'
  BY <1>1, <1>2, CallsAssumption
<1>4. /\ pc' \in [Sessions -> Locations] /\ pc'[s] = to
      /\ \A t \in Sessions : t # s => pc'[t] = pc[t]
  BY <1>1, <1>2 DEF Locations
<1>5. Sent(s)' = Sent(s) /\ Own' = Own
  BY <1>1 DEF Sent, Own
<1>6. SessionInv(s)'
  <2>1. TellsTruth(s)'
    BY <1>1, <1>2, <1>5 DEF SessionInv, TellsTruth
  <2>2. Finds(s)'
    BY <1>1, <1>2 DEF SessionInv, Finds
  <2> QED BY <1>1, <1>2, <1>4, <1>5, <2>1, <2>2 DEF SessionInv, Busy, Building
<1> QED BY <1>1, <1>2, <1>3, <1>4, <1>6, SessionStep

(* A call that fails has sent nothing. *)
LEMMA FailStep ==
  ASSUME AssetInv, NEW s \in Sessions, NEW from \in {"create", "fund", "sign", "send"},
         NEW kind \in Exceptions, End(s, from, Raised(kind)), chain' = chain,
         call' = call \/ Blame(s)
  PROVE  AssetInv'
<1>1. /\ pc[s] = from /\ pc' = [pc EXCEPT ![s] = "idle"] /\ calls' = calls
      /\ outcome' = [outcome EXCEPT ![s] = Raised(kind)]
  BY DEF End
<1>2. /\ pc \in [Sessions -> Locations] /\ call \in [Sessions -> Arguments]
      /\ outcome \in [Sessions -> Outcome] /\ calls \in 0 .. MaxCalls
      /\ SessionInv(s)
  BY DEF AssetInv
<1>3. calls \in Nat /\ calls' \in 0 .. MaxCalls /\ calls <= calls'
  BY <1>1, <1>2, CallsAssumption
<1>4. Raised(kind) \in Outcome /\ Raised(kind).kind = kind
  BY RaisedIsOutcome DEF Kinds
<1>5. /\ call' \in [Sessions -> Arguments] /\ call'[s].id = call[s].id
      /\ call'[s].target = call[s].target
      /\ \A t \in Sessions : t # s => call'[t] = call[t]
  <2>1. CASE call' = call
    BY <1>2, <2>1
  <2>2. CASE Blame(s)
    <3> DEFINE c == [call[s] EXCEPT !.faulty = TRUE]
    <3>1. c \in Arguments /\ c.id = call[s].id /\ c.target = call[s].target
      BY <1>2 DEF Arguments
    <3>2. call' = [call EXCEPT ![s] = c]
      BY <2>2 DEF Blame
    <3> HIDE DEF c
    <3> QED BY <1>2, <3>1, <3>2
  <2> QED BY <2>1, <2>2
<1>6. Building(s) /\ Sent(s) = {}
  BY <1>1, <1>2 DEF SessionInv, Building
<1>7. Sent(s)' = {}
  BY <1>5, <1>6 DEF Sent
<1>8. outcome'[s] = Raised(kind) /\ pc'[s] = "idle"
  BY <1>1, <1>2
<1>9. SessionInv(s)'
  <2>1. TellsTruth(s)' /\ Finds(s)'
    BY <1>4, <1>7, <1>8 DEF TellsTruth, Finds, Exceptions
  <2> QED BY <1>1, <1>2, <1>5, <1>8, <2>1 DEF SessionInv, Busy, Building
<1>10. /\ outcome' \in [Sessions -> Outcome] /\ pc' \in [Sessions -> Locations]
       /\ \A t \in Sessions : t # s => pc'[t] = pc[t] /\ outcome'[t] = outcome[t]
  BY <1>1, <1>2, <1>4 DEF Locations
<1> QED BY <1>3, <1>5, <1>9, <1>10, SessionStep

(* The error of an operation is an exception. *)
LEMMA WrappedIsRaised ==
  ASSUME NEW s \in Sessions
  PROVE  \E kind \in Exceptions : Wrapped(s) = Raised(kind)
<1> QED BY DEF Wrapped, Exceptions

(* The failures of a call, by the request that fails. *)
LEMMA FailSteps ==
  ASSUME AssetInv, NEW s \in Sessions,
         FundFails(s) \/ SignIncomplete(s) \/ SendRejected(s) \/ Fails(s)
  PROVE  AssetInv'
<1>1. PICK kind \in Exceptions : Wrapped(s) = Raised(kind)
  BY WrappedIsRaised
<1>2. CASE FundFails(s)
  <2>1. \/ End(s, "fund", Raised(kind))
        \/ End(s, "fund", Raised("InsufficientFundsError"))
    BY <1>1, <1>2 DEF FundFails
  <2>2. call' = call /\ chain' = chain
    BY <1>2 DEF FundFails
  <2>3. CASE End(s, "fund", Raised(kind))
    BY <2>2, <2>3, FailStep
  <2>4. CASE End(s, "fund", Raised("InsufficientFundsError"))
    <3>1. "InsufficientFundsError" \in Exceptions
      BY DEF Exceptions
    <3> QED BY <2>2, <2>4, <3>1, FailStep
  <2> QED BY <2>1, <2>3, <2>4
<1>3. CASE SignIncomplete(s)
  <2>1. End(s, "sign", Raised(kind)) /\ call' = call /\ chain' = chain
    BY <1>1, <1>3 DEF SignIncomplete
  <2> QED BY <2>1, FailStep
<1>4. CASE SendRejected(s)
  <2>1. End(s, "send", Raised(kind)) /\ call' = call /\ chain' = chain
    BY <1>1, <1>4 DEF SendRejected
  <2> QED BY <2>1, FailStep
<1>5. CASE Fails(s)
  <2>1. PICK from \in {"create", "fund", "sign", "send"} :
           End(s, from, Raised(kind)) /\ Blame(s) /\ chain' = chain
    BY <1>1, <1>5 DEF Fails
  <2> QED BY <2>1, FailStep
<1> QED BY <1>2, <1>3, <1>4, <1>5

(* The coins added are the wallet's, and the change output is no data.     *)
LEMMA FundStep ==
  ASSUME AssetInv, NEW s \in Sessions, Fund(s)
  PROVE  AssetInv'
<1>1. PICK added \in {{}} \cup {{coin} : coin \in Unspent},
           at \in 0 .. (Len(call[s].outputs) + 1) :
         /\ call[s].inputs \cup added # {}
         /\ call' = [call EXCEPT
                ![s].inputs  = @ \cup added,
                ![s].outputs = IF at = 0 THEN @ ELSE InsertAt(@, at, Change)]
  BY DEF Fund
<1> DEFINE old  == call[s]
           in   == old.inputs \cup added
           outs == IF at = 0 THEN old.outputs ELSE InsertAt(old.outputs, at, Change)
           half == [old EXCEPT !.inputs = in]
           c    == [half EXCEPT !.outputs = outs]
<1>2. /\ pc[s] = "fund" /\ pc' = [pc EXCEPT ![s] = "sign"]
      /\ outcome' = outcome /\ chain' = chain /\ calls' = calls
  BY DEF Fund, Proceed
<1>3. /\ pc \in [Sessions -> Locations] /\ call \in [Sessions -> Arguments]
      /\ outcome \in [Sessions -> Outcome] /\ calls \in 0 .. MaxCalls
      /\ chain \in Seq(Transaction) /\ SessionInv(s)
  BY DEF AssetInv
<1>4. calls \in Nat /\ calls' \in 0 .. MaxCalls /\ calls <= calls'
  BY <1>2, <1>3, CallsAssumption
<1>5. call' = [call EXCEPT ![s] = c]
  BY <1>1, <1>3
<1>6. /\ old \in Arguments /\ WellBuilt(old) /\ old.inputs \subseteq Own /\ Sent(s) = {}
      /\ old.outputs \in Seq(Output) /\ old.inputs \in SUBSET Coin
  BY <1>2, <1>3 DEF SessionInv, Building, Arguments
<1>7. Own \subseteq Coin
  <2>1. HeldAtFirst \subseteq Coin
    BY CoinsAssumption DEF HeldAtFirst, Coin
  <2>2. DOMAIN chain \subseteq Nat
    BY <1>3
  <2>3. (DOMAIN chain) \X (1 .. 3) \subseteq Coin
    BY <2>2 DEF Coin
  <2> QED BY <2>1, <2>3 DEF Own
<1>8. in \in SUBSET Coin /\ in \subseteq Own /\ in # {}
  <2>1. added \subseteq Own
    BY DEF Unspent
  <2> QED BY <1>1, <1>6, <1>7, <2>1
<1>9. PICK i \in DOMAIN old.outputs :
        DataIn(old.outputs) = {i} /\ Says(old, old.outputs[i].payload)
  BY <1>6 DEF WellBuilt
<1>10. /\ outs \in Seq(Output)
       /\ \E j \in DOMAIN outs : DataIn(outs) = {j} /\ outs[j] = old.outputs[i]
  <2>1. CASE at = 0
    BY <1>6, <1>9, <2>1
  <2>2. CASE at # 0
    <3>1. at \in 1 .. Len(old.outputs) + 1
      BY <1>6, <2>2
    <3> DEFINE inserted == InsertAt(old.outputs, at, Change)
    <3>2. /\ inserted \in Seq(Output)
          /\ \E j \in DOMAIN inserted : DataIn(inserted) = {j} /\ inserted[j] = old.outputs[i]
      BY <1>6, <1>9, <3>1, ChangeInserted
    <3>3. outs = inserted
      BY <2>2
    <3> QED BY <3>2, <3>3
  <2> QED BY <2>1, <2>2
<1> HIDE DEF in, outs
<1>11. half \in Arguments /\ half.inputs = in /\ half.outputs = old.outputs
       /\ half.id = old.id /\ half.target = old.target /\ half.op = old.op
       /\ half.amount = old.amount /\ half.asset = old.asset /\ half.hash = old.hash
       /\ half.faulty = old.faulty
  BY <1>6, <1>8 DEF Arguments
<1> HIDE DEF half
<1>12. c \in Arguments /\ c.inputs = in /\ c.outputs = outs /\ c.id = old.id
       /\ c.target = old.target /\ c.op = old.op /\ c.amount = old.amount
       /\ c.asset = old.asset /\ c.hash = old.hash /\ c.faulty = old.faulty
  BY <1>10, <1>11 DEF Arguments
<1> HIDE DEF c
<1>13. /\ call'[s] = c /\ call' \in [Sessions -> Arguments]
       /\ pc'[s] = "sign" /\ pc' \in [Sessions -> Locations]
       /\ \A t \in Sessions : t # s => pc'[t] = pc[t] /\ call'[t] = call[t]
  BY <1>2, <1>3, <1>5, <1>12 DEF Locations
<1>14. WellBuilt(c)
  <2>1. PICK j \in DOMAIN outs : DataIn(outs) = {j} /\ outs[j] = old.outputs[i]
    BY <1>10
  <2>2. Says(c, outs[j].payload)
    BY <1>9, <1>12, <2>1 DEF Says
  <2>3. c.id # 0 /\ c.amount # <<>>
    BY <1>6, <1>12 DEF WellBuilt
  <2> QED BY <1>12, <2>1, <2>2, <2>3 DEF WellBuilt
<1>15. Sent(s)' = {} /\ Own' = Own
  BY <1>2, <1>6, <1>12, <1>13 DEF Sent, Own
<1>16. SessionInv(s)'
  <2>1. outcome'[s].kind = "running"
    BY <1>2, <1>3 DEF SessionInv, Busy
  <2>2. TellsTruth(s)' /\ Finds(s)'
    BY <1>15, <2>1 DEF TellsTruth, Finds
  <2>3. WellBuilt(call[s])'
    BY <1>13, <1>14 DEF WellBuilt, Says
  <2>4. call'[s].id <= calls' /\ call'[s].target <= Len(chain)' /\ call'[s].id # 0
    BY <1>2, <1>3, <1>12, <1>13, <1>14 DEF SessionInv, WellBuilt
  <2> QED BY <1>8, <1>12, <1>13, <1>15, <2>1, <2>2, <2>3, <2>4
          DEF SessionInv, Busy, Building
<1>17. call'[s].id = call[s].id
  BY <1>12, <1>13
<1> QED BY <1>2, <1>3, <1>4, <1>13, <1>16, <1>17, SessionStep

-----------------------------------------------------------------------------
(* A transaction is accepted                                               *)

(* The chain grows by the transaction of one call, which had none before.  *)
LEMMA AcceptStep ==
  ASSUME AssetInv, NEW s \in Sessions, pc[s] = "send", Accept(s), calls' = calls,
         NEW o \in Outcome, NEW c \in Arguments,
         pc' = [pc EXCEPT ![s] = "idle"], outcome' = [outcome EXCEPT ![s] = o],
         call' = [call EXCEPT ![s] = c],
         c.id = call[s].id, c.op = call[s].op, c.target = call[s].target,
         o.kind \notin {"inspected", "ValidationError", "MetadataValidationError",
                        "InsufficientFundsError"},
         \/ o.kind = "returned" /\ o.tx = Len(chain) + 1
         \/ o.kind # "returned" /\ c.faulty
  PROVE  AssetInv'
<1> DEFINE last == Len(chain) + 1
           tx   == [inputs |-> call[s].inputs, outputs |-> call[s].outputs, by |-> call[s]]
<1>1. /\ pc \in [Sessions -> Locations] /\ call \in [Sessions -> Arguments]
      /\ outcome \in [Sessions -> Outcome] /\ calls \in 0 .. MaxCalls
      /\ chain \in Seq(Transaction) /\ CallsAreDistinct /\ ChainIsBuilt
      /\ \A t \in Sessions : SessionInv(t)
  BY DEF AssetInv
<1>2. calls \in Nat /\ Len(chain) \in Nat /\ DOMAIN chain = 1 .. Len(chain)
  BY <1>1, CallsAssumption
<1>3. /\ WellBuilt(call[s]) /\ Sent(s) = {} /\ call[s].id <= calls
      /\ call[s] \in Arguments /\ call[s].id # 0
  BY <1>1 DEF SessionInv, Building, WellBuilt
<1>4. call[s].op \in {"issue", "transfer"}
  BY <1>3 DEF WellBuilt, Says
<1>5. tx \in Transaction /\ tx.by = call[s] /\ tx.inputs = tx.by.inputs
      /\ tx.outputs = tx.by.outputs
  BY <1>3 DEF Transaction, Arguments
<1>6. chain' = Append(chain, tx)
  BY DEF Accept
<1> HIDE DEF tx
<1>7. /\ chain' \in Seq(Transaction) /\ Len(chain') = last
      /\ DOMAIN chain' = 1 .. last /\ chain'[last] = tx
      /\ \A n \in 1 .. Len(chain) : chain'[n] = chain[n]
  BY <1>1, <1>2, <1>5, <1>6
<1>8. last \in Nat /\ last > Len(chain) /\ 1 .. last = (1 .. Len(chain)) \cup {last}
  BY <1>2
<1> HIDE DEF last
<1>9. Own \subseteq Own'
  <2>1. ASSUME NEW coin \in (DOMAIN chain) \X (1 .. 3),
               coin[2] \in DOMAIN chain[coin[1]].outputs,
               chain[coin[1]].outputs[coin[2]] = Change
        PROVE  coin \in Own'
    <3>1. coin[1] \in 1 .. Len(chain) /\ chain'[coin[1]] = chain[coin[1]]
          /\ coin \in (DOMAIN chain') \X (1 .. 3)
      BY <1>2, <1>7, <1>8
    <3> QED BY <2>1, <3>1 DEF Own
  <2>2. HeldAtFirst \subseteq Own'
    BY DEF Own
  <2> QED BY <2>1, <2>2 DEF Own
<1>10. /\ pc' \in [Sessions -> Locations] /\ call' \in [Sessions -> Arguments]
       /\ outcome' \in [Sessions -> Outcome]
       /\ pc'[s] = "idle" /\ call'[s] = c /\ outcome'[s] = o
       /\ \A t \in Sessions : t # s =>
            pc'[t] = pc[t] /\ call'[t] = call[t] /\ outcome'[t] = outcome[t]
  BY <1>1 DEF Locations
<1>11. Sent(s)' = {last}
  <2>1. last \in Sent(s)'
    BY <1>5, <1>7, <1>8, <1>10 DEF Sent
  <2>2. ASSUME NEW n \in Sent(s)', n # last
        PROVE  FALSE
    <3>1. n \in 1 .. Len(chain) /\ chain'[n].by.id = call[s].id
      BY <1>7, <1>8, <1>10, <2>2 DEF Sent
    <3>2. n \in Sent(s)
      BY <1>2, <1>7, <3>1 DEF Sent
    <3> QED BY <1>3, <3>2
  <2> QED BY <2>1, <2>2
<1>12. SessionInv(s)'
  <2>1. TellsTruth(s)'
    <3>1. o.kind = "returned" => o.tx = last
      BY DEF last
    <3> QED BY <1>4, <1>10, <1>11, <3>1 DEF TellsTruth
  <2>2. Finds(s)'
    BY <1>10 DEF Finds
  <2>3. call'[s].target <= Len(chain)'
    <3>1. call[s].target \in Nat /\ call[s].target <= Len(chain)
      BY <1>1 DEF SessionInv, Arguments
    <3> QED BY <1>2, <1>7, <1>8, <1>10, <3>1
  <2> QED BY <1>3, <1>10, <2>1, <2>2, <2>3 DEF SessionInv, Busy, Building
<1>13. ASSUME NEW t \in Sessions, t # s
       PROVE  SessionInv(t)'
  <2>1. SessionInv(t) /\ call[t] \in Arguments /\ call[t].target \in Nat
        /\ pc'[t] = pc[t] /\ call'[t] = call[t] /\ outcome'[t] = outcome[t]
    BY <1>1, <1>10, <1>13 DEF Arguments
  <2>2. call[t].id # call[s].id
    BY <1>1, <1>3, <1>13 DEF CallsAreDistinct
  <2>3. Sent(t)' = Sent(t)
    <3>1. last \notin Sent(t)'
      BY <1>5, <1>7, <2>1, <2>2 DEF Sent
    <3>2. \A n \in 1 .. Len(chain) : n \in Sent(t)' <=> n \in Sent(t)
      BY <1>2, <1>7, <1>8, <2>1 DEF Sent
    <3>3. Sent(t) \subseteq 1 .. Len(chain) /\ Sent(t)' \subseteq 1 .. last
      BY <1>2, <1>7 DEF Sent
    <3> QED BY <1>8, <3>1, <3>2, <3>3
  <2>4. TellsTruth(t)'
    BY <2>1, <2>3 DEF SessionInv, TellsTruth
  <2>5. Finds(t)'
    <3>1. CASE call[t].target = 0
      BY <2>1, <3>1 DEF SessionInv, Finds
    <3>2. CASE call[t].target # 0
      <4>1. call[t].target \in 1 .. Len(chain)
        BY <1>2, <2>1, <3>2 DEF SessionInv
      <4>2. chain'[call[t].target] = chain[call[t].target]
        BY <1>7, <4>1
      <4> QED BY <2>1, <3>2, <4>2 DEF SessionInv, Finds
    <3> QED BY <3>1, <3>2
  <2>6. call'[t].id <= calls' /\ call'[t].target <= Len(chain)'
    BY <1>2, <1>7, <1>8, <2>1 DEF SessionInv
  <2> QED BY <1>9, <2>1, <2>3, <2>4, <2>5, <2>6 DEF SessionInv, Busy, Building
<1>14. CallsAreDistinct'
  <2>1. \A t \in Sessions : call'[t].id = call[t].id
    BY <1>10
  <2> QED BY <1>1, <2>1 DEF CallsAreDistinct
<1>15. ChainIsBuilt'
  <2>1. ASSUME NEW n \in 1 .. last
        PROVE  /\ WellBuilt(chain'[n].by) /\ chain'[n].by.id <= calls
               /\ chain'[n].inputs = chain'[n].by.inputs
               /\ chain'[n].outputs = chain'[n].by.outputs
    <3>1. CASE n = last
      BY <1>3, <1>5, <1>7, <3>1
    <3>2. CASE n # last
      <4>1. n \in DOMAIN chain /\ chain'[n] = chain[n]
        BY <1>2, <1>7, <1>8, <3>2
      <4> QED BY <1>1, <4>1 DEF ChainIsBuilt
    <3> QED BY <3>1, <3>2
  <2>2. ASSUME NEW m \in 1 .. last, NEW n \in 1 .. last,
               chain'[m].by.id = chain'[n].by.id
        PROVE  m = n
    <3>1. \A k \in 1 .. Len(chain) : chain[k].by.id # call[s].id
      BY <1>2, <1>3 DEF Sent
    <3>2. CASE m # last /\ n # last
      <4>1. /\ m \in DOMAIN chain /\ chain'[m] = chain[m]
            /\ n \in DOMAIN chain /\ chain'[n] = chain[n]
        BY <1>2, <1>7, <1>8, <3>2
      <4> QED BY <1>1, <2>2, <4>1 DEF ChainIsBuilt
    <3>3. CASE m = last /\ n # last
      <4>1. n \in 1 .. Len(chain) /\ chain'[n] = chain[n]
        BY <1>7, <1>8, <3>3
      <4> QED BY <1>5, <1>7, <2>2, <3>1, <3>3, <4>1
    <3>4. CASE m # last /\ n = last
      <4>1. m \in 1 .. Len(chain) /\ chain'[m] = chain[m]
        BY <1>7, <1>8, <3>4
      <4> QED BY <1>5, <1>7, <2>2, <3>1, <3>4, <4>1
    <3> QED BY <3>2, <3>3, <3>4
  <2>3. ChainIsBuilt' <=>
          /\ \A n \in 1 .. last :
               /\ WellBuilt(chain'[n].by) /\ chain'[n].by.id <= calls
               /\ chain'[n].inputs = chain'[n].by.inputs
               /\ chain'[n].outputs = chain'[n].by.outputs
          /\ \A m, n \in 1 .. last : chain'[m].by.id = chain'[n].by.id => m = n
    BY <1>7 DEF ChainIsBuilt, WellBuilt
  <2> QED BY <2>1, <2>2, <2>3
<1> QED BY <1>1, <1>7, <1>10, <1>12, <1>13, <1>14, <1>15 DEF AssetInv

LEMMA SendSteps ==
  ASSUME AssetInv, NEW s \in Sessions, Send(s) \/ SendReplyLost(s)
  PROVE  AssetInv'
<1>1. /\ call \in [Sessions -> Arguments] /\ chain \in Seq(Transaction)
      /\ call[s] \in Arguments /\ Len(chain) + 1 \in Nat
  BY DEF AssetInv
<1>2. CASE Send(s)
  <2> DEFINE o == Returned(Len(chain) + 1)
  <2>1. /\ pc[s] = "send" /\ pc' = [pc EXCEPT ![s] = "idle"] /\ calls' = calls
        /\ outcome' = [outcome EXCEPT ![s] = o] /\ call' = call /\ Accept(s)
    BY <1>2 DEF Send, End
  <2>2. o \in Outcome /\ o.kind = "returned" /\ o.tx = Len(chain) + 1
    BY <1>1 DEF Returned, Outcome, Kinds
  <2> HIDE DEF o
  <2>3. call' = [call EXCEPT ![s] = call[s]]
    BY <1>1, <2>1
  <2> QED BY <1>1, <2>1, <2>2, <2>3, AcceptStep
<1>3. CASE SendReplyLost(s)
  <2>1. PICK kind \in {"AssetIssuanceError", "AssetTransferError"} :
           Wrapped(s) = Raised(kind)
    BY DEF Wrapped
  <2> DEFINE o == Raised(kind)
             c == [call[s] EXCEPT !.faulty = TRUE]
  <2>2. /\ pc[s] = "send" /\ pc' = [pc EXCEPT ![s] = "idle"] /\ calls' = calls
        /\ outcome' = [outcome EXCEPT ![s] = o] /\ Accept(s)
        /\ call' = [call EXCEPT ![s] = c]
    BY <1>3, <2>1 DEF SendReplyLost, End, Blame
  <2>3. o \in Outcome /\ o.kind = kind
    BY RaisedIsOutcome DEF Kinds, Exceptions
  <2>4. /\ c \in Arguments /\ c.id = call[s].id /\ c.op = call[s].op
        /\ c.target = call[s].target /\ c.faulty
    BY <1>1 DEF Arguments
  <2> HIDE DEF o, c
  <2>5. /\ o.kind \notin {"inspected", "ValidationError", "MetadataValidationError",
                         "InsufficientFundsError"}
        /\ o.kind # "returned"
    BY <2>3
  <2> QED BY <2>2, <2>3, <2>4, <2>5, AcceptStep
<1> QED BY <1>2, <1>3

-----------------------------------------------------------------------------
(* A transaction is looked at                                              *)

(* The first bytes of what a call writes, and how much it is. *)
LEMMA PayloadHeader ==
  ASSUME NEW c \in Arguments, NEW p, Says(c, p)
  PROVE  /\ p \in Seq(Nat) /\ 3 <= Len(p) /\ Len(p) <= OpReturnMaxBytes
         /\ p[1] = 68 /\ p[2] = 65
         /\ p[3] = IF c.op = "issue" THEN DAVersion3 ELSE DATransferOpcode
<1>1. /\ Encodable(p) /\ c.amount \in Amount /\ c.hash \in {NoHash, MetadataHash}
      /\ c.op \in {"issue", "transfer"}
  BY DEF Says, Arguments
<1>2. CASE c.op = "issue"
  <2>1. PICK a \in Asset : p = IssuancePayload(c.amount, a, c.hash)
    BY <1>2 DEF Says
  <2>2. c.hash \in Seq(Nat)
    BY <1>1, HashIsBytes
  <2> DEFINE k == Len(EncodeLeb128(c.amount))
             h == Len(c.hash)
  <2>3. k \in Nat
    BY <1>1, Encoded
  <2>4. h \in Nat
    BY <2>2
  <2>5. /\ p \in Seq(Nat) /\ Len(p) = 4 + k + h
        /\ p[1] = 68 /\ p[2] = 65 /\ p[3] = 3
    <3> DEFINE data == IssuancePayload(c.amount, a, c.hash)
    <3>1. LET bytes == EncodeLeb128(c.amount) IN
          /\ data \in Seq(Nat) /\ Len(data) = 4 + Len(bytes) + h
          /\ data[1] = 68 /\ data[2] = 65 /\ data[3] = 3 /\ data[4] = FlagsByte(a)
          /\ \A i \in 1 .. Len(bytes) : data[4 + i] = bytes[i]
          /\ \A i \in 1 .. h : data[4 + Len(bytes) + i] = c.hash[i]
      BY <1>1, <2>2, IssuanceLayout, Zenon
    <3> QED BY <2>1, <3>1
  <2> HIDE DEF k, h
  <2> QED BY <1>1, <1>2, <2>3, <2>4, <2>5 DEF Encodable, DAVersion3
<1>3. CASE c.op = "transfer"
  <2>1. p = TransferPayload(<<[vout |-> <<1>>, amount |-> c.amount]>>)
    BY <1>3 DEF Says
  <2> DEFINE j == Len(EncodeLeb128(<<1>>))
             k == Len(EncodeLeb128(c.amount))
  <2>2. j \in Nat /\ k \in Nat
    BY <1>1, OneIsAmount, Encoded
  <2>3. /\ p \in Seq(Nat) /\ Len(p) = 3 + j + k
        /\ p[1] = 68 /\ p[2] = 65 /\ p[3] = 21
    BY <1>1, <2>1, OneIsAmount, TransferLayout
  <2> HIDE DEF j, k
  <2> QED BY <1>1, <1>3, <2>2, <2>3 DEF Encodable, DATransferOpcode
<1> QED BY <1>1, <1>2, <1>3

(* Behind a length of one byte the payload is where it is looked for;      *)
(* behind a longer one there is the length instead.                        *)
LEMMA RawBytesOfPayload ==
  ASSUME NEW output, NEW p \in Seq(Nat), output.payload = p, 3 <= Len(p),
         p[1] = 68, p[2] = 65
  PROVE  /\ Short(p) => /\ RawBytes(output) = p
                          /\ SubSeq(RawBytes(output), 1, 2) = DAMagic
         /\ ~Short(p) => SubSeq(RawBytes(output), 1, 2) # DAMagic
<1> DEFINE n == Len(p)
<1>1. n \in Nat /\ n >= 3
  OBVIOUS
<1> HIDE DEF n
<1>2. CASE Short(p)
  <2> DEFINE front  == <<106>> \o <<n>>
             script == front \o p
  <2>1. front \in Seq(Nat) /\ Len(front) = 2
    BY <1>1
  <2>2. ScriptOf(p) = script
    BY <1>2 DEF ScriptOf, Short, n
  <2> HIDE DEF front
  <2>3. /\ script \in Seq(Nat) /\ Len(script) = Len(front) + Len(p)
        /\ \A i \in 1 .. Len(p) : script[Len(front) + i] = p[i]
    BY <2>1, Joined, Zenon
  <2> HIDE DEF script
  <2>4. Len(script) = 2 + n /\ Len(p) = n /\ \A i \in 1 .. n : script[2 + i] = p[i]
    BY <2>1, <2>3 DEF n
  <2>5. 2 \in Nat
    OBVIOUS
  <2>6. SubSeq(script, 2 + 1, 2 + n) = p
    BY <1>1, <2>3, <2>4, <2>5, PartIs, Zenon
  <2>7. RawBytes(output) = p
    <3>1. RawBytes(output) = SubSeq(script, 3, Len(script))
      BY <2>2 DEF RawBytes
    <3> QED BY <2>4, <2>6, <3>1
  <2>8. SubSeq(p, 1, 2) = DAMagic
    <3> DEFINE magic == <<68, 65>>
    <3>1. magic \in Seq(Nat) /\ Len(magic) = 2 /\ 0 \in Nat /\ 2 \in Nat
      OBVIOUS
    <3>2. \A i \in 1 .. 2 : p[0 + i] = magic[i]
      OBVIOUS
    <3> HIDE DEF magic
    <3>3. SubSeq(p, 0 + 1, 0 + 2) = magic
      BY <3>1, <3>2, PartIs, SMT
    <3> QED BY <3>3 DEF DAMagic, magic
  <2> QED BY <1>2, <2>7, <2>8
<1>3. CASE ~Short(p)
  <2> DEFINE push   == <<106, 76>> \o <<n>>
             script == push \o p
             raw    == RawBytes(output)
  <2>1. push \in Seq(Nat) /\ Len(push) = 3 /\ push[3] = n
    BY <1>1
  <2>2. ScriptOf(p) = script
    BY <1>3 DEF ScriptOf, Short, n
  <2> HIDE DEF push
  <2>3. /\ script \in Seq(Nat) /\ Len(script) = Len(push) + Len(p)
        /\ \A i \in 1 .. Len(push) : script[i] = push[i]
    BY <2>1, Joined, Zenon
  <2> HIDE DEF script
  <2>4. Len(script) = 3 + n /\ script[3] = n
    BY <2>1, <2>3 DEF n
  <2>5. raw = SubSeq(script, 3, 3 + n)
    BY <2>2, <2>4 DEF RawBytes
  <2> HIDE DEF raw
  <2>6. raw \in Seq(Nat) /\ Len(raw) = n + 1 /\ raw[1] = n
    <3>1. 3 + n \in Nat /\ 3 <= 3 + n /\ 3 + n <= Len(script)
      BY <1>1, <2>4
    <3> DEFINE b == 3 + n
    <3>2. /\ b \in Nat /\ 3 <= b /\ b <= Len(script) /\ raw = SubSeq(script, 3, b)
          /\ b - 3 + 1 = n + 1
      BY <1>1, <2>5, <3>1
    <3> HIDE DEF b
    <3> DEFINE d == 3
    <3>3. d \in Int /\ b \in Int /\ d <= b /\ raw = SubSeq(script, d, b)
      BY <3>2
    <3>4. ASSUME NEW i \in d .. b
          PROVE  script[i] \in Nat
      <4>1. Len(script) \in Nat /\ i \in 1 .. Len(script)
        BY <2>3, <3>2
      <4> QED BY <2>3, <4>1
    <3> HIDE DEF d
    <3>5. /\ raw \in Seq(Nat) /\ Len(raw) = IF d <= b THEN b - d + 1 ELSE 0
          /\ \A i \in 1 .. b - d + 1 : raw[i] = script[d + i - 1]
      BY <3>3, <3>4, SubSeqProperties, SMT
    <3>6. /\ raw \in Seq(Nat) /\ Len(raw) = b - 3 + 1
          /\ \A i \in 1 .. b - 3 + 1 : raw[i] = script[3 + i - 1]
      BY <3>3, <3>5 DEF d
    <3>7. 1 \in 1 .. b - 3 + 1 /\ 3 + 1 - 1 = 3
      BY <1>1, <3>2
    <3>8. raw[1] = script[3]
      BY <3>6, <3>7
    <3> QED BY <2>4, <3>2, <3>6, <3>8
  <2>7. SubSeq(raw, 1, 2)[1] = n
    BY <1>1, <2>6
  <2>8. n # 68
    <3>1. ~(n <= 75)
      BY <1>3 DEF Short, n
    <3> QED BY <1>1, <3>1
  <2>9. DAMagic[1] = 68
    BY DEF DAMagic
  <2>10. SubSeq(raw, 1, 2) # DAMagic
    BY <2>7, <2>8, <2>9
  <2> QED BY <1>3, <2>10 DEF raw
<1> QED BY <1>2, <1>3

(* So the report on a transaction of the chain is what it carries, or      *)
(* nothing if that is too long.                                            *)
LEMMA ReportIsPayload ==
  ASSUME AssetInv, NEW n \in DOMAIN chain
  PROVE  /\ Carried(chain[n]) \in Finding
         /\ Report(n) = IF Short(Carried(chain[n]).payload) THEN {Carried(chain[n])} ELSE {}
<1> DEFINE by   == chain[n].by
           outs == chain[n].outputs
<1>1. by \in Arguments /\ WellBuilt(by) /\ outs = by.outputs /\ outs \in Seq(Output)
  BY ChainTypes
<1>2. PICK i \in DOMAIN outs : DataIn(outs) = {i} /\ Says(by, outs[i].payload)
  BY <1>1 DEF WellBuilt
<1> DEFINE data == outs[i].payload
           raw  == RawBytes(outs[i])
           r    == [version |-> raw[3], payload |-> raw]
<1>3. PayloadIn(outs) = data
  BY <1>2, OneDataOutput
<1>4. /\ data \in Seq(Nat) /\ 3 <= Len(data) /\ data[1] = 68 /\ data[2] = 65
      /\ data[3] = IF by.op = "issue" THEN DAVersion3 ELSE DATransferOpcode
  BY <1>1, <1>2, PayloadHeader
<1>5. /\ Short(data) => raw = data /\ SubSeq(raw, 1, 2) = DAMagic
      /\ ~Short(data) => SubSeq(raw, 1, 2) # DAMagic
  BY <1>4, RawBytesOfPayload
<1>6. \A j \in DOMAIN outs : outs[j].kind = "data" <=> j = i
  BY <1>2 DEF DataIn
<1>7. AssetOutputs(outs) = IF Short(data) THEN {i} ELSE {}
  BY <1>5, <1>6 DEF AssetOutputs, IsAssetData
<1>8. Report(n) = {[version |-> RawBytes(outs[k])[3], payload |-> RawBytes(outs[k])] :
                   k \in {j \in AssetOutputs(outs) : \A l \in AssetOutputs(outs) : j <= l}}
  BY DEF Report
<1>9. i <= i
  BY <1>1, <1>2
<1>10. Report(n) = IF Short(data) THEN {r} ELSE {}
  <2>1. CASE Short(data)
    <3>1. {j \in AssetOutputs(outs) : \A l \in AssetOutputs(outs) : j <= l} = {i}
      BY <1>7, <1>9, <2>1
    <3> QED BY <1>8, <2>1, <3>1
  <2>2. CASE ~Short(data)
    <3>1. {j \in AssetOutputs(outs) : \A l \in AssetOutputs(outs) : j <= l} = {}
      BY <1>7, <2>2
    <3> QED BY <1>8, <2>2, <3>1
  <2> QED BY <2>1, <2>2
<1>11. Carried(chain[n]) = [version |-> data[3], payload |-> data]
  BY <1>1, <1>3, <1>4 DEF Carried
<1>12. Carried(chain[n]) \in Finding
  <2>1. data[3] \in Nat
    BY <1>4
  <2> QED BY <1>4, <1>11, <2>1 DEF Finding
<1>13. Carried(chain[n]).payload = data
  BY <1>11
<1>14. Short(data) => r = Carried(chain[n])
  BY <1>5, <1>11
<1> HIDE DEF r, data
<1> QED BY <1>10, <1>12, <1>13, <1>14

(* The result of a look is what the transaction says, or an error.         *)
LEMMA LookSteps ==
  ASSUME AssetInv, NEW s \in Sessions, Look(s) \/ LookFails(s)
  PROVE  AssetInv'
<1> DEFINE rep == IF call[s].target = 0 THEN {} ELSE Report(call[s].target)
<1>1. /\ pc \in [Sessions -> Locations] /\ call \in [Sessions -> Arguments]
      /\ outcome \in [Sessions -> Outcome] /\ calls \in 0 .. MaxCalls
      /\ chain \in Seq(Transaction) /\ SessionInv(s) /\ call[s] \in Arguments
  BY DEF AssetInv
<1>2. /\ calls \in Nat /\ calls <= calls /\ call[s].target \in Nat /\ call[s].id \in Nat
      /\ Len(chain) \in Nat /\ DOMAIN chain = 1 .. Len(chain)
  BY <1>1, CallsAssumption DEF Arguments
<1>3. PICK o \in Outcome, c \in Arguments :
        /\ End(s, "look", o) /\ chain' = chain /\ call' = [call EXCEPT ![s] = c]
        /\ c.id = call[s].id /\ c.target = call[s].target /\ c.op = call[s].op
        /\ \/ o.kind = "inspected" /\ (o.report = rep \/ (o.report = {} /\ c.faulty))
           \/ o.kind \in {"NodeConnectionError", "JSONDecodeError"}
  <2>1. CASE Look(s)
    <3> DEFINE o == Inspected(rep)
    <3>1. rep \in SUBSET Finding
      <4>1. CASE call[s].target # 0
        <5>1. call[s].target \in DOMAIN chain
          BY <1>1, <1>2, <4>1 DEF SessionInv
        <5>2. Report(call[s].target) \in SUBSET Finding
          <6>1. /\ Carried(chain[call[s].target]) \in Finding
                /\ \/ Report(call[s].target) = {Carried(chain[call[s].target])}
                   \/ Report(call[s].target) = {}
            BY <5>1, ReportIsPayload
          <6> QED BY <6>1
        <5> QED BY <4>1, <5>2
      <4> QED BY <4>1
    <3> HIDE DEF rep
    <3>2. o \in Outcome /\ o.kind = "inspected" /\ o.report = rep
      BY <3>1 DEF Inspected, Outcome, Kinds
    <3>3. End(s, "look", o) /\ chain' = chain /\ call' = call
      BY <2>1 DEF Look, rep
    <3>4. call' = [call EXCEPT ![s] = call[s]]
      BY <1>1, <3>3
    <3> HIDE DEF o
    <3> QED BY <1>1, <3>2, <3>3, <3>4
  <2>2. CASE LookFails(s)
    <3> DEFINE c == [call[s] EXCEPT !.faulty = TRUE]
    <3>1. /\ c \in Arguments /\ c.id = call[s].id /\ c.op = call[s].op
          /\ c.target = call[s].target /\ c.faulty
      BY <1>1 DEF Arguments
    <3>2. call' = [call EXCEPT ![s] = c] /\ chain' = chain
      BY <2>2 DEF LookFails, Blame
    <3>3. \/ End(s, "look", Inspected({}))
          \/ \E k \in {"NodeConnectionError", "JSONDecodeError"} : End(s, "look", Raised(k))
      BY <2>2 DEF LookFails
    <3>4. /\ Inspected({}) \in Outcome /\ Inspected({}).kind = "inspected"
          /\ Inspected({}).report = {}
      BY DEF Inspected, Outcome, Kinds
    <3> HIDE DEF c
    <3>5. CASE End(s, "look", Inspected({}))
      BY <3>1, <3>2, <3>4, <3>5
    <3>6. CASE \E k \in {"NodeConnectionError", "JSONDecodeError"} : End(s, "look", Raised(k))
      <4>1. PICK k \in {"NodeConnectionError", "JSONDecodeError"} : End(s, "look", Raised(k))
        BY <3>6
      <4>2. Raised(k) \in Outcome /\ Raised(k).kind = k
        BY RaisedIsOutcome DEF Kinds, Exceptions
      <4> QED BY <3>1, <3>2, <4>1, <4>2
    <3> QED BY <3>3, <3>5, <3>6
  <2> QED BY <2>1, <2>2
<1>4. /\ pc[s] = "look" /\ pc' = [pc EXCEPT ![s] = "idle"] /\ calls' = calls
      /\ outcome' = [outcome EXCEPT ![s] = o]
  BY <1>3 DEF End
<1>5. /\ pc' \in [Sessions -> Locations] /\ call' \in [Sessions -> Arguments]
      /\ outcome' \in [Sessions -> Outcome]
      /\ pc'[s] = "idle" /\ call'[s] = c /\ outcome'[s] = o
      /\ \A t \in Sessions : t # s =>
           pc'[t] = pc[t] /\ call'[t] = call[t] /\ outcome'[t] = outcome[t]
  BY <1>1, <1>3, <1>4 DEF Locations
<1>6. Sent(s)' = {}
  <2>1. call[s].op = "verify" /\ Sent(s) = {}
    BY <1>1, <1>4 DEF SessionInv, TellsTruth
  <2> QED BY <1>3, <1>5, <2>1 DEF Sent
<1>7. TellsTruth(s)'
  <2>1. o.kind # "returned"
    BY <1>3
  <2> QED BY <1>5, <1>6, <2>1 DEF TellsTruth
<1>8. Finds(s)'
  <2> SUFFICES ASSUME o.kind = "inspected"
               PROVE  LET looked == {chain[n] : n \in {c.target} \ {0}}
                      IN  /\ o.report \subseteq {Carried(tx) : tx \in looked}
                          /\ \A tx \in looked :
                               Short(Carried(tx).payload) /\ ~c.faulty => o.report # {}
    BY <1>3, <1>5 DEF Finds
  <2>1. o.report = rep \/ (o.report = {} /\ c.faulty)
    BY <1>3
  <2>2. CASE c.target = 0
    BY <1>3, <2>1, <2>2
  <2>3. CASE c.target # 0
    <3> DEFINE n == c.target
    <3>1. n \in DOMAIN chain /\ rep = Report(n)
      BY <1>1, <1>2, <1>3, <2>3 DEF SessionInv
    <3>2. Report(n) = IF Short(Carried(chain[n]).payload) THEN {Carried(chain[n])} ELSE {}
      BY <3>1, ReportIsPayload
    <3>3. {chain[k] : k \in {n} \ {0}} = {chain[n]}
      BY <2>3
    <3> HIDE DEF n, rep
    <3> QED BY <2>1, <3>1, <3>2, <3>3 DEF n
  <2> QED BY <2>2, <2>3
<1>9. SessionInv(s)'
  <2>1. call'[s].id <= calls' /\ call'[s].target <= Len(chain)'
    BY <1>1, <1>3, <1>4, <1>5 DEF SessionInv
  <2> QED BY <1>5, <1>7, <1>8, <2>1 DEF SessionInv, Busy, Building
<1> QED BY <1>1, <1>2, <1>3, <1>4, <1>5, <1>9, SessionStep

-----------------------------------------------------------------------------
(* The invariant                                                           *)

LEMMA AssetInit == Init => AssetInv
<1> SUFFICES ASSUME Init PROVE AssetInv
  OBVIOUS
<1>1. /\ pc = [s \in Sessions |-> "idle"] /\ call = [s \in Sessions |-> NoCall]
      /\ outcome = [s \in Sessions |-> Raised("none")] /\ chain = <<>> /\ calls = 0
  BY DEF Init
<1>2. Raised("none") \in Outcome /\ Raised("none").kind = "none"
  BY RaisedIsOutcome DEF Kinds
<1>3. NoCall \in Arguments /\ NoCall.id = 0 /\ NoCall.target = 0
  BY NoCallIsCall DEF NoCall
<1>4. chain \in Seq(Transaction) /\ DOMAIN chain = {} /\ Len(chain) = 0
  BY <1>1
<1>5. calls \in 0 .. MaxCalls
  BY <1>1, CallsAssumption
<1>6. /\ pc \in [Sessions -> Locations] /\ call \in [Sessions -> Arguments]
      /\ outcome \in [Sessions -> Outcome]
  BY <1>1, <1>2, <1>3 DEF Locations
<1>7. ASSUME NEW s \in Sessions
      PROVE  SessionInv(s)
  <2>1. pc[s] = "idle" /\ call[s] = NoCall /\ outcome[s] = Raised("none")
    BY <1>1
  <2>2. Sent(s) = {}
    BY <1>4 DEF Sent
  <2>3. TellsTruth(s) /\ Finds(s)
    BY <1>2, <2>1, <2>2 DEF TellsTruth, Finds
  <2>4. call[s].id <= calls /\ call[s].target <= Len(chain)
    BY <1>1, <1>3, <1>4, <2>1
  <2> QED BY <2>1, <2>3, <2>4 DEF SessionInv, Busy, Building
<1>8. CallsAreDistinct /\ ChainIsBuilt
  <2>1. \A s \in Sessions : call[s].id = 0
    BY <1>1, <1>3
  <2> QED BY <1>4, <2>1 DEF CallsAreDistinct, ChainIsBuilt
<1> QED BY <1>4, <1>5, <1>6, <1>7, <1>8 DEF AssetInv

LEMMA AssetStep == AssetInv /\ [Next]_vars => AssetInv'
<1> SUFFICES ASSUME AssetInv, [Next]_vars PROVE AssetInv'
  OBVIOUS
<1>1. CASE UNCHANGED vars
  <2>1. /\ pc' = pc /\ call' = call /\ outcome' = outcome
        /\ chain' = chain /\ calls' = calls
    BY <1>1 DEF vars
  <2>2. Own' = Own
    BY <2>1 DEF Own
  <2>3. ASSUME NEW s \in Sessions
        PROVE  SessionInv(s)'
    <3>1. SessionInv(s)
      BY DEF AssetInv
    <3>2. Sent(s)' = Sent(s)
      BY <2>1 DEF Sent
    <3>3. TellsTruth(s)'
      BY <2>1, <3>1, <3>2 DEF SessionInv, TellsTruth
    <3>4. Finds(s)'
      BY <2>1, <3>1 DEF SessionInv, Finds
    <3> QED BY <2>1, <2>2, <3>1, <3>2, <3>3, <3>4 DEF SessionInv, Busy, Building
  <2>4. CallsAreDistinct' /\ ChainIsBuilt'
    BY <2>1 DEF AssetInv, CallsAreDistinct, ChainIsBuilt
  <2> QED BY <2>1, <2>3, <2>4 DEF AssetInv
<1>2. ASSUME NEW s \in Sessions,
             \/ Issue(s) \/ Transfer(s) \/ Verify(s)
             \/ Answered(s) \/ SendReplyLost(s) \/ Fails(s) \/ LookFails(s)
      PROVE  AssetInv'
  <2>1. CASE Issue(s)
    BY <2>1, IssueStep
  <2>2. CASE Transfer(s)
    BY <2>2, TransferStep
  <2>3. CASE Verify(s)
    BY <2>3, VerifyStep
  <2>4. CASE Create(s)
    <3>1. Proceed(s, "create", "fund") /\ call' = call
      BY <2>4 DEF Create
    <3> QED BY <3>1, ProceedStep
  <2>5. CASE Fund(s)
    BY <2>5, FundStep
  <2>6. CASE Sign(s)
    <3>1. Proceed(s, "sign", "send") /\ call' = call
      BY <2>6 DEF Sign
    <3>2. "sign" # "create"
      OBVIOUS
    <3> QED BY <3>1, <3>2, ProceedStep
  <2>7. CASE Send(s) \/ SendReplyLost(s)
    BY <2>7, SendSteps
  <2>8. CASE FundFails(s) \/ SignIncomplete(s) \/ SendRejected(s) \/ Fails(s)
    BY <2>8, FailSteps
  <2>9. CASE Look(s) \/ LookFails(s)
    BY <2>9, LookSteps
  <2> QED BY <1>2, <2>1, <2>2, <2>3, <2>4, <2>5, <2>6, <2>7, <2>8, <2>9 DEF Answered
<1> QED BY <1>1, <1>2 DEF Next

THEOREM AssetInductive == Spec => []AssetInv
<1>1. Init => AssetInv
  BY AssetInit
<1>2. AssetInv /\ [Next]_vars => AssetInv'
  BY AssetStep
<1> QED BY <1>1, <1>2, PTL DEF Spec

-----------------------------------------------------------------------------
(* What follows from it                                                    *)

(* The types (TypeOK): a call that is building its transaction has one     *)
(* data output, and what has been signed has inputs, however the node      *)
(* funds it.                                                               *)
THEOREM AssetTypeCorrect == Spec => []TypeOK
<1>1. AssetInv => TypeOK
  <2> SUFFICES ASSUME AssetInv PROVE TypeOK
    OBVIOUS
  <2>1. /\ pc \in [Sessions -> Locations] /\ call \in [Sessions -> Arguments]
        /\ outcome \in [Sessions -> Outcome] /\ calls \in 0 .. MaxCalls
        /\ chain \in Seq(Transaction) /\ \A s \in Sessions : SessionInv(s)
    BY DEF AssetInv
  <2>2. calls \in Nat /\ Len(chain) \in Nat
    BY <2>1, CallsAssumption
  <2>3. ASSUME NEW s \in Sessions
        PROVE  /\ call[s].id \in 0 .. calls /\ call[s].amount \in Amount
               /\ call[s].target \in 0 .. Len(chain)
               /\ Busy(s) => outcome[s].kind = "running"
               /\ pc[s] \in {"sign", "send"} => call[s].inputs # {}
               /\ Building(s) => /\ call[s].amount # <<>>
                                 /\ Cardinality(DataIn(call[s].outputs)) = 1
    <3>1. /\ call[s].id \in Nat /\ call[s].amount \in Amount /\ call[s].target \in Nat
      BY <2>1 DEF Arguments
    <3>2. SessionInv(s)
      BY <2>1
    <3>3. ASSUME Building(s)
          PROVE  call[s].amount # <<>> /\ Cardinality(DataIn(call[s].outputs)) = 1
      <4>1. PICK i \in DOMAIN call[s].outputs : DataIn(call[s].outputs) = {i}
        BY <3>2, <3>3 DEF SessionInv, WellBuilt
      <4>2. Cardinality({i}) = 1
        BY FS_Singleton
      <4> QED BY <3>2, <3>3, <4>1, <4>2 DEF SessionInv, WellBuilt
    <3> QED BY <2>2, <3>1, <3>2, <3>3 DEF SessionInv
  <2>4. \A s \in Sessions : outcome[s].kind \in Kinds
    BY <2>1 DEF Outcome
  <2> QED BY <2>1, <2>3, <2>4 DEF TypeOK, Locations, Kinds
<1> QED BY <1>1, AssetInductive, PTL

(* No call sends two transactions, and none tells its caller what is not   *)
(* true of the chain (CallTellsTruth): whatever the other sessions spend   *)
(* meanwhile, and whichever request or answer is lost.                     *)
THEOREM CallsTellTheTruth == Spec => []CallTellsTruth
<1>1. AssetInv => CallTellsTruth
  <2> SUFFICES ASSUME AssetInv, NEW s \in Sessions
               PROVE  Cardinality(Sent(s)) <= 1 /\ TellsTruth(s)
    BY DEF CallTellsTruth
  <2>1. \A m, n \in Sent(s) : m = n
    BY DEF AssetInv, ChainIsBuilt, Sent
  <2> QED BY <2>1, OneAtMost DEF AssetInv, SessionInv
<1> QED BY <1>1, AssetInductive, PTL

(* verify_asset_tx reports nothing but what the call of the transaction    *)
(* has put there, tells an issuance from a transfer, and, if its request   *)
(* is answered, finds every payload of up to 75 bytes                      *)
(* (InspectionFindsPayload).                                               *)
THEOREM PayloadsAreFound == Spec => []InspectionFindsPayload
<1>1. AssetInv => InspectionFindsPayload
  BY DEF AssetInv, SessionInv, InspectionFindsPayload
<1> QED BY <1>1, AssetInductive, PTL

(* A transfer reads back to its one instruction, if it can be read. *)
LEMMA TransferIsRead ==
  ASSUME NEW amount \in Amount
  PROVE  LET data == TransferPayload(<<[vout |-> <<1>>, amount |-> amount]>>) IN
         /\ ReadTransfer(data) = {[vout |-> <<1>>, amount |-> a] :
                                     a \in {b \in {amount} : Readable(b)}}
         /\ DecodeIssuance(data) = Unreadable
<1> DEFINE one  == <<1>>
           data == TransferPayload(<<[vout |-> one, amount |-> amount]>>)
           n    == Len(EncodeLeb128(one))
           k    == Len(EncodeLeb128(amount))
<1>1. one \in Amount /\ Len(one) <= 10
  BY OneIsAmount
<1>2. n \in Nat /\ k \in Nat
  BY <1>1, Encoded
<1> HIDE DEF one
<1>3. /\ DecodeLeb128(data, 3) = IF Len(one) <= 10
                                 THEN {[value |-> one, consumed |-> n]} ELSE Unreadable
      /\ DecodeLeb128(data, 3 + n) = IF Len(amount) <= 10
                                     THEN {[value |-> amount, consumed |-> k]}
                                     ELSE Unreadable
      /\ Len(data) = 3 + n + k
      /\ DecodeIssuance(data) = Unreadable
  BY <1>1, TransferReadsBack, Zenon
<1> HIDE DEF data, n, k
<1>4. DecodeLeb128(data, 3) = {[value |-> one, consumed |-> n]}
  BY <1>1, <1>3
<1> DEFINE rest == {b \in DecodeLeb128(data, 3 + n) : 3 + n + b.consumed = Len(data)}
<1>5. ReadTransfer(data) = {[vout |-> one, amount |-> a.value] : a \in rest}
  <2> DEFINE v == [value |-> one, consumed |-> n]
             F(w) == {[vout |-> w.value, amount |-> a.value] :
                         a \in {b \in DecodeLeb128(data, 3 + w.consumed) :
                                  3 + w.consumed + b.consumed = Len(data)}}
  <2>1. ReadTransfer(data) = UNION {F(w) : w \in DecodeLeb128(data, 3)}
    BY DEF ReadTransfer
  <2>2. F(v) = {[vout |-> one, amount |-> a.value] : a \in rest}
    OBVIOUS
  <2> HIDE DEF F, v
  <2>3. UNION {F(w) : w \in {v}} = F(v)
    OBVIOUS
  <2> QED BY <1>4, <2>1, <2>2, <2>3 DEF v
<1>6. rest = IF Len(amount) <= 10 THEN {[value |-> amount, consumed |-> k]} ELSE {}
  BY <1>2, <1>3 DEF Unreadable
<1> HIDE DEF rest
<1>7. {[vout |-> one, amount |-> a.value] : a \in rest} =
      {[vout |-> one, amount |-> a] : a \in {b \in {amount} : Readable(b)}}
  <2>1. CASE Len(amount) <= 10
    <3> DEFINE found == [value |-> amount, consumed |-> k]
    <3>1. rest = {found} /\ found.value = amount
      BY <1>6, <2>1
    <3> HIDE DEF found
    <3>2. {b \in {amount} : Readable(b)} = {amount}
      BY <2>1 DEF Readable
    <3> QED BY <3>1, <3>2
  <2>2. CASE ~(Len(amount) <= 10)
    <3>1. rest = {} /\ {b \in {amount} : Readable(b)} = {}
      BY <1>6, <2>2 DEF Readable
    <3> QED BY <3>1
  <2> QED BY <2>1, <2>2
<1> QED BY <1>3, <1>5, <1>7 DEF data, one

(* So does an issuance, to the amount and the flags. *)
LEMMA IssuanceIsRead ==
  ASSUME NEW amount \in Amount, NEW a \in Asset, NEW hash \in {NoHash, MetadataHash}
  PROVE  LET data == IssuancePayload(amount, a, hash) IN
         /\ DecodeIssuance(data) = {[amount |-> amount, asset |-> b] :
                                       b \in {c \in {a} : Readable(amount)}}
         /\ SubSeq(data, Len(data) - 19, Len(data)) = hash
<1> DEFINE data == IssuancePayload(amount, a, hash)
<1>1. hash \in Seq(Nat) /\ Len(hash) = 20
  BY HashIsBytes
<1>2. /\ DecodeIssuance(data) = IF Len(amount) <= 10
                                THEN {[amount |-> amount, asset |-> a]} ELSE Unreadable
      /\ SubSeq(data, Len(data) - 19, Len(data)) = hash
  BY <1>1, IssuanceReadsBack, Zenon
<1> HIDE DEF data
<1>3. DecodeIssuance(data) = {[amount |-> amount, asset |-> b] :
                                 b \in {c \in {a} : Readable(amount)}}
  BY <1>2 DEF Readable, Unreadable
<1> QED BY <1>2, <1>3 DEF data

(* What is on the chain reads back to what the caller asked for, if it can *)
(* be read at all: for every amount, whatever the flags, wherever the node *)
(* has put the change output (ChainSaysWhatWasAsked).                      *)
THEOREM ChainAlwaysSaysWhatWasAsked == Spec => []ChainSaysWhatWasAsked
<1>1. AssetInv => ChainSaysWhatWasAsked
  <2> SUFFICES ASSUME AssetInv, NEW n \in DOMAIN chain
               PROVE  LET by   == chain[n].by
                          data == PayloadIn(chain[n].outputs)
                      IN  /\ Len(data) <= OpReturnMaxBytes
                          /\ IF by.op = "issue"
                             THEN /\ DecodeIssuance(data) =
                                       {[amount |-> by.amount, asset |-> a] :
                                           a \in {b \in by.asset : Readable(by.amount)}}
                                  /\ SubSeq(data, Len(data) - 19, Len(data)) = by.hash
                             ELSE /\ ReadTransfer(data) =
                                       {[vout |-> <<1>>, amount |-> a] :
                                           a \in {b \in {by.amount} : Readable(b)}}
                                  /\ DecodeIssuance(data) = Unreadable
    BY DEF ChainSaysWhatWasAsked
  <2> DEFINE by   == chain[n].by
             data == PayloadIn(chain[n].outputs)
  <2>1. by \in Arguments /\ WellBuilt(by) /\ chain[n].outputs = by.outputs
    BY ChainTypes
  <2>2. PICK i \in DOMAIN by.outputs :
          DataIn(by.outputs) = {i} /\ Says(by, by.outputs[i].payload)
    BY <2>1 DEF WellBuilt
  <2>3. data = by.outputs[i].payload
    BY <2>1, <2>2, OneDataOutput
  <2>4. by.amount \in Amount /\ by.hash \in {NoHash, MetadataHash}
    BY <2>1 DEF Arguments
  <2> HIDE DEF by, data
  <2>5. Says(by, data)
    BY <2>2, <2>3
  <2>6. CASE by.op = "issue"
    <3>1. PICK a \in Asset : by.asset = {a} /\ data = IssuancePayload(by.amount, a, by.hash)
      BY <2>5, <2>6 DEF Says
    <3>2. LET p == IssuancePayload(by.amount, a, by.hash) IN
          /\ DecodeIssuance(p) = {[amount |-> by.amount, asset |-> b] :
                                     b \in {c \in {a} : Readable(by.amount)}}
          /\ SubSeq(p, Len(p) - 19, Len(p)) = by.hash
      BY <2>4, IssuanceIsRead, Zenon
    <3> QED BY <2>5, <2>6, <3>1, <3>2 DEF Says, Encodable, by, data
  <2>7. CASE by.op # "issue"
    <3>1. data = TransferPayload(<<[vout |-> <<1>>, amount |-> by.amount]>>)
      BY <2>5, <2>7 DEF Says
    <3>2. LET p == TransferPayload(<<[vout |-> <<1>>, amount |-> by.amount]>>) IN
          /\ ReadTransfer(p) = {[vout |-> <<1>>, amount |-> a] :
                                   a \in {b \in {by.amount} : Readable(b)}}
          /\ DecodeIssuance(p) = Unreadable
      BY <2>4, TransferIsRead, Zenon
    <3> QED BY <2>5, <2>7, <3>1, <3>2 DEF Says, Encodable, by, data
  <2> QED BY <2>6, <2>7
<1> QED BY <1>1, AssetInductive, PTL

(* A call that fails although all its requests were answered has lost a    *)
(* coin to a transaction of another call, or was refused more funds while  *)
(* its own coins were there (LosersHaveAWinner): with any number of        *)
(* sessions on the wallet, none fails for a coin that nobody has spent.    *)
THEOREM LosersAlwaysHaveAWinner == Spec => LosersHaveAWinner
<1> DEFINE A == \A s \in Sessions : Lost(s) =>
                  \/ \E n \in DOMAIN chain : /\ chain[n].by.id # call[s].id
                                             /\ chain[n].inputs \cap call[s].inputs # {}
                  \/ pc[s] = "fund" /\ call[s].inputs \subseteq Unspent
<1>1. AssetInv /\ [Next]_vars => [A]_vars
  <2> SUFFICES ASSUME AssetInv, Next, NEW s \in Sessions, Lost(s),
                      ~(pc[s] = "fund" /\ call[s].inputs \subseteq Unspent)
               PROVE  \E n \in DOMAIN chain : /\ chain[n].by.id # call[s].id
                                              /\ chain[n].inputs \cap call[s].inputs # {}
    OBVIOUS
  <2>1. PICK t \in Sessions :
           \/ Issue(t) \/ Transfer(t) \/ Verify(t)
           \/ Answered(t) \/ SendReplyLost(t) \/ Fails(t) \/ LookFails(t)
    BY DEF Next
  <2>2. /\ pc[s] \in {"create", "fund", "sign", "send"} /\ pc'[s] = "idle"
        /\ outcome'[s].kind # "returned" /\ ~call'[s].faulty
    BY DEF Lost, Building, Busy
  <2>3. /\ pc \in [Sessions -> Locations] /\ call \in [Sessions -> Arguments]
        /\ outcome \in [Sessions -> Outcome] /\ SessionInv(s)
    BY DEF AssetInv
  <2>4. call[s].inputs \subseteq Own /\ Sent(s) = {}
    BY <2>2, <2>3 DEF SessionInv, Building
  <2>5. ~(call[s].inputs \subseteq Unspent)
    <3>1. ASSUME NEW from, NEW to, Proceed(t, from, to), to # "idle"
          PROVE  FALSE
      <4>1. pc' = [pc EXCEPT ![t] = to]
        BY <3>1 DEF Proceed
      <4> QED BY <2>2, <2>3, <3>1, <4>1
    <3>2. ASSUME NEW from, NEW o, End(t, from, o)
          PROVE  t = s /\ pc[s] = from /\ outcome'[s] = o
      <4>1. /\ pc[t] = from /\ pc' = [pc EXCEPT ![t] = "idle"]
            /\ outcome' = [outcome EXCEPT ![t] = o]
        BY <3>2 DEF End
      <4>2. t = s
        BY <2>2, <2>3, <4>1
      <4> QED BY <2>3, <4>1, <4>2
    <3>3. ASSUME Blame(t), t = s
          PROVE  FALSE
      <4>1. call' = [call EXCEPT ![s] = [call[s] EXCEPT !.faulty = TRUE]]
        BY <2>3, <3>3 DEF Blame
      <4>2. call[s] \in Arguments
        BY <2>3
      <4>3. call'[s].faulty
        BY <2>3, <4>1, <4>2 DEF Arguments
      <4> QED BY <2>2, <4>3
    <3>4. ASSUME pc[t] = "idle", pc' = pc \/ pc'[t] # "idle",
                 \A u \in Sessions : u # t => pc'[u] = pc[u]
          PROVE  FALSE
      BY <2>2, <3>4
    <3>5. ~(Issue(t) \/ Transfer(t) \/ Verify(t))
      <4>1. ASSUME NEW kind, Refused(t, kind)
            PROVE  FALSE
        BY <3>4, <4>1 DEF Refused, Call
      <4>2. ASSUME NEW c, Starts(t, c)
            PROVE  FALSE
        BY <2>3, <3>4, <4>2 DEF Starts, Call
      <4>3. ~Issue(t)
        BY <4>1, <4>2 DEF Issue, Submit
      <4>4. ~Transfer(t)
        BY <4>1, <4>2 DEF Transfer, Submit
      <4>5. ~Verify(t)
        BY <2>3, <3>4 DEF Verify, Call
      <4> QED BY <4>3, <4>4, <4>5
    <3>6. ~(Create(t) \/ Fund(t) \/ Sign(t))
      BY <3>1 DEF Create, Fund, Sign
    <3>7. ~(SendReplyLost(t) \/ Fails(t) \/ LookFails(t))
      BY <3>2, <3>3 DEF SendReplyLost, Fails, LookFails
    <3>8. ~(Send(t) \/ Look(t))
      <4>1. ~Send(t)
        <5>1. Returned(Len(chain) + 1).kind = "returned"
          BY DEF Returned
        <5> QED BY <2>2, <3>2, <5>1 DEF Send
      <4>2. ~Look(t)
        BY <2>2, <3>2 DEF Look
      <4> QED BY <4>1, <4>2
    <3>9. FundFails(t) \/ SignIncomplete(t) \/ SendRejected(t)
      BY <2>1, <3>5, <3>6, <3>7, <3>8 DEF Answered
    <3>10. CASE FundFails(t)
      BY <3>2, <3>10 DEF FundFails
    <3>11. CASE SignIncomplete(t) \/ SendRejected(t)
      BY <3>2, <3>11 DEF SignIncomplete, SendRejected
    <3> QED BY <3>9, <3>10, <3>11
  <2>6. PICK coin \in call[s].inputs : coin \in Spent
    BY <2>4, <2>5 DEF Unspent
  <2>7. PICK n \in DOMAIN chain : coin \in chain[n].inputs
    BY <2>6 DEF Spent
  <2>8. chain[n].by.id # call[s].id
    BY <2>4 DEF Sent
  <2> QED BY <2>6, <2>7, <2>8
<1>2. [][A]_vars <=> LosersHaveAWinner
  BY DEF LosersHaveAWinner
<1> HIDE DEF A
<1> QED BY <1>1, <1>2, AssetInductive, PTL DEF Spec
=============================================================================
