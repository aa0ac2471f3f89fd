---------------------------- MODULE ScriptSafety ----------------------------
(***************************************************************************)
(* What the scripts promise to the owner of the collateral, and to those   *)
(* who put scripts together: properties of ScriptSpending.                 *)
(***************************************************************************)
EXTENDS ScriptSpending

Evaluation == [of       : {"none", "output", "pushes"},
               at       : Nat \ {0},
               stack    : Seq(Seq(Byte)),
               key      : Seq(Byte),
               signer   : Seq(Byte),
               locktime : Seq(Byte),
               final    : BOOLEAN,
               verdict  : {"none", "running", "accepted", "rejected"}]

(* Every variable has its type: an output is one for a valid key, and its  *)
(* script and its public script have the lengths the builder documents.    *)
TypeOK ==
    /\ outcome \in {"none", "returned", "InvalidPubkeyError", "ValidationError",
                    "ScriptError"}
    /\ \A o \in output : /\ o.owner_pubkey \in Pubkeys /\ Len(o.owner_pubkey) = 33
                         /\ o.owner_pubkey[1] \in {2, 3}
                         /\ Len(o.scriptpubkey) = 34 /\ Len(o.internal_key) = 32
    /\ born \in 0 .. Len(Moments) /\ now \in 1 .. Len(Moments)
    /\ script \in Seq(Byte) /\ Len(pushed) \in 0 .. MaxPushes
    /\ eval \in Evaluation

(* The collateral opens to nobody but its owner, and not before the chain  *)
(* has passed the block height, or the time, that the owner has named: for *)
(* every size of the timelock, whatever lock time and sequence number the  *)
(* transaction has (scripts.py:87-112, 133-139, 169-209).                  *)
ClosedUntilDue ==
    eval.of = "output" /\ eval.verdict = "accepted" =>
        \A o \in output :
            /\ eval.key = o.owner_pubkey /\ eval.signer = o.owner_pubkey
            /\ Passed(o.timelock.bytes)

(* The script turns nobody away who is in order: when it rejects, the      *)
(* transaction is not the owner's, or its lock time is of the other kind   *)
(* or too low, or its sequence number final (scripts.py:199-207).          *)
OpensForOwner ==
    eval.of = "output" /\ eval.verdict = "rejected" =>
        \A o \in output :
            \/ eval.key # o.owner_pubkey \/ eval.signer # o.owner_pubkey
            \/ IsHeight(o.timelock.bytes) # IsHeight(eval.locktime)
            \/ Less(eval.locktime, o.timelock.bytes)
            \/ eval.final

(* The tweak commits to the terms: another timelock or another owner gives *)
(* another tweak, so no two scripts are the same bytes (scripts.py:232-269,*)
(* 400-413).                                                               *)
TweakCommits ==
    \A o \in output, t \in Timelocks, key \in Pubkeys :
        /\ ValidPubkey(key) /\ ValidTimelock(t)
        /\ CollateralOutput(key, t).tweak = o.tweak
        => t = o.timelock /\ key = o.owner_pubkey

(* What is pushed arrives: after the pushes of any numbers and data, in    *)
(* any order, the stack has these numbers and these data, the numbers in   *)
(* their shortest form (scripts.py:87-139).                                *)
PushesArrive ==
    eval.of = "pushes" /\ eval.verdict # "running" =>
        /\ Len(eval.stack) = Len(pushed)
        /\ \A i \in DOMAIN pushed : LET item == eval.stack[i] IN
             IF pushed[i].kind = "data" THEN item = pushed[i].value
             ELSE Minimal(item) /\ ScriptNumber(item) = pushed[i].value

(* The length at the head of what a leaf is hashed from.                   *)
LeafHeader(data) ==
    CASE data[2] < 253 -> [size |-> 2, length |-> data[2]]
      [] data[2] = 253 -> [size |-> 4, length |-> data[3] + 256 * data[4]]
      [] data[2] = 254 -> [size |-> 6, length |-> data[3] + 256 * data[4]
                                         + 65536 * data[5] + 16777216 * data[6]]

(* The leaf hash is of the whole script: a reader of what is hashed finds  *)
(* it again behind its length (scripts.py:232-241, 474-482).               *)
LeafIsOfScript ==
    LET data   == LeafHash(script)[2]
        header == LeafHeader(data)
    IN  /\ Len(data) = header.size + header.length
        /\ SubSeq(data, header.size + 1, Len(data)) = script

(* An owner who keeps trying with the lock time of the output gets the     *)
(* collateral, if the clock runs past the timelock: no timelock that the   *)
(* builder accepts and the chain can reach locks it for good.              *)
WithinReach(t) == LET last == Moments[Len(Moments)]
                  IN Less(t, IF IsHeight(t) THEN BytesOf[last.height] ELSE last.time)

CollateralReturns ==
    (\E o \in output : WithinReach(o.timelock.bytes)) ~> eval.verdict = "accepted"

-----------------------------------------------------------------------------
(* The inductive invariant behind these promises *)

(* What can be pushed, the data it puts on the stack, and the push. *)
Pushable == [kind : {"number"}, value : {n \in Number : Len(n.bytes) < MaxPush}]
            \cup [kind : {"data"}, value : {data \in Seq(Byte) : Len(data) <= MaxPush}]
Item(x)  == IF x.kind = "data" THEN x.value ELSE EncodeScriptNumber(x.value)
Piece(x) == IF x.kind = "data" THEN PushBytes(x.value) ELSE PushNumber(x.value)

(* Where the first k pushes end. *)
EndOf(items, k) ==
    SumFunctionOnSet([i \in DOMAIN items |-> Len(Piece(items[i]))], 1 .. k)

(* The script is its pushes, one behind the other. *)
LaidOut ==
    /\ Len(script) = EndOf(pushed, Len(pushed))
    /\ \A i \in DOMAIN pushed :
         /\ EndOf(pushed, i) <= Len(script)
         /\ \A j \in DOMAIN Piece(pushed[i]) :
              script[EndOf(pushed, i - 1) + j] = Piece(pushed[i])[j]

(* The node has gone past some pushes, and their data are on the stack. *)
PushesGoOn ==
    \E k \in 0 .. Len(pushed) :
        /\ eval.at = EndOf(pushed, k) + 1
        /\ eval.stack = [i \in 1 .. k |-> Item(pushed[i])]
        /\ eval.verdict # "running" => k = Len(pushed)

(* The script of an output, opcode by opcode: where the node is, and its   *)
(* stack.                                                                  *)
Stages(o, signer, key) ==
    LET n     == Len(PushNumber(o.timelock))
        lock  == EncodeScriptNumber(o.timelock)
        sig   == Sig(signer)
        valid == IF sig = Sig(key) THEN <<1>> ELSE <<>>
    IN  <<[at |-> 1,      stack |-> <<sig, key>>],
          [at |-> n + 1,  stack |-> <<sig, key, lock>>],
          [at |-> n + 2,  stack |-> <<sig, key, lock>>],
          [at |-> n + 3,  stack |-> <<sig, key>>],
          [at |-> n + 4,  stack |-> <<sig, key, key>>],
          [at |-> n + 5,  stack |-> <<sig, key, Hash160(key)>>],
          [at |-> n + 26, stack |-> <<sig, key, Hash160(key), Hash160(o.owner_pubkey)>>],
          [at |-> n + 27, stack |-> <<sig, key>>],
          [at |-> n + 28, stack |-> <<valid>>]>>

(* What OP_CHECKLOCKTIMEVERIFY has let pass. *)
Due(o) ==
    /\ IsHeight(o.timelock.bytes) <=> IsHeight(eval.locktime)
    /\ ~Less(eval.locktime, o.timelock.bytes)
    /\ ~eval.final

ScriptGoesOn(o) ==
    \E i \in 1 .. 9 :
        /\ eval.at = Stages(o, eval.signer, eval.key)[i].at
        /\ eval.stack = Stages(o, eval.signer, eval.key)[i].stack
        /\ i > 2 => Due(o)
        /\ i > 7 => Hash160(eval.key) = Hash160(o.owner_pubkey)
        /\ eval.verdict = "accepted" => i = 9 /\ eval.signer = eval.key

(* An output is built as it says, and nothing else is built then. *)
OutputIsBuilt(o) ==
    /\ output = {o} /\ pushed = <<>>
    /\ o.owner_pubkey \in Pubkeys /\ ValidPubkey(o.owner_pubkey)
    /\ o.timelock \in Number /\ ValidTimelock(o.timelock)
    /\ Len(o.timelock.bytes) < MaxPush
    /\ o = CollateralOutput(o.owner_pubkey, o.timelock)

(* A transaction that the node looks at, or has accepted, was final when   *)
(* it came, and the clock has stood since.                                 *)
Spending ==
    /\ output # {}
    /\ \A key \in {eval.key, eval.signer} : key \in Pubkeys /\ ValidPubkey(key)
    /\ Len(eval.locktime) <= 4
    /\ eval.verdict \in {"running", "accepted"} =>
          eval.final \/ eval.locktime = <<>> \/ Passed(eval.locktime)
    /\ eval.verdict # "none"
    /\ \A o \in output : ScriptGoesOn(o)

(* The script is its pushes and the output is what its terms say; the node *)
(* has gone past some whole pushes, or is at one of the nine stages of the *)
(* script of the output, and has declined only for one of the four reasons *)
(* (scripts.py:87-139, 169-209, 372-430).                                  *)
ScriptInv ==
    /\ TypeOK
    /\ pushed \in Seq(Pushable) /\ LaidOut
    /\ \A o \in output : OutputIsBuilt(o)
    /\ eval.of = "none" => eval = NoEval
    /\ eval.of = "pushes" => output = {} /\ eval.verdict # "none" /\ PushesGoOn
    /\ eval.of = "output" => Spending
    /\ OpensForOwner

-----------------------------------------------------------------------------
(* What the documentation says and the code does not keep                  *)

(* scripts.py:389: build_collateral_output takes a "Block height timelock  *)
(* (default: ~30 days)". An output with the default timelock stays closed  *)
(* for thirty days of blocks of 15 seconds after it has been built.        *)
DefaultLocksThirtyDays ==
    eval.verdict = "accepted" /\ born # 0 =>
        Moments[now].height >= Moments[born].height + EstimateTimelockBlocks(30, 15)
=============================================================================
