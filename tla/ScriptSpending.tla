-------------------------- MODULE ScriptSpending --------------------------
(***************************************************************************)
(* The life of a script: a caller builds a collateral output with          *)
(* DigiDollarScripts (digiforge/scripts.py), or puts pushes together with  *)
(* push_number and push_bytes, and a node evaluates the script, one opcode *)
(* after the other, for the transactions that spend it.                    *)
(*                                                                         *)
(* The builder keeps no state, so one behaviour looks at one output, or at *)
(* one script of pushes. The node is external: its clock, the finality of  *)
(* a transaction, and its interpreter, of which the opcodes that the       *)
(* builder uses. Signatures are checked as in the pattern that the builder *)
(* names, pay to public key hash.                                          *)
(***************************************************************************)
EXTENDS Scripts

CONSTANTS
    Pubkeys,     \* byte strings the callers pass for the owner
    Timelocks,   \* numbers the callers pass for the timelock
    Numbers,     \* numbers the callers push
    Lengths,     \* lengths of the data the callers push
    Locktimes,   \* nLockTime of the transactions that spend, as bytes
    Moments,     \* the chain's clock: height and time, one after the other
    MaxPushes    \* bound: pushes of a script

VARIABLES
    output,   \* the CollateralOutput built, {} before
    outcome,  \* how the latest call of the builder ended
    born,     \* history: the moment of the output, if its timelock is the default
    script,   \* the script of the pushes so far
    pushed,   \* history: what has been pushed
    now,      \* the node: the moment of its clock
    eval      \* the node: the evaluation of a script

buildVars == <<output, outcome, born, script, pushed>>
vars      == <<buildVars, now, eval>>

Moment == [height : Nat, time : Magnitude]

ASSUME KeysAssumption    == Pubkeys \subseteq Seq(Byte)
ASSUME HashAssumption    == \A key, other \in {k \in Pubkeys : ValidPubkey(k)} :
    Hash160(key) = Hash160(other) => key = other
ASSUME NumbersAssumption == \A n \in Timelocks \cup Numbers :
    n \in Number /\ Len(n.bytes) < MaxPush
ASSUME LengthsAssumption == Lengths \subseteq Nat /\ MaxPushes \in Nat
ASSUME LocksAssumption   == Locktimes \subseteq Magnitude
ASSUME ClockAssumption   == Moments \in Seq(Moment) /\ Moments # <<>>

-----------------------------------------------------------------------------
(* Numbers as the node reads them *)

Less(a, b) ==
    \/ Len(a) < Len(b)
    \/ /\ Len(a) = Len(b)
       /\ \E i \in DOMAIN a : a[i] < b[i] /\ \A j \in i + 1 .. Len(a) : a[j] = b[j]

(* Lock times below it are heights, the others are times. *)
Threshold   == BytesOf[500000000]
IsHeight(l) == Less(l, Threshold)

(* The chain is beyond the height or the time l. *)
Passed(l) == Less(l, IF IsHeight(l) THEN BytesOf[Moments[now].height]
                                    ELSE Moments[now].time)

Stripped(bytes) ==
    SubSeq(bytes, 1, Max({0} \cup {i \in DOMAIN bytes : bytes[i] # 0}))

ScriptNumber(data) ==
    IF data = <<>> THEN Positive(<<>>)
    ELSE [negative |-> Last(data) >= 128,
          bytes    |-> Stripped(Append(Front(data), Last(data) % 128))]

(* No shorter encoding says the same. *)
Minimal(data) ==
    data # <<>> /\ Last(data) % 128 = 0 =>
        Len(data) > 1 /\ data[Len(data) - 1] >= 128

-----------------------------------------------------------------------------
Sig(key) == <<48>> \o key

NoEval == [of |-> "none", at |-> 1, stack |-> <<>>, key |-> <<>>, signer |-> <<>>,
           locktime |-> <<>>, final |-> TRUE, verdict |-> "none"]

Init ==
    /\ output = {}
    /\ outcome = "none"
    /\ born = 0
    /\ script = <<>>
    /\ pushed = <<>>
    /\ now = 1
    /\ eval = NoEval

-----------------------------------------------------------------------------
(* The builder *)

Building == output = {} /\ pushed = <<>> /\ eval = NoEval

Refused(exception) == outcome' = exception /\ UNCHANGED <<output, born>>

(* build_collateral_output: the key is looked at before the timelock. *)
Build(key, timelock, moment) ==
    /\ Building
    /\ \/ ~ValidPubkey(key) /\ Refused("InvalidPubkeyError")
       \/ ValidPubkey(key) /\ ~ValidTimelock(timelock) /\ Refused("ValidationError")
       \/ /\ ValidPubkey(key) /\ ValidTimelock(timelock)
          /\ output' = {CollateralOutput(key, timelock)}
          /\ outcome' = "returned"
          /\ born' = moment
    /\ UNCHANGED <<script, pushed, now, eval>>

Composing == output = {} /\ Len(pushed) < MaxPushes /\ eval = NoEval

ComposeNumber(n) ==
    /\ Composing
    /\ script' = script \o PushNumber(n)
    /\ pushed' = Append(pushed, [kind |-> "number", value |-> n])
    /\ outcome' = "returned"
    /\ UNCHANGED <<output, born, now, eval>>

(* Bytes that would do something if the node took them for opcodes. *)
Data(length) == [i \in 1..length |-> OpDrop]

ComposeData(length) ==
    /\ Composing
    /\ \/ /\ length <= MaxPush
          /\ script' = script \o PushBytes(Data(length))
          /\ pushed' = Append(pushed, [kind |-> "data", value |-> Data(length)])
          /\ outcome' = "returned"
       \/ length > MaxPush /\ outcome' = "ScriptError" /\ UNCHANGED <<script, pushed>>
    /\ UNCHANGED <<output, born, now, eval>>

-----------------------------------------------------------------------------
(* The node: a transaction arrives *)

Idle == eval.verdict \notin {"running", "accepted"}

(* Blocks come; while it looks at a transaction the node's clock stands.   *)
Tick ==
    /\ Idle
    /\ now < Len(Moments)
    /\ now' = now + 1
    /\ UNCHANGED <<buildVars, eval>>

(* A transaction that is not final stays outside. Its sequence number can  *)
(* make it final whatever its lock time, which is of four bytes at most.   *)
Spend(key, signer, locktime, final) ==
    /\ output # {}
    /\ Idle
    /\ Len(locktime) <= 4
    /\ final \/ locktime = <<>> \/ Passed(locktime)
    /\ eval' = [of |-> "output", at |-> 1, stack |-> <<Sig(signer), key>>,
                key |-> key, signer |-> signer, locktime |-> locktime,
                final |-> final, verdict |-> "running"]
    /\ UNCHANGED <<buildVars, now>>

(* What the owner's wallet sends, again if need be. *)
OwnerSpends == \E o \in output :
    Spend(o.owner_pubkey, o.owner_pubkey, o.timelock.bytes, FALSE)

RunPushes ==
    /\ pushed # <<>>
    /\ eval = NoEval
    /\ eval' = [NoEval EXCEPT !.of = "pushes", !.verdict = "running"]
    /\ UNCHANGED <<buildVars, now>>

-----------------------------------------------------------------------------
(* The node: its interpreter *)

Code == IF eval.of = "pushes" THEN script
        ELSE (CHOOSE o \in output : TRUE).cltv_script

Running == eval.verdict = "running" /\ eval.at \in DOMAIN Code
Op      == Code[eval.at]
Depth   == Len(eval.stack)
Top     == Last(eval.stack)
Second  == eval.stack[Depth - 1]
Below(n) == SubSeq(eval.stack, 1, Depth - n)

Continue(stack, size) ==
    /\ eval' = [eval EXCEPT !.stack = stack, !.at = @ + size]
    /\ UNCHANGED <<buildVars, now>>

(* A push: how many bytes say how long the data is, and how long they say. *)
Header == CASE Op <= 75 -> 1 [] Op = OpPushData1 -> 2 [] Op = OpPushData2 -> 3
Length ==
    CASE Op <= 75 -> Op
      [] Op = OpPushData1 -> Code[eval.at + 1]
      [] Op = OpPushData2 -> Code[eval.at + 1] + 256 * Code[eval.at + 2]
CanPush ==
    /\ Op <= OpPushData2
    /\ eval.at + Header - 1 <= Len(Code)
    /\ eval.at + Header + Length - 1 <= Len(Code)

Push ==
    /\ Running /\ CanPush
    /\ LET from == eval.at + Header
       IN  Continue(Append(eval.stack, SubSeq(Code, from, from + Length - 1)),
                    Header + Length)

CanPushSmall == Op \in Op1 .. Op1 + 15
PushSmall == Running /\ CanPushSmall /\ Continue(Append(eval.stack, <<Op - 80>>), 1)

(* The timelock on the stack against the lock time of the transaction. *)
CanCheckLockTime ==
    /\ Op = OpCltv /\ Depth >= 1
    /\ Len(Top) <= 5 /\ Minimal(Top)
    /\ LET lock == ScriptNumber(Top)
       IN  /\ ~lock.negative
           /\ IsHeight(lock.bytes) <=> IsHeight(eval.locktime)
           /\ ~Less(eval.locktime, lock.bytes)
    /\ ~eval.final
CheckLockTime == Running /\ CanCheckLockTime /\ Continue(eval.stack, 1)

CanDrop == Op = OpDrop /\ Depth >= 1
Drop == Running /\ CanDrop /\ Continue(Below(1), 1)

CanDup == Op = OpDup /\ Depth >= 1
Dup == Running /\ CanDup /\ Continue(Append(eval.stack, Top), 1)

CanHash == Op = OpHash160 /\ Depth >= 1
Hash == Running /\ CanHash /\ Continue(Append(Below(1), Hash160(Top)), 1)

CanVerifyEqual == Op = OpEqualVerify /\ Depth >= 2 /\ Top = Second
EqualVerify == Running /\ CanVerifyEqual /\ Continue(Below(2), 1)

CanCheckSig == Op = OpCheckSig /\ Depth >= 2
CheckSig ==
    /\ Running /\ CanCheckSig
    /\ Continue(Append(Below(2), IF Second = Sig(Top) THEN <<1>> ELSE <<>>), 1)

Verdict(verdict) == eval' = [eval EXCEPT !.verdict = verdict] /\ UNCHANGED <<buildVars, now>>

Fail ==
    /\ Running
    /\ ~ (CanPush \/ CanPushSmall \/ CanCheckLockTime \/ CanDrop \/ CanDup
          \/ CanHash \/ CanVerifyEqual \/ CanCheckSig)
    /\ Verdict("rejected")

(* At the end one true value must be left, and nothing else. *)
Finish ==
    /\ eval.verdict = "running" /\ eval.at > Len(Code)
    /\ Verdict(IF Depth = 1 /\ ScriptNumber(Top).bytes # <<>>
               THEN "accepted" ELSE "rejected")

Evaluate ==
    \/ Push \/ PushSmall \/ CheckLockTime \/ Drop \/ Dup \/ Hash
    \/ EqualVerify \/ CheckSig \/ Fail \/ Finish

-----------------------------------------------------------------------------
Next ==
    \/ \E key \in Pubkeys, t \in Timelocks : Build(key, t, 0)
    \/ \E key \in Pubkeys : Build(key, DefaultTimelock, now)
    \/ \E n \in Numbers : ComposeNumber(n)
    \/ \E length \in Lengths : ComposeData(length)
    \/ Tick
    \/ \E key, signer \in {k \in Pubkeys : ValidPubkey(k)},
          l \in Locktimes, final \in BOOLEAN : Spend(key, signer, l, final)
    \/ OwnerSpends
    \/ RunPushes
    \/ Evaluate

Spec == Init /\ [][Next]_vars

(* The node answers, and neither the chain nor the owner is kept from      *)
(* going on by the transactions of others.                                 *)
FairSpec == Spec /\ WF_vars(Evaluate) /\ SF_vars(Tick) /\ SF_vars(OwnerSpends)
=============================================================================
