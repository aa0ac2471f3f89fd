---------------------------- MODULE GivingEngine ----------------------------
(***************************************************************************)
(* The Perpetual Giving Engine of digiforge/pge.py: processes that keep a  *)
(* registry of causes and a log of distributions in memory, write both to  *)
(* one JSON file, and pay the causes through a DigiByte node.              *)
(*                                                                         *)
(* A call of the engine is synchronous, so an engine is a program counter  *)
(* with one step for each effect the world outside can see or interrupt:   *)
(* one payment of the loop of distribute, the opening of the state file    *)
(* (which truncates it) and the writing of the JSON text.                  *)
(*                                                                         *)
(* Amounts are integers, Cent of them to 0.01 DUSD. Percentages are        *)
(* hundredths of a percent. A cause stands for its address too.            *)
(***************************************************************************)
EXTENDS Integers, Sequences, FiniteSets, FiniteSetsExt, SequencesExt

CONSTANTS
    Engines,      \* the processes that use the state file
    Names,        \* names a cause may be given
    Pcts,         \* percentages the callers pass, in or out of range
    Amounts,      \* amounts the callers ask to distribute
    Cent,         \* units of an amount in 0.01 DUSD
    Seeds,        \* registries the state file may hold at first, <<>>: no file
    Modes,        \* subset of {"dry", "live"}: values of config.dry_run
    LoadOnStart,  \* every process calls load_state before any other call
    Faults,       \* subset of {"crash", "disk", "refused", "reply"}
    Funds,        \* DUSD the node's wallet holds at first
    MaxBatches    \* bound: batches that all the processes start

VARIABLES
    pc,        \* pc[e]: where the process e is
    state,     \* state[e]: self.state of the engine in process e
    job,       \* job[e]: locals of the latest call of distribute
    mode,      \* mode[e]: config.dry_run of process e
    outcome,   \* outcome[e]: how the latest call ended
    file,      \* the JSON state file
    kept,      \* history: the records that some completed save has written
    sent,      \* the node: the DUSD payments it has made, in order
    funds,     \* the node: the DUSD left in its wallet
    batches    \* number of batch ids drawn (uuid4: always a fresh one)

engineVars == <<pc, state, job, mode, outcome>>
diskVars   == <<file, kept>>
nodeVars   == <<sent, funds>>
vars       == <<engineVars, diskVars, nodeVars, batches>>

Hundred   == 10000      \* 100 %
Tolerance == 1          \* 0.01 %, what validate_allocations lets pass
NoTx      == 0          \* the txid of a simulated payment

(* Mutant: no range check of a percentage. *)
AnyPct(p) == p \in Int

ValidPct(p) == p \in 0 .. Hundred

Cause == [name : Names, pct : 0 .. Hundred, active : BOOLEAN]

ASSUME EnginesAssumption == Engines # {}
ASSUME CentAssumption    == Cent \in Nat \ {0}
ASSUME AmountsAssumption == Amounts \subseteq Int /\ Pcts \subseteq Int
ASSUME SeedsAssumption   == \A cs \in Seeds :
    /\ cs \in Seq(Cause)
    /\ \A i, j \in DOMAIN cs : cs[i].name = cs[j].name => i = j
ASSUME ModesAssumption   == Modes \subseteq {"dry", "live"}
ASSUME SwitchAssumption  ==
    /\ LoadOnStart \in BOOLEAN
    /\ Faults \subseteq {"crash", "disk", "refused", "reply"}
ASSUME BoundAssumption   == Funds \in Nat /\ MaxBatches \in Nat

-----------------------------------------------------------------------------
(* Data *)

Payment == [batch : Nat, cause : Names, amount : Nat \ {0}]
Record  == [batch : Nat, cause : Names, amount : Nat \ {0}, txid : Nat]
State   == [causes : Seq(Cause), distributions : Seq(Record), total : Nat]
File    == [kind : {"absent", "empty", "garbled", "saved"}, state : State]
Job     == [batch : Nat, amount : Int, left : Int, next : Nat]

Holding(cs) == [causes |-> cs, distributions |-> <<>>, total |-> 0]

Fresh     == Holding(<<>>)
Saved(s)  == [kind |-> "saved", state |-> s]
Unread(k) == [kind |-> k, state |-> Fresh]
NoJob     == [batch |-> 0, amount |-> 0, left |-> 0, next |-> 0]

Active(cs) == {i \in DOMAIN cs : cs[i].active}

PctsOf(cs) == [i \in DOMAIN cs |-> cs[i].pct]

AllocationTotal(cs) == SumFunctionOnSet(PctsOf(cs), Active(cs))

(* At least one active cause, and a total within the tolerance of 100 %. *)
AllocationsValid(cs) ==
    /\ Active(cs) # {}
    /\ AllocationTotal(cs) - Hundred \in -Tolerance .. Tolerance

(* Rounding down to whole cents. *)
ToCent(x) == (x \div Cent) * Cent

Percent(amount, pct) == ToCent((amount * pct) \div Hundred)

-----------------------------------------------------------------------------
Init ==
    /\ pc      = [e \in Engines |-> "down"]
    /\ state   = [e \in Engines |-> Fresh]
    /\ job     = [e \in Engines |-> NoJob]
    /\ mode    \in [Engines -> Modes]
    /\ outcome = [e \in Engines |-> "none"]
    /\ file    \in {IF cs = <<>> THEN Unread("absent")
                   ELSE Saved(Holding(cs)) : cs \in Seeds}
    /\ kept    = {}
    /\ sent    = <<>>
    /\ funds   = Funds
    /\ batches = 0

Goto(e, label)   == pc' = [pc EXCEPT ![e] = label]
End(e, how)      == Goto(e, "idle") /\ outcome' = [outcome EXCEPT ![e] = how]
Raise(e)         == End(e, "raised") /\ UNCHANGED <<state, job, mode>>
Call(e, label)   == Goto(e, label) /\ outcome' = [outcome EXCEPT ![e] = "none"]
Down(e) ==
    /\ Goto(e, "down")
    /\ state'   = [state EXCEPT ![e] = Fresh]
    /\ job'     = [job EXCEPT ![e] = NoJob]
    /\ outcome' = [outcome EXCEPT ![e] = "none"]
    /\ UNCHANGED mode

-----------------------------------------------------------------------------
(* Life of a process *)

(* PerpetualGivingEngine(...): a fresh state, nothing is read. *)
Start(e, m) ==
    /\ pc[e] = "down"
    /\ Goto(e, IF LoadOnStart THEN "booting" ELSE "idle")
    /\ mode' = [mode EXCEPT ![e] = m]
    /\ UNCHANGED <<state, job, outcome, diskVars, nodeVars, batches>>

(* The script ends. *)
Exit(e) ==
    /\ pc[e] = "idle"
    /\ Down(e)
    /\ UNCHANGED <<diskVars, nodeVars, batches>>

Crash(e) ==
    /\ "crash" \in Faults
    /\ pc[e] \notin {"down", "idle"}
    /\ Down(e)
    /\ UNCHANGED <<diskVars, nodeVars, batches>>

(* load_state without a state file: False, the state stays as it is. *)
LoadAbsent(e) ==
    /\ pc[e] \in {"booting", "idle"}
    /\ file.kind = "absent"
    /\ End(e, "none")
    /\ UNCHANGED <<state, job, mode, diskVars, nodeVars, batches>>

(* Mutant: load_state appends to the lists it has. *)
LoadSavedMerged(e) ==
    /\ pc[e] \in {"booting", "idle"}
    /\ file.kind = "saved"
    /\ state' = [state EXCEPT ![e] =
         [file.state EXCEPT !.distributions = state[e].distributions \o @]]
    /\ job'   = [job EXCEPT ![e] = NoJob]
    /\ End(e, "returned")
    /\ UNCHANGED <<mode, diskVars, nodeVars, batches>>

LoadSaved(e) ==
    /\ pc[e] \in {"booting", "idle"}
    /\ file.kind = "saved"
    /\ state' = [state EXCEPT ![e] = file.state]
    /\ job'   = [job EXCEPT ![e] = NoJob]
    /\ End(e, "returned")
    /\ UNCHANGED <<mode, diskVars, nodeVars, batches>>

(* Mutant: a file that cannot be read is taken for no file. *)
LoadFailsFresh(e) ==
    /\ pc[e] \in {"booting", "idle"}
    /\ file.kind \in {"empty", "garbled"}
    /\ End(e, "none")
    /\ UNCHANGED <<state, job, mode, diskVars, nodeVars, batches>>

(* PGEError, which ends a script that has only begun. *)
LoadFails(e) ==
    /\ pc[e] \in {"booting", "idle"}
    /\ file.kind \in {"empty", "garbled"}
    /\ IF pc[e] = "booting" THEN Down(e) ELSE Raise(e)
    /\ UNCHANGED <<diskVars, nodeVars, batches>>

LoadState(e) == LoadAbsent(e) \/ LoadSaved(e) \/ LoadFails(e)

-----------------------------------------------------------------------------
(* save_state, the end of every call that changes the state *)

(* open(path, "w") truncates the file. *)
SaveOpen(e) ==
    /\ pc[e] = "saving"
    /\ file' = Unread("empty")
    /\ Goto(e, "dumping")
    /\ UNCHANGED <<state, job, mode, outcome, kept, nodeVars, batches>>

SaveOpenFails(e) ==
    /\ "disk" \in Faults
    /\ pc[e] = "saving"
    /\ Raise(e)
    /\ UNCHANGED <<diskVars, nodeVars, batches>>

(* Another process has written since the truncation, or is about to. *)
Overlapped(e) ==
    file.kind # "empty" \/ \E f \in Engines \ {e} : pc[f] = "dumping"

(* json.dump writes from offset 0: the remains of a longer text stay. *)
SaveDump(e) ==
    /\ pc[e] = "dumping"
    /\ \/ /\ file' = Saved(state[e])
          /\ kept' = kept \cup ToSet(state[e].distributions)
       \/ /\ Overlapped(e)
          /\ file' = Unread("garbled")
          /\ UNCHANGED kept
    /\ End(e, "returned")
    /\ UNCHANGED <<state, job, mode, nodeVars, batches>>

SaveDumpFails(e) ==
    /\ "disk" \in Faults
    /\ pc[e] = "dumping"
    /\ file' \in {Unread("empty"), Unread("garbled")}
    /\ Raise(e)
    /\ UNCHANGED <<kept, nodeVars, batches>>

SaveState(e) ==
    SaveOpen(e) \/ SaveOpenFails(e) \/ SaveDump(e) \/ SaveDumpFails(e)

-----------------------------------------------------------------------------
(* Cause management *)

(* Mutant: deactivated causes are not looked at. *)
ActiveIndexesOf(cs, n) == {i \in DOMAIN cs : cs[i].active /\ cs[i].name = n}

IndexesOf(cs, n) == {i \in DOMAIN cs : cs[i].name = n}

Reallocated(c, p) == [name |-> c.name, pct |-> p, active |-> c.active]
Deactivated(c)    == [name |-> c.name, pct |-> c.pct, active |-> FALSE]

(* A call that fails its checks: nothing has changed. *)
Refuse(e) ==
    /\ pc[e] = "idle"
    /\ Raise(e)
    /\ UNCHANGED <<diskVars, nodeVars, batches>>

(* The registry of e becomes cs, and is then saved. *)
Register(e, cs) ==
    /\ pc[e] = "idle"
    /\ state' = [state EXCEPT ![e].causes = cs]
    /\ Call(e, "saving")
    /\ UNCHANGED <<job, mode, diskVars, nodeVars, batches>>

(* A cause may be added as an inactive one. *)
AddCause(e, n, p) ==
    /\ ValidPct(p)
    /\ LET cs == state[e].causes IN
       \/ IndexesOf(cs, n) # {} /\ Refuse(e)
       \/ /\ IndexesOf(cs, n) = {}
          /\ \E active \in BOOLEAN :
               Register(e, Append(cs, [name |-> n, pct |-> p, active |-> active]))

UpdateAllocation(e, n, p) ==
    LET cs == state[e].causes IN
    \/ (IndexesOf(cs, n) = {} \/ ~ValidPct(p)) /\ Refuse(e)
    \/ /\ ValidPct(p)
       /\ \E i \in IndexesOf(cs, n) : Register(e, [cs EXCEPT ![i] = Reallocated(@, p)])

RemoveCause(e, n, hard) ==
    LET cs == state[e].causes IN
    \/ IndexesOf(cs, n) = {} /\ Refuse(e)
    \/ \E i \in IndexesOf(cs, n) :
         Register(e, IF hard THEN RemoveAt(cs, i)
                             ELSE [cs EXCEPT ![i] = Deactivated(@)])

-----------------------------------------------------------------------------
(* distribute: the checks, one payment at a time, one save at the end *)

DistributeRefused(e, a) ==
    /\ a < Cent \/ ~AllocationsValid(state[e].causes)
    /\ Refuse(e)

(* Mutant: the batch id counts the batches of this process only. *)
DistributeBeginsNumbered(e, a) ==
    /\ pc[e] = "idle"
    /\ a >= Cent
    /\ AllocationsValid(state[e].causes)
    /\ batches < MaxBatches
    /\ batches' = batches + 1
    /\ job' = [job EXCEPT ![e] =
         [batch |-> job[e].batch + 1, amount |-> a, left |-> a, next |-> 1]]
    /\ Call(e, "paying")
    /\ UNCHANGED <<state, mode, diskVars, nodeVars>>

DistributeBegins(e, a) ==
    /\ pc[e] = "idle"
    /\ a >= Cent
    /\ AllocationsValid(state[e].causes)
    /\ batches < MaxBatches
    /\ batches' = batches + 1
    /\ job' = [job EXCEPT ![e] =
                 [batch |-> batches + 1, amount |-> a, left |-> a, next |-> 1]]
    /\ Call(e, "paying")
    /\ UNCHANGED <<state, mode, diskVars, nodeVars>>

(* The cause the loop has reached, and what it is to be given: its share, *)
(* or all that is left when it is the last active one.                    *)
InLoop(e)      == pc[e] = "paying" /\ job[e].next \in DOMAIN state[e].causes
Reached(e)     == state[e].causes[job[e].next]
IsLast(e)      == \A i \in Active(state[e].causes) : i <= job[e].next

(* Mutants: the last cause gets its percentage; the shares are of what is  *)
(* left instead of the whole.                                              *)
CauseAmountPlain(e)  == Percent(job[e].amount, Reached(e).pct)
CauseAmountOfLeft(e) == IF IsLast(e) THEN ToCent(job[e].left)
                                     ELSE Percent(job[e].left, Reached(e).pct)

CauseAmount(e) == IF IsLast(e) THEN ToCent(job[e].left)
                               ELSE Percent(job[e].amount, Reached(e).pct)

Due(e) == InLoop(e) /\ Reached(e).active /\ CauseAmount(e) > 0

(* On to the next cause, with what is left. *)
Onward(j, given) == [batch |-> j.batch, amount |-> j.amount,
                     left  |-> j.left - given, next |-> j.next + 1]

(* Mutant: the loop does not get past a cause without a share. *)
SkipCauseStuck(e) ==
    /\ InLoop(e)
    /\ ~Reached(e).active \/ CauseAmount(e) <= 0
    /\ UNCHANGED vars

SkipCause(e) ==
    /\ InLoop(e)
    /\ ~Reached(e).active \/ CauseAmount(e) <= 0
    /\ job' = [job EXCEPT ![e] = Onward(@, 0)]
    /\ UNCHANGED <<pc, state, mode, outcome, diskVars, nodeVars, batches>>

(* The record of the payment of the cause reached. *)
NewRecord(e, txid) == [batch |-> job[e].batch, cause |-> Reached(e).name,
                       amount |-> CauseAmount(e), txid |-> txid]

(* Mutant: the total is added up from the shares, not from the payments. *)
LogRecordByShare(e, txid) ==
    LET r == NewRecord(e, txid) IN
    /\ state' = [state EXCEPT ![e] =
         [causes        |-> @.causes,
          distributions |-> Append(@.distributions, r),
          total         |-> @.total + Percent(job[e].amount, Reached(e).pct)]]
    /\ job' = [job EXCEPT ![e] = Onward(@, r.amount)]

(* The record, the running total, the remainder; on to the next cause. *)
LogRecord(e, txid) ==
    LET r == NewRecord(e, txid) IN
    /\ state' = [state EXCEPT ![e] =
         [causes        |-> @.causes,
          distributions |-> Append(@.distributions, r),
          total         |-> @.total + r.amount]]
    /\ job' = [job EXCEPT ![e] = Onward(@, r.amount)]

(* What the node does with senddigidollar. *)
Transfer(e) ==
    /\ CauseAmount(e) <= funds
    /\ funds' = funds - CauseAmount(e)
    /\ sent' = Append(sent, [batch |-> job[e].batch, cause |-> Reached(e).name,
                             amount |-> CauseAmount(e)])

PayDry(e) ==
    /\ Due(e)
    /\ mode[e] = "dry"
    /\ LogRecord(e, NoTx)
    /\ UNCHANGED <<pc, mode, outcome, diskVars, nodeVars, batches>>

PayLive(e) ==
    /\ Due(e)
    /\ mode[e] = "live"
    /\ Transfer(e)
    /\ LogRecord(e, Len(sent) + 1)
    /\ UNCHANGED <<pc, mode, outcome, diskVars, batches>>

(* Mutant: the record is appended before the payment is tried. *)
PayRefusedLogged(e) ==
    /\ Due(e)
    /\ mode[e] = "live"
    /\ CauseAmount(e) > funds \/ "refused" \in Faults
    /\ LogRecord(e, Len(sent) + 1)
    /\ End(e, "raised")
    /\ UNCHANGED <<mode, diskVars, nodeVars, batches>>

(* The node refuses or is not reached: CDPError leaves the loop, unsaved. *)
PayRefused(e) ==
    /\ Due(e)
    /\ mode[e] = "live"
    /\ CauseAmount(e) > funds \/ "refused" \in Faults
    /\ Raise(e)
    /\ UNCHANGED <<diskVars, nodeVars, batches>>

(* Mutant: a payment without an answer is sent again. *)
PayReplyRetried(e) ==
    /\ "reply" \in Faults
    /\ Due(e)
    /\ mode[e] = "live"
    /\ Transfer(e)
    /\ UNCHANGED <<engineVars, diskVars, batches>>


(* The node pays and its answer is lost: the same CDPError. *)
PayReplyLost(e) ==
    /\ "reply" \in Faults
    /\ Due(e)
    /\ mode[e] = "live"
    /\ Transfer(e)
    /\ Raise(e)
    /\ UNCHANGED <<diskVars, batches>>

(* Mutant: distribute returns without save_state. *)
FinishUnsaved(e) ==
    /\ pc[e] = "paying"
    /\ ~InLoop(e)
    /\ End(e, "returned")
    /\ UNCHANGED <<state, job, mode, diskVars, nodeVars, batches>>

FinishBatch(e) ==
    /\ pc[e] = "paying"
    /\ ~InLoop(e)
    /\ Goto(e, "saving")
    /\ UNCHANGED <<state, job, mode, outcome, diskVars, nodeVars, batches>>

Distribute(e) ==
    \/ SkipCause(e) \/ PayDry(e) \/ PayLive(e)
    \/ PayRefused(e) \/ PayReplyLost(e) \/ FinishBatch(e)

-----------------------------------------------------------------------------
Next == \E e \in Engines :
    \/ \E m \in Modes : Start(e, m)
    \/ Exit(e)
    \/ Crash(e)
    \/ LoadState(e)
    \/ SaveState(e)
    \/ \E n \in Names, p \in Pcts : AddCause(e, n, p) \/ UpdateAllocation(e, n, p)
    \/ \E n \in Names, hard \in BOOLEAN : RemoveCause(e, n, hard)
    \/ \E a \in Amounts : DistributeRefused(e, a) \/ DistributeBegins(e, a)
    \/ Distribute(e)

Spec == Init /\ [][Next]_vars

(* A process that has begun a call runs on: the engine has one thread, and *)
(* the HTTP request of a payment ends by its timeout at the latest.        *)
Fairness == \A e \in Engines : WF_vars(SaveState(e) \/ Distribute(e))

FairSpec == Spec /\ Fairness
=============================================================================
