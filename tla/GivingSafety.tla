---------------------------- MODULE GivingSafety ----------------------------
(***************************************************************************)
(* What the Perpetual Giving Engine promises: properties of GivingEngine.  *)
(***************************************************************************)
EXTENDS GivingReports

Logs      == {state[e].distributions : e \in Engines} \cup {file.state.distributions}
Registers == {state[e].causes : e \in Engines} \cup {file.state.causes}
Calling   == {"paying", "saving", "dumping"}

(* The record an engine's log holds of the node's t-th payment. *)
Logged(log, t) == \E i \in DOMAIN log : log[i].txid = t

(* Payments of the latest batch of e that e has no record of. *)
Unlogged(e) == {t \in DOMAIN sent : /\ sent[t].batch = job[e].batch
                                    /\ ~Logged(state[e].distributions, t)}

-----------------------------------------------------------------------------
(* Every variable has its type. In particular a percentage is never out of *)
(* range and no record is of a negative amount: pge.py:141-151, 532, 685.  *)
TypeOK ==
    /\ pc      \in [Engines -> {"down", "booting", "idle"} \cup Calling]
    /\ state   \in [Engines -> State]
    /\ job     \in [Engines -> Job]
    /\ mode    \in [Engines -> Modes]
    /\ outcome \in [Engines -> {"none", "returned", "raised"}]
    /\ file    \in File
    /\ kept    \subseteq Record
    /\ sent    \in Seq(Payment)
    /\ funds   \in Nat
    /\ batches \in Nat

(* No registry, in memory or on disk, names a cause twice, the deactivated *)
(* ones included: _get_cause and the payments find causes by their name.   *)
UniqueCauses == \A cs \in Registers : \A i, j \in DOMAIN cs :
                    cs[i].name = cs[j].name => i = j

(* The audit log never claims a gift nobody received: a record with a txid *)
(* stands for one payment the node has made, of the same batch, cause and  *)
(* amount, and no log has two records of one payment. So for every fault,  *)
(* and for processes that overwrite each other's file.                     *)
Backed(log) ==
    /\ \A i \in DOMAIN log : log[i].txid # NoTx =>
          /\ log[i].txid \in DOMAIN sent
          /\ sent[log[i].txid] = [batch |-> log[i].batch, cause |-> log[i].cause,
                                  amount |-> log[i].amount]
    /\ \A i, j \in DOMAIN log :
          log[i].txid # NoTx /\ log[i].txid = log[j].txid => i = j

RecordsArePaid == \A log \in Logs : Backed(log)

(* One call of distribute pays no cause twice, whatever the node answers.  *)
PaidOncePerBatch == \A t, u \in DOMAIN sent :
    sent[t].batch = sent[u].batch /\ sent[t].cause = sent[u].cause => t = u

(* While its process lives, an engine lacks at most one payment of its     *)
(* latest batch in its log, the last one, and none as long as the loop of  *)
(* distribute runs: the loop stops at the first answer it did not get.     *)
LogKeepsUp == \A e \in Engines :
    /\ pc[e] = "paying" => Unlogged(e) = {}
    /\ \A t \in Unlogged(e) : \A u \in DOMAIN sent :
          sent[u].batch = job[e].batch => u <= t

(* A call that returned to the caller has left the state of its engine in  *)
(* the file (one process; pge.py:711, 495, 514, 536).                      *)
ReturnedIsPersisted == \A e \in Engines :
    pc[e] = "idle" /\ outcome[e] = "returned" => file = Saved(state[e])

(* What some save has written is in every readable file after it, through  *)
(* crashes, disk errors and restarts (one process that loads its state).   *)
SavedIsNeverForgotten ==
    file.kind = "saved" => kept \subseteq ToSet(file.state.distributions)

(* total_distributed is the sum of the log it is stored with.              *)
TotalIsSumOfLog ==
    \A s \in {state[e] : e \in Engines} \cup {file.state} :
        s.total = SumAmounts(s.distributions)

(* The analytics agree with each other and with the node, in memory and on *)
(* disk: the sums by cause add up to the lifetime total although causes    *)
(* are removed and come back, so do the batches; no batch lists a cause    *)
(* twice, the simulated ones included; recent_distributions puts no later  *)
(* batch behind an earlier one; and in a log without simulated gifts no    *)
(* cause is said to have been given more than it has been paid (pge.py:    *)
(* 786-813).                                                               *)
PaidTo(n) == GiftsTo(sent, n)

BooksAgree == \A s \in {state[e] : e \in Engines} \cup {file.state} :
    LET log       == s.distributions
        byCause   == GivingByCause(s)
        byBatch   == DistributionBatches(s)
        batchSums == [b \in DOMAIN byBatch |-> SumFunctionOnSet(AmountsOf(log), byBatch[b])]
    IN  /\ SumFunction(byCause) = LifetimeGiving(s)
        /\ SumFunction(batchSums) = LifetimeGiving(s)
        /\ \A b \in DOMAIN byBatch : \A i, j \in byBatch[b] :
              log[i].cause = log[j].cause => i = j
        /\ \A limit \in 1 .. 3 : LET recent == RecentDistributions(s, limit) IN
              /\ Len(recent) <= limit
              /\ \A i, j \in DOMAIN recent : i < j => recent[i].batch >= recent[j].batch
        /\ (\A r \in ToSet(log) : r.txid # NoTx) =>
              \A n \in DOMAIN byCause : byCause[n] <= PaidTo(n)

(* Whose payments are whose: a batch belongs to one process, and while its *)
(* loop runs it has paid only causes that the loop has gone past.          *)
BatchesAreOwned ==
    /\ \A t \in DOMAIN sent : sent[t].batch \in 1 .. batches
    /\ \A e \in Engines : job[e].batch <= batches
    /\ \A e, f \in Engines :
          job[e].batch = job[f].batch /\ job[e].batch # 0 => e = f
    /\ \A e \in Engines : pc[e] = "paying" =>
          /\ job[e].batch # 0
          /\ \A t \in DOMAIN sent : sent[t].batch = job[e].batch =>
               \E i \in DOMAIN state[e].causes :
                  i < job[e].next /\ state[e].causes[i].name = sent[t].cause

(* The inductive invariant behind the promises about payments and records. *)
IndInv ==
    /\ TypeOK
    /\ UniqueCauses
    /\ RecordsArePaid
    /\ BatchesAreOwned
    /\ PaidOncePerBatch
    /\ LogKeepsUp

(* The inductive invariant behind the promises about the file, for one     *)
(* process: what it holds while a save is under way, and that a process    *)
(* which loads first has all that was ever written.                        *)
FileInv ==
    /\ TypeOK
    /\ file.kind = "absent" => kept = {}
    /\ LoadOnStart => SavedIsNeverForgotten
    /\ \A e \in Engines :
         /\ pc[e] = "down" => outcome[e] = "none"
         /\ pc[e] = "dumping" => file.kind = "empty"
         /\ pc[e] = "idle" /\ outcome[e] = "returned" => file = Saved(state[e])
         /\ LoadOnStart /\ pc[e] \notin {"down", "booting"} =>
               kept \subseteq ToSet(state[e].distributions)

(* The inductive invariant behind the analytics. A log lists batches that  *)
(* have been drawn, in their order, and no cause twice in one.             *)
Orderly(log) ==
    /\ \A i \in DOMAIN log : log[i].batch \in 1 .. batches
    /\ \A i, j \in DOMAIN log :
          /\ i < j => log[i].batch <= log[j].batch
          /\ log[i].batch = log[j].batch /\ log[i].cause = log[j].cause => i = j

(* While the loop of distribute runs, its batch is the latest in the log,  *)
(* with causes the loop has gone past.                                     *)
LoopLogs(e) == \A k \in DOMAIN state[e].distributions :
    LET r == state[e].distributions[k] IN
    /\ r.batch <= job[e].batch
    /\ r.batch = job[e].batch =>
          \E i \in DOMAIN state[e].causes :
             i < job[e].next /\ state[e].causes[i].name = r.cause

BookInv ==
    /\ IndInv
    /\ TotalIsSumOfLog
    /\ \A log \in Logs : Orderly(log)
    /\ \A e \in Engines : pc[e] = "paying" => LoopLogs(e)

-----------------------------------------------------------------------------
(* Shares of a batch *)

BatchDone(e) == pc[e] = "paying" /\ ~InLoop(e)

(* What the records of the latest batch of e give to cause n. *)
Given(e, n) ==
    LET log == state[e].distributions
    IN SumFunctionOnSet(AmountsOf(log),
         {i \in DOMAIN log : log[i].batch = job[e].batch /\ log[i].cause = n})

(* A batch that runs to its end gives away the whole amount but a fraction *)
(* of a cent; and no more than the amount, except for the 0.01 % by which  *)
(* the allocations may exceed 100 %: the last cause, which is to absorb    *)
(* the remainder, cannot absorb a negative one (pge.py:565, 674-685).      *)
BatchGivesAll == \A e \in Engines : BatchDone(e) =>
    /\ job[e].left < Cent
    /\ AllocationTotal(state[e].causes) <= Hundred => job[e].left >= 0
    /\ job[e].left * Hundred >= -(job[e].amount * Tolerance)

(* Every active cause gets its percentage of the amount, up to one cent    *)
(* for each active cause and the 0.01 % that the allocations may be off;   *)
(* the cause that absorbs the remainder is no exception.                   *)
SharesAreFair == \A e \in Engines : BatchDone(e) =>
    LET cs == state[e].causes
        slack == Cent * Cardinality(Active(cs)) * Hundred + job[e].amount * Tolerance
    IN \A i \in DOMAIN cs :
         Given(e, cs[i].name) * Hundred
           - (IF cs[i].active THEN job[e].amount * cs[i].pct ELSE 0)
             \in -slack .. slack

(* A projection of an amount promises no cause more than a batch of that   *)
(* amount gives it, the cause that absorbs the remainder included, unless  *)
(* the allocations exceed 100 % (pge.py:763-768 against 673-682).          *)
ProjectionIsKept == \A e \in Engines :
    BatchDone(e) /\ AllocationTotal(state[e].causes) <= Hundred =>
        LET cs == state[e].causes
        IN \A i \in Active(cs) :
             Breakdown(cs, job[e].amount)[i] <= Given(e, cs[i].name)

(* What a batch of the amount a is to give each active cause of cs: its    *)
(* percentage, and to the last one what the others leave of the amount.    *)
SharesOf(cs, a)  == [i \in DOMAIN cs |-> Percent(a, cs[i].pct)]
LastActive(cs)   == CHOOSE i \in Active(cs) : \A j \in Active(cs) : j <= i
Remainder(cs, a) ==
    a - SumFunctionOnSet(SharesOf(cs, a), Active(cs) \ {LastActive(cs)})
GiftsOf(cs, a)   == [i \in DOMAIN cs |->
    IF i # LastActive(cs) THEN Percent(a, cs[i].pct)
    ELSE IF ToCent(Remainder(cs, a)) > 0 THEN ToCent(Remainder(cs, a))
    ELSE 0]

(* The active causes that come before the k-th of the registry.            *)
Before(cs, k) == {i \in Active(cs) : i < k}

(* The invariant of the loop of distribute: the causes it has gone past    *)
(* have their gifts, the others nothing, and the rest is left.             *)
ShareInv == \A e \in Engines : pc[e] = "paying" =>
    LET cs == state[e].causes
        a  == job[e].amount
        k  == job[e].next
    IN  /\ a >= Cent /\ AllocationsValid(cs) /\ k \in 1 .. Len(cs) + 1
        /\ job[e].left = a - SumFunctionOnSet(GiftsOf(cs, a), Before(cs, k))
        /\ \A i \in DOMAIN cs : Given(e, cs[i].name) =
              IF i \in Before(cs, k) THEN GiftsOf(cs, a)[i] ELSE 0

(* The payments that a log accounts for. *)
TxIds(log) == {log[i].txid : i \in DOMAIN log} \ {NoTx}

Ledger == INSTANCE GivingLedger WITH
    paid   <- Len(sent),
    book   <- [e \in Engines |-> TxIds(state[e].distributions)],
    stored <- TxIds(file.state.distributions)

(* The engines and their file are an honest ledger of the payments: every  *)
(* step is one of the ledger's or leaves it alone.                         *)
KeepsLedger == Ledger!LedgerSpec

(* A call that has begun comes back, or its process dies.                  *)
CallsReturn == \A e \in Engines : pc[e] \in Calling ~> pc[e] \in {"idle", "down"}

(* Without faults and with the funds for it, every batch that is accepted  *)
(* ends up in the state file, in full unless it is over-allocated.         *)
BatchReachesDisk == \A e \in Engines, b \in 1 .. MaxBatches, a \in Amounts :
    (/\ pc[e] = "paying" /\ job[e].batch = b /\ job[e].amount = a
     /\ AllocationTotal(state[e].causes) <= Hundred)
      ~> (/\ file.kind = "saved"
          /\ LET log == file.state.distributions
             IN ToCent(a) = SumFunctionOnSet(AmountsOf(log),
                              {i \in DOMAIN log : log[i].batch = b}))

-----------------------------------------------------------------------------
(* What the documentation says and the code does not keep                  *)

(* pge.py:21-22: "State is persisted to a JSON file so the engine survives *)
(* restarts. All distributions are immutably logged with timestamps and    *)
(* txids." When no process runs, the file has a record of every payment.   *)
PaymentsSurviveRestart ==
    (\A e \in Engines : pc[e] = "down") =>
        \A t \in DOMAIN sent : Logged(file.state.distributions, t)

(* pge.py:21 again: a process that starts can read the state.              *)
StateSurvivesRestart ==
    (\A e \in Engines : pc[e] = "down") => file.kind \in {"absent", "saved"}
=============================================================================
