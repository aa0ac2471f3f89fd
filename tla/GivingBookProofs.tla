-------------------------- MODULE GivingBookProofs --------------------------
(***************************************************************************)
(* Proofs about the books of the Perpetual Giving Engine and the shares of *)
(* a batch, for any processes, causes, amounts, faults and bounds: BookInv *)
(* and ShareInv are inductive.                                             *)
(***************************************************************************)
EXTENDS GivingProofs, SumProofs

-----------------------------------------------------------------------------
(* Sums over a log *)

LEMMA PlacesFinite == \A log : Len(log) \in Nat => IsFiniteSet(1 .. Len(log))
BY FS_Interval

(* What a log adds up to over some of its places, before and after one     *)
(* record is appended.                                                     *)
LEMMA AppendSums ==
  ASSUME NEW R, \A x \in R : x.amount \in Int, NEW log \in Seq(R), NEW r \in R,
         NEW P, P \subseteq DOMAIN log
  PROVE  LET new == Append(log, r) IN
         /\ SumFunctionOnSet(AmountsOf(log), P) \in Int
         /\ SumFunctionOnSet(AmountsOf(new), P) = SumFunctionOnSet(AmountsOf(log), P)
         /\ SumFunctionOnSet(AmountsOf(new), P \cup {Len(log) + 1})
              = r.amount + SumFunctionOnSet(AmountsOf(log), P)
<1> DEFINE new == Append(log, r)
           f   == AmountsOf(log)
           g   == AmountsOf(new)
           n   == Len(log) + 1
<1>1. IsFiniteSet(P) /\ n \notin P
  <2>1. IsFiniteSet(1 .. Len(log))
    BY PlacesFinite
  <2>2. DOMAIN log = 1 .. Len(log)
    OBVIOUS
  <2> QED BY <2>1, <2>2, FS_Subset
<1>2. \A i \in P : f[i] \in Int /\ g[i] = f[i]
  BY DEF AmountsOf
<1>3. g[n] = r.amount /\ r.amount \in Int
  BY DEF AmountsOf
<1> HIDE DEF f, g, n
<1>4. SumFunctionOnSet(f, P) \in Int
  BY <1>1, <1>2, SumIsInteger
<1>5. SumFunctionOnSet(g, P) = SumFunctionOnSet(f, P)
  BY <1>1, <1>2, SumAgrees
<1>6. SumFunctionOnSet(g, P \cup {n}) = g[n] + SumFunctionOnSet(g, P)
  <2>1. \A i \in P \cup {n} : g[i] \in Int
    BY <1>2, <1>3
  <2> QED BY <1>1, <2>1, SumPutsIn
<1> QED BY <1>3, <1>4, <1>5, <1>6 DEF f, g, n

LEMMA RecordAmount == \A r \in Record : r.amount \in Int /\ r.amount \in Nat
BY DEF Record

-----------------------------------------------------------------------------
(* How the books come to be what they are *)

USE DEF engineVars, diskVars, nodeVars

States == {state[e] : e \in Engines} \cup {file.state}

(* A step after which every log and total is a copy of one from before.    *)
BooksCopied == \A s \in States' : \E t \in States \cup {Fresh} :
    s.distributions = t.distributions /\ s.total = t.total

(* A step that logs one payment of the loop. *)
LogsPayment(e, t) ==
    pc[e] = "paying" /\ Due(e) /\ LogRecord(e, t) /\ file' = file /\ batches' = batches

LEMMA SameStatesCopy ==
  ASSUME state' = state, file'.state \in States \cup {Fresh}
  PROVE  BooksCopied
BY DEF BooksCopied, States

LEMMA DownCopies ==
  ASSUME TypeOK, NEW e \in Engines, Down(e), file' = file
  PROVE  BooksCopied
<1>1. \A f \in Engines : state'[f] \in {state[f], Fresh}
  BY DEF Down, TypeOK
<1> QED BY <1>1 DEF BooksCopied, States

LEMMA RegisterCopies ==
  ASSUME TypeOK, NEW e \in Engines, NEW cs, Register(e, cs)
  PROVE  BooksCopied
<1>1. \A f \in Engines : /\ state'[f].distributions = state[f].distributions
                         /\ state'[f].total = state[f].total
  BY DEF Register, TypeOK, State
<1>2. file' = file
  BY DEF Register
<1> QED BY <1>1, <1>2 DEF BooksCopied, States

LEMMA BooksStep ==
  ASSUME TypeOK, [Next]_vars
  PROVE  \/ BooksCopied /\ batches' \in {batches, batches + 1}
         \/ \E e \in Engines, t \in Nat : LogsPayment(e, t)
<1> Unread("empty").state = Fresh /\ Unread("garbled").state = Fresh
  BY DEF Unread
<1> file.state \in States /\ \A e \in Engines : state[e] \in States
  BY DEF States
<1>1. CASE UNCHANGED vars
  BY <1>1, SameStatesCopy DEF vars
<1>2. ASSUME NEW e \in Engines, NEW m \in Modes, Start(e, m)
      PROVE  BooksCopied /\ batches' = batches
  BY <1>2, SameStatesCopy DEF Start
<1>3. ASSUME NEW e \in Engines, Exit(e) \/ Crash(e)
      PROVE  BooksCopied /\ batches' = batches
  BY <1>3, DownCopies DEF Exit, Crash
<1>4. ASSUME NEW e \in Engines, LoadState(e)
      PROVE  BooksCopied /\ batches' = batches
  <2>1. CASE LoadAbsent(e)
    BY <2>1, SameStatesCopy DEF LoadAbsent
  <2>2. CASE LoadSaved(e)
    <3>1. \A f \in Engines : state'[f] \in {state[f], file.state}
      BY <2>2 DEF LoadSaved, TypeOK
    <3> QED BY <2>2, <3>1 DEF LoadSaved, BooksCopied, States
  <2>3. CASE LoadFails(e) /\ pc[e] = "booting"
    BY <2>3, DownCopies DEF LoadFails
  <2>4. CASE LoadFails(e) /\ pc[e] # "booting"
    BY <2>4, SameStatesCopy DEF LoadFails, Raise
  <2> QED BY <1>4, <2>1, <2>2, <2>3, <2>4 DEF LoadState
<1>5. ASSUME NEW e \in Engines, SaveState(e)
      PROVE  BooksCopied /\ batches' = batches
  <2>1. state' = state /\ batches' = batches
    BY <1>5 DEF SaveState, SaveOpen, SaveOpenFails, SaveDump, SaveDumpFails, Raise
  <2>2. file'.state \in {file.state, Fresh, state[e]}
    <3>1. Saved(state[e]).state = state[e]
      BY DEF Saved
    <3> QED BY <1>5, <3>1 DEF SaveState, SaveOpen, SaveOpenFails, SaveDump, SaveDumpFails
  <2> QED BY <2>1, <2>2, SameStatesCopy
<1>6. ASSUME NEW e \in Engines, Refuse(e)
      PROVE  BooksCopied /\ batches' = batches
  BY <1>6, SameStatesCopy DEF Refuse, Raise
<1>7. ASSUME NEW e \in Engines, NEW cs, Register(e, cs)
      PROVE  BooksCopied /\ batches' = batches
  BY <1>7, RegisterCopies DEF Register
<1>8. ASSUME NEW e \in Engines, NEW n \in Names, NEW p \in Pcts,
             AddCause(e, n, p) \/ UpdateAllocation(e, n, p)
      PROVE  BooksCopied /\ batches' = batches
  BY <1>6, <1>7, <1>8 DEF AddCause, UpdateAllocation
<1>9. ASSUME NEW e \in Engines, NEW n \in Names, NEW hard \in BOOLEAN, RemoveCause(e, n, hard)
      PROVE  BooksCopied /\ batches' = batches
  BY <1>6, <1>7, <1>9 DEF RemoveCause
<1>10. ASSUME NEW e \in Engines, NEW a \in Amounts,
              DistributeRefused(e, a) \/ DistributeBegins(e, a)
       PROVE  BooksCopied /\ batches' \in {batches, batches + 1}
  BY <1>6, <1>10, SameStatesCopy DEF DistributeRefused, DistributeBegins
<1>11. ASSUME NEW e \in Engines, Distribute(e)
       PROVE  \/ BooksCopied /\ batches' = batches
              \/ \E t \in Nat : LogsPayment(e, t)
  <2>1. CASE PayDry(e)
    <3>1. LogsPayment(e, NoTx)
      BY <2>1 DEF PayDry, LogsPayment, Due, InLoop
    <3> QED BY <3>1 DEF NoTx
  <2>2. CASE PayLive(e)
    <3>1. Len(sent) + 1 \in Nat /\ LogsPayment(e, Len(sent) + 1)
      BY <2>2 DEF PayLive, LogsPayment, Due, InLoop, TypeOK
    <3> QED BY <3>1
  <2>3. CASE SkipCause(e) \/ PayRefused(e) \/ PayReplyLost(e) \/ FinishBatch(e)
    BY <2>3, SameStatesCopy DEF SkipCause, PayRefused, PayReplyLost, FinishBatch, Raise
  <2> QED BY <1>11, <2>1, <2>2, <2>3 DEF Distribute
<1> QED BY <1>1, <1>2, <1>3, <1>4, <1>5, <1>8, <1>9, <1>10, <1>11 DEF Next

-----------------------------------------------------------------------------
(* How the loop of distribute goes on *)

(* The steps of one process. *)
StepOf(e) ==
    \/ \E m \in Modes : Start(e, m)
    \/ Exit(e)
    \/ Crash(e)
    \/ LoadState(e)
    \/ SaveState(e)
    \/ \E n \in Names, p \in Pcts : AddCause(e, n, p) \/ UpdateAllocation(e, n, p)
    \/ \E n \in Names, hard \in BOOLEAN : RemoveCause(e, n, hard)
    \/ \E a \in Amounts : DistributeRefused(e, a) \/ DistributeBegins(e, a)
    \/ Distribute(e)

Untouched(f) == state'[f] = state[f] /\ job'[f] = job[f] /\ pc'[f] = pc[f]

(* A process touches neither the state, the job nor the place of another. *)
LEMMA OthersUntouched ==
  ASSUME TypeOK, NEW e \in Engines, StepOf(e), NEW f \in Engines, f # e
  PROVE  Untouched(f)
<1>1. ASSUME Refuse(e) PROVE Untouched(f)
  BY <1>1 DEF Refuse, Raise, End, Goto, TypeOK, Untouched
<1>2. ASSUME NEW cs, Register(e, cs) PROVE Untouched(f)
  BY <1>2 DEF Register, Call, Goto, TypeOK, Untouched
<1>3. ASSUME Down(e) PROVE Untouched(f)
  BY <1>3 DEF Down, Goto, TypeOK, Untouched
<1>4. ASSUME NEW m \in Modes, Start(e, m) PROVE Untouched(f)
  BY <1>4 DEF Start, Goto, TypeOK, Untouched
<1>5. CASE LoadState(e)
  <2>1. CASE LoadAbsent(e)
    BY <2>1 DEF LoadAbsent, End, Goto, TypeOK, Untouched
  <2>2. CASE LoadSaved(e)
    BY <2>2 DEF LoadSaved, End, Goto, TypeOK, Untouched
  <2>3. CASE LoadFails(e) /\ pc[e] = "booting"
    BY <1>3, <2>3 DEF LoadFails
  <2>4. CASE LoadFails(e) /\ pc[e] # "booting"
    BY <2>4 DEF LoadFails, Raise, End, Goto, TypeOK, Untouched
  <2> QED BY <1>5, <2>1, <2>2, <2>3, <2>4 DEF LoadState
<1>6. CASE SaveState(e)
  BY <1>6 DEF SaveState, SaveOpen, SaveOpenFails, SaveDump, SaveDumpFails,
              Raise, End, Goto, TypeOK, Untouched
<1>7. ASSUME NEW a \in Amounts, DistributeRefused(e, a) \/ DistributeBegins(e, a)
      PROVE  Untouched(f)
  BY <1>1, <1>7 DEF DistributeRefused, DistributeBegins, Call, Goto, TypeOK, Untouched
<1>8. CASE Distribute(e)
  <2>1. CASE PayDry(e) \/ PayLive(e)
    BY <2>1 DEF PayDry, PayLive, LogRecord, TypeOK, Untouched
  <2>2. CASE SkipCause(e) \/ FinishBatch(e)
    BY <2>2 DEF SkipCause, FinishBatch, Goto, TypeOK, Untouched
  <2>3. CASE PayRefused(e) \/ PayReplyLost(e)
    BY <2>3 DEF PayRefused, PayReplyLost, Raise, End, Goto, TypeOK, Untouched
  <2> QED BY <1>8, <2>1, <2>2, <2>3 DEF Distribute
<1> QED BY <1>1, <1>2, <1>3, <1>4, <1>5, <1>6, <1>7, <1>8
        DEF StepOf, Exit, Crash, AddCause, UpdateAllocation, RemoveCause

(* The ways into the loop and from one turn of it to the next. *)
LoopGoesOn(e) ==
    \/ pc[e] = "paying" /\ Untouched(e)
    \/ \E a \in Amounts : DistributeBegins(e, a)
    \/ SkipCause(e)
    \/ \E t \in Nat : LogsPayment(e, t)

LEMMA LoopStep ==
  ASSUME TypeOK, [Next]_vars, NEW e \in Engines, pc'[e] = "paying"
  PROVE  LoopGoesOn(e)
<1>1. CASE UNCHANGED vars
  BY <1>1 DEF vars, LoopGoesOn, Untouched
<1>2. ASSUME NEW f \in Engines, f # e, StepOf(f) PROVE LoopGoesOn(e)
  BY <1>2, OthersUntouched DEF LoopGoesOn, Untouched
<1>3. ASSUME StepOf(e) PROVE LoopGoesOn(e)
  <2>1. ASSUME Refuse(e) PROVE FALSE
    BY <2>1 DEF Refuse, Raise, End, Goto, TypeOK
  <2>2. ASSUME NEW cs, Register(e, cs) PROVE FALSE
    BY <2>2 DEF Register, Call, Goto, TypeOK
  <2>3. ASSUME Down(e) PROVE FALSE
    BY <2>3 DEF Down, Goto, TypeOK
  <2>4. ASSUME NEW m \in Modes, Start(e, m) PROVE FALSE
    BY <2>4 DEF Start, Goto, TypeOK
  <2>5. ASSUME LoadState(e) PROVE FALSE
    BY <2>3, <2>5 DEF LoadState, LoadAbsent, LoadSaved, LoadFails, Raise, End, Goto, TypeOK
  <2>6. ASSUME SaveState(e) PROVE FALSE
    BY <2>6 DEF SaveState, SaveOpen, SaveOpenFails, SaveDump, SaveDumpFails,
                Raise, End, Goto, TypeOK
  <2>7. ASSUME Distribute(e) PROVE LoopGoesOn(e)
    <3>1. CASE PayDry(e)
      <4>1. LogsPayment(e, NoTx)
        BY <3>1 DEF PayDry, LogsPayment, Due, InLoop
      <4> QED BY <4>1 DEF NoTx, LoopGoesOn
    <3>2. CASE PayLive(e)
      <4>1. Len(sent) + 1 \in Nat /\ LogsPayment(e, Len(sent) + 1)
        BY <3>2 DEF PayLive, LogsPayment, Due, InLoop, TypeOK
      <4> QED BY <4>1 DEF LoopGoesOn
    <3>3. CASE PayRefused(e) \/ PayReplyLost(e) \/ FinishBatch(e)
      BY <3>3 DEF PayRefused, PayReplyLost, FinishBatch, Raise, End, Goto, TypeOK
    <3> QED BY <2>7, <3>1, <3>2, <3>3 DEF Distribute, LoopGoesOn
  <2>8. ASSUME NEW a \in Amounts, DistributeRefused(e, a) \/ DistributeBegins(e, a)
        PROVE  LoopGoesOn(e)
    BY <2>1, <2>8 DEF DistributeRefused, LoopGoesOn
  <2> QED BY <1>3, <2>1, <2>2, <2>3, <2>4, <2>5, <2>6, <2>7, <2>8
          DEF StepOf, Exit, Crash, AddCause, UpdateAllocation, RemoveCause
<1>4. Next => \E f \in Engines : StepOf(f)
  BY DEF Next, StepOf
<1> QED BY <1>1, <1>2, <1>3, <1>4

(* What one turn of the loop that logs a payment does. *)
LEMMA LogsPaymentEffect ==
  ASSUME TypeOK, NEW e \in Engines, NEW t \in Nat, LogsPayment(e, t)
  PROVE  /\ \A f \in Engines \ {e} : state'[f] = state[f] /\ job'[f] = job[f]
         /\ NewRecord(e, t) \in Record
         /\ state'[e].causes = state[e].causes
         /\ state'[e].distributions = Append(state[e].distributions, NewRecord(e, t))
         /\ state'[e].total = state[e].total + CauseAmount(e)
         /\ job'[e].batch = job[e].batch
         /\ job'[e].amount = job[e].amount
         /\ job'[e].left = job[e].left - CauseAmount(e)
         /\ job'[e].next = job[e].next + 1
<1> DEFINE r == NewRecord(e, t)
           s == [causes |-> state[e].causes,
                 distributions |-> Append(state[e].distributions, r),
                 total |-> state[e].total + r.amount]
           j == Onward(job[e], r.amount)
<1>1. state' = [state EXCEPT ![e] = s] /\ job' = [job EXCEPT ![e] = j]
  BY DEF LogsPayment, LogRecord
<1>2. r \in Record
  BY RecordType DEF LogsPayment
<1>3. r.amount = CauseAmount(e)
  BY DEF NewRecord
<1> HIDE DEF r
<1>4. /\ s.causes = state[e].causes
      /\ s.distributions = Append(state[e].distributions, r)
      /\ s.total = state[e].total + r.amount
      /\ j.batch = job[e].batch /\ j.amount = job[e].amount
      /\ j.left = job[e].left - r.amount /\ j.next = job[e].next + 1
  BY DEF Onward
<1> HIDE DEF s, j
<1>5. \A f \in Engines \ {e} : state'[f] = state[f] /\ job'[f] = job[f]
  BY <1>1 DEF TypeOK
<1>6. state'[e] = s /\ job'[e] = j
  BY <1>1 DEF TypeOK
<1> QED BY <1>2, <1>3, <1>4, <1>5, <1>6 DEF r

-----------------------------------------------------------------------------
(* The total and its log *)

LEMMA EmptyBooks ==
  /\ Fresh.distributions = <<>> /\ Fresh.total = 0
  /\ SumAmounts(<<>>) = 0
  /\ Orderly(<<>>)
<1>1. SumAmounts(<<>>) = 0
  <2>1. DOMAIN <<>> = {}
    OBVIOUS
  <2> QED BY <2>1, SumOfNothing DEF SumAmounts
<1> QED BY <1>1 DEF Fresh, Holding, Orderly

LEMMA TotalStep ==
  ASSUME TypeOK, TotalIsSumOfLog, [Next]_vars
  PROVE  TotalIsSumOfLog'
<1>1. CASE BooksCopied
  <2>1. \A s \in States \cup {Fresh} : s.total = SumAmounts(s.distributions)
    BY EmptyBooks DEF TotalIsSumOfLog, States
  <2>2. \A s \in States' : s.total = SumAmounts(s.distributions)
    BY <1>1, <2>1 DEF BooksCopied
  <2> QED BY <2>2 DEF TotalIsSumOfLog, States
<1>2. ASSUME NEW e \in Engines, NEW t \in Nat, LogsPayment(e, t)
      PROVE  TotalIsSumOfLog'
  <2> DEFINE log == state[e].distributions
             r   == NewRecord(e, t)
             new == Append(log, r)
  <2>1. /\ \A f \in Engines \ {e} : state'[f] = state[f]
        /\ r \in Record
        /\ state'[e].distributions = new
        /\ state'[e].total = state[e].total + r.amount
    BY <1>2, LogsPaymentEffect DEF NewRecord
  <2>2. log \in Seq(Record)
    BY DEF TypeOK, State
  <2>3. state[e].total = SumAmounts(log)
    BY DEF TotalIsSumOfLog
  <2>4. SumAmounts(new) = r.amount + SumAmounts(log) /\ SumAmounts(log) \in Int
    <3>1. DOMAIN log = 1 .. Len(log) /\ DOMAIN new = DOMAIN log \cup {Len(log) + 1}
      BY <2>1, <2>2
    <3> HIDE DEF log, r
    <3>2. /\ SumFunctionOnSet(AmountsOf(new), DOMAIN log \cup {Len(log) + 1})
               = r.amount + SumFunctionOnSet(AmountsOf(log), DOMAIN log)
          /\ SumFunctionOnSet(AmountsOf(log), DOMAIN log) \in Int
      BY <2>1, <2>2, RecordAmount, AppendSums
    <3> QED BY <3>1, <3>2 DEF SumAmounts
  <2>5. r.amount \in Int
    BY <2>1, RecordAmount
  <2> HIDE DEF log, r, new
  <2>6. state'[e].total = SumAmounts(state'[e].distributions)
    BY <2>1, <2>3, <2>4, <2>5
  <2>7. file' = file
    BY <1>2 DEF LogsPayment
  <2>8. \A s \in {state'[f] : f \in Engines} \cup {file.state} :
          s.total = SumAmounts(s.distributions)
    BY <2>1, <2>6 DEF TotalIsSumOfLog
  <2> QED BY <2>7, <2>8 DEF TotalIsSumOfLog
<1> QED BY <1>1, <1>2, BooksStep

(* At first every log is empty and every total nothing. *)
LEMMA BooksInit ==
  ASSUME Init
  PROVE  \A s \in States : s.distributions = <<>> /\ s.total = 0
<1>1. file.state.distributions = <<>> /\ file.state.total = 0
  BY DEF Init, Fresh, Holding, Saved, Unread
<1>2. \A e \in Engines : state[e].distributions = <<>> /\ state[e].total = 0
  BY DEF Init, Fresh, Holding
<1> QED BY <1>1, <1>2 DEF States

(* The total that an engine keeps beside its log is what the log adds up   *)
(* to, in memory and on disk: whatever is loaded, saved, interrupted or    *)
(* overwritten, for any number of processes (pge.py:697-700).              *)
THEOREM TotalIsAlwaysSumOfLog == Spec => []TotalIsSumOfLog
<1>1. Init => TotalIsSumOfLog
  BY BooksInit, EmptyBooks DEF TotalIsSumOfLog, States
<1>2. TypeOK /\ TotalIsSumOfLog /\ [Next]_vars => TotalIsSumOfLog'
  BY TotalStep
<1> QED BY <1>1, <1>2, TypeCorrect, PTL DEF Spec

-----------------------------------------------------------------------------
(* The order of a log *)

(* A record of the latest batch, for a cause that has none in it yet, goes *)
(* to the end of an orderly log.                                           *)
LEMMA AppendOrderly ==
  ASSUME NEW log \in Seq(Record), NEW r \in Record, Orderly(log),
         r.batch \in 1 .. batches,
         \A k \in DOMAIN log : /\ log[k].batch <= r.batch
                               /\ log[k].batch = r.batch => log[k].cause # r.cause
  PROVE  Orderly(Append(log, r))
<1> DEFINE new == Append(log, r)
           n   == Len(log) + 1
<1>1. /\ n \in Nat /\ DOMAIN log = 1 .. n - 1 /\ DOMAIN new = 1 .. n
      /\ \A k \in DOMAIN log : new[k] = log[k]
      /\ new[n] = r
  OBVIOUS
<1>2. \A k \in DOMAIN log : log[k] \in Record /\ log[k].batch \in Nat
  <2>1. \A k \in DOMAIN log : log[k] \in Record
    OBVIOUS
  <2> QED BY <2>1 DEF Record
<1> HIDE DEF new, n
<1>3. \A k \in DOMAIN new : k \in DOMAIN log \/ k = n
  BY <1>1
<1>4. \A k \in DOMAIN new : new[k].batch \in 1 .. batches
  BY <1>1, <1>3 DEF Orderly
<1>5. ASSUME NEW i \in DOMAIN new, NEW j \in DOMAIN new
      PROVE  /\ i < j => new[i].batch <= new[j].batch
             /\ new[i].batch = new[j].batch /\ new[i].cause = new[j].cause => i = j
  <2>1. CASE i \in DOMAIN log /\ j \in DOMAIN log
    BY <1>1, <2>1 DEF Orderly
  <2>2. CASE i = n /\ j = n
    BY <1>1, <2>2 
  <2>3. CASE i \in DOMAIN log /\ j = n
    BY <1>1, <2>3
  <2>4. CASE i = n /\ j \in DOMAIN log
    <3>1. ~(i < j)
      BY <1>1, <2>4
    <3> QED BY <1>1, <2>4, <3>1
  <2> QED BY <1>3, <2>1, <2>2, <2>3, <2>4
<1>6. Orderly(new)
  BY <1>4, <1>5 DEF Orderly
<1> QED BY <1>6 DEF new

(* What the invariants say of a payment that is due: its batch is one that *)
(* has been drawn, its cause one that the batch has no record of yet.      *)
LEMMA DueIsNew ==
  ASSUME IndInv, NEW e \in Engines, NEW t \in Nat, pc[e] = "paying", Due(e), LoopLogs(e)
  PROVE  LET r == NewRecord(e, t) IN
         /\ r.batch \in 1 .. batches
         /\ \A k \in DOMAIN state[e].distributions :
              LET q == state[e].distributions[k] IN
              /\ q.batch <= r.batch
              /\ q.batch = r.batch => q.cause # r.cause
<1> DEFINE r  == NewRecord(e, t)
           cs == state[e].causes
           n  == job[e].next
<1>1. r.batch = job[e].batch /\ r.cause = cs[n].name /\ n \in DOMAIN cs
  BY DEF NewRecord, Reached, Due, InLoop
<1>2. job[e].batch \in Nat /\ job[e].batch # 0 /\ job[e].batch <= batches /\ batches \in Nat
  BY DEF IndInv, TypeOK, Job, BatchesAreOwned
<1>3. /\ cs \in Seq(Cause)
      /\ \A i, j \in DOMAIN cs : cs[i].name = cs[j].name => i = j
  BY NamesOf
<1> HIDE DEF r, cs
<1>4. ASSUME NEW k \in DOMAIN state[e].distributions
      PROVE  LET q == state[e].distributions[k] IN
             /\ q.batch <= r.batch
             /\ q.batch = r.batch => q.cause # r.cause
  <2> DEFINE q == state[e].distributions[k]
  <2>1. /\ q.batch <= job[e].batch
        /\ q.batch = job[e].batch =>
             \E i \in DOMAIN cs : i < n /\ cs[i].name = q.cause
    BY DEF LoopLogs, cs
  <2> HIDE DEF q
  <2>2. ASSUME q.batch = r.batch, q.cause = r.cause
        PROVE  FALSE
    <3>1. PICK i \in DOMAIN cs : i < n /\ cs[i].name = q.cause
      BY <1>1, <2>1, <2>2
    <3>2. i = n
      BY <1>1, <1>3, <2>2, <3>1
    <3> QED BY <1>3, <3>1, <3>2
  <2> QED BY <1>1, <2>1, <2>2 DEF q
<1> QED BY <1>1, <1>2, <1>4 DEF r

(* The logs stay orderly. *)
LEMMA OrderlyStep ==
  ASSUME BookInv, IndInv', [Next]_vars
  PROVE  \A log \in Logs' : Orderly(log)'
<1> TypeOK /\ TypeOK' /\ batches \in Nat
  BY DEF BookInv, IndInv, TypeOK
<1>1. \A log \in Logs \cup {<<>>} : Orderly(log)
  BY EmptyBooks DEF BookInv
<1>2. ASSUME batches' \in {batches, batches + 1}
      PROVE  \A log : Orderly(log) => Orderly(log)'
  BY <1>2 DEF Orderly
<1>3. CASE BooksCopied /\ batches' \in {batches, batches + 1}
  <2>1. Logs' \subseteq Logs \cup {<<>>}
    BY <1>3, EmptyBooks DEF BooksCopied, States, Logs
  <2> QED BY <1>1, <1>2, <1>3, <2>1
<1>4. ASSUME NEW e \in Engines, NEW t \in Nat, LogsPayment(e, t)
      PROVE  \A log \in Logs' : Orderly(log)'
  <2> DEFINE log == state[e].distributions
             r   == NewRecord(e, t)
  <2>1. /\ \A f \in Engines \ {e} : state'[f] = state[f]
        /\ r \in Record
        /\ state'[e].distributions = Append(log, r)
    BY <1>4, LogsPaymentEffect
  <2>2. log \in Seq(Record) /\ Orderly(log)
    BY DEF TypeOK, State, Logs, BookInv
  <2>3. IndInv /\ pc[e] = "paying" /\ Due(e) /\ LoopLogs(e)
    BY <1>4 DEF BookInv, LogsPayment
  <2>4. /\ r.batch \in 1 .. batches
        /\ \A k \in DOMAIN log : /\ log[k].batch <= r.batch
                                 /\ log[k].batch = r.batch => log[k].cause # r.cause
    BY <2>3, DueIsNew
  <2> HIDE DEF log, r
  <2>5. Orderly(Append(log, r))
    BY <2>1, <2>2, <2>4, AppendOrderly
  <2>6. Logs' \subseteq Logs \cup {Append(log, r)}
    BY <1>4, <2>1 DEF LogsPayment, Logs
  <2>7. batches' = batches
    BY <1>4 DEF LogsPayment
  <2> QED BY <1>1, <1>2, <2>5, <2>6, <2>7
<1> QED BY <1>3, <1>4, BooksStep

(* The batch of the loop stays the latest of its log. *)
LEMMA LoopLogsStep ==
  ASSUME BookInv, [Next]_vars, NEW e \in Engines, pc'[e] = "paying"
  PROVE  LoopLogs(e)'
<1> TypeOK
  BY DEF BookInv, IndInv
<1>1. job[e].next \in Nat /\ job[e].batch \in Nat /\ batches \in Nat
  BY DEF TypeOK, Job
<1>2. CASE pc[e] = "paying" /\ Untouched(e)
  BY <1>2 DEF BookInv, LoopLogs, Untouched
<1>3. ASSUME NEW a \in Amounts, DistributeBegins(e, a)
      PROVE  LoopLogs(e)'
  <2>1. state'[e] = state[e] /\ job'[e].batch = batches + 1
    BY <1>3 DEF DistributeBegins, TypeOK
  <2>2. \A k \in DOMAIN state[e].distributions :
          state[e].distributions[k].batch \in 1 .. batches
    BY DEF BookInv, Orderly, Logs
  <2> QED BY <1>1, <2>1, <2>2 DEF LoopLogs
<1>4. CASE SkipCause(e)
  <2>1. /\ state'[e] = state[e] /\ pc[e] = "paying"
        /\ job'[e].batch = job[e].batch /\ job'[e].next = job[e].next + 1
    BY <1>4 DEF SkipCause, InLoop, Onward, TypeOK
  <2>2. LoopLogs(e)
    BY <2>1 DEF BookInv
  <2>3. ASSUME NEW k \in DOMAIN state[e].distributions
        PROVE  LET r == state[e].distributions[k] IN
               /\ r.batch <= job[e].batch
               /\ r.batch = job[e].batch =>
                    \E i \in DOMAIN state[e].causes :
                       i < job[e].next + 1 /\ state[e].causes[i].name = r.cause
    <3>1. state[e].causes \in Seq(Cause)
      BY DEF TypeOK, State
    <3> QED BY <1>1, <2>2, <3>1 DEF LoopLogs
  <2> QED BY <2>1, <2>3 DEF LoopLogs
<1>5. ASSUME NEW t \in Nat, LogsPayment(e, t)
      PROVE  LoopLogs(e)'
  <2> DEFINE log == state[e].distributions
             cs  == state[e].causes
             r   == NewRecord(e, t)
             new == Append(log, r)
             n   == job[e].next
  <2>1. /\ r \in Record
        /\ state'[e].causes = cs
        /\ state'[e].distributions = new
        /\ job'[e].batch = job[e].batch
        /\ job'[e].next = n + 1
    BY <1>5, LogsPaymentEffect
  <2>2. LoopLogs(e)
    BY <1>5 DEF BookInv, LogsPayment
  <2>3. r.batch = job[e].batch /\ r.cause = cs[n].name /\ n \in DOMAIN cs
    BY <1>5 DEF LogsPayment, NewRecord, Reached, Due, InLoop
  <2>4. log \in Seq(Record) /\ cs \in Seq(Cause)
    BY DEF TypeOK, State
  <2>5. /\ DOMAIN new = DOMAIN log \cup {Len(log) + 1}
        /\ \A k \in DOMAIN log : new[k] = log[k]
        /\ new[Len(log) + 1] = r
    <3> HIDE DEF log, r
    <3> QED BY <2>1, <2>4
  <2>6. \A k \in DOMAIN log :
          /\ log[k].batch <= job[e].batch
          /\ log[k].batch = job[e].batch =>
               \E i \in DOMAIN cs : i < n /\ cs[i].name = log[k].cause
    BY <2>2 DEF LoopLogs
  <2> HIDE DEF log, cs, r, new, n
  <2>7. n \in Nat
    BY <1>1 DEF n
  <2>8. \A k \in DOMAIN new :
          /\ new[k].batch <= job[e].batch
          /\ new[k].batch = job[e].batch =>
               \E i \in DOMAIN cs : i < n + 1 /\ cs[i].name = new[k].cause
    <3> TAKE k \in DOMAIN new
    <3>1. CASE k \in DOMAIN log
      BY <2>4, <2>5, <2>6, <2>7, <3>1
    <3>2. CASE k = Len(log) + 1
      BY <1>1, <2>3, <2>5, <2>7, <3>2
    <3> QED BY <2>5, <3>1, <3>2
  <2> QED BY <2>1, <2>8 DEF LoopLogs
<1> QED BY <1>2, <1>3, <1>4, <1>5, LoopStep DEF LoopGoesOn

LEMMA BookStep == BookInv /\ [Next]_vars => BookInv'
<1> SUFFICES ASSUME BookInv, [Next]_vars PROVE BookInv'
  OBVIOUS
<1>1. IndInv'
  BY IndStep DEF BookInv
<1>2. TotalIsSumOfLog'
  BY TotalStep DEF BookInv, IndInv
<1>3. \A log \in Logs' : Orderly(log)'
  BY <1>1, OrderlyStep
<1>4. \A e \in Engines : pc'[e] = "paying" => LoopLogs(e)'
  BY LoopLogsStep
<1> QED BY <1>1, <1>2, <1>3, <1>4 DEF BookInv

LEMMA BookInit == Init => BookInv
<1> SUFFICES ASSUME Init PROVE BookInv
  OBVIOUS
<1>1. TotalIsSumOfLog
  BY BooksInit, EmptyBooks DEF TotalIsSumOfLog, States
<1>2. \A log \in Logs : Orderly(log)
  BY BooksInit, EmptyBooks DEF Logs, States
<1>3. \A e \in Engines : pc[e] # "paying"
  BY DEF Init
<1> QED BY <1>1, <1>2, <1>3, IndInit DEF BookInv

(* The invariant of the books holds always. *)
THEOREM BooksInductive == Spec => []BookInv
BY BookInit, BookStep, PTL DEF Spec

-----------------------------------------------------------------------------
(* The analytics agree *)

(* The amounts of a log, added up group by group. *)
LogGrouped(log, sums, K, key, group) ==
  /\ log \in Seq(Record)
  /\ K = {key[i] : i \in DOMAIN log}
  /\ \A k \in K : /\ group[k] = {i \in DOMAIN log : key[i] = k}
                  /\ sums[k] = SumFunctionOnSet(AmountsOf(log), group[k])

LEMMA GroupsAddUp ==
  ASSUME NEW log, NEW sums, NEW K, NEW key, NEW group, LogGrouped(log, sums, K, key, group)
  PROVE  SumFunctionOnSet(sums, K) = SumAmounts(log)
<1>1. /\ log \in Seq(Record)
      /\ K = {key[i] : i \in DOMAIN log}
      /\ \A k \in K : /\ group[k] = {i \in DOMAIN log : key[i] = k}
                      /\ sums[k] = SumFunctionOnSet(AmountsOf(log), group[k])
  BY DEF LogGrouped
<1>2. PICK D, f : D = DOMAIN log /\ f = AmountsOf(log)
  OBVIOUS
<1>3. IsFiniteSet(D)
  <2>1. IsFiniteSet(1 .. Len(log)) /\ D = 1 .. Len(log)
    BY <1>1, <1>2, PlacesFinite
  <2> QED BY <2>1
<1>4. IsFiniteSet(K)
  <2> DEFINE g == [i \in D |-> key[i]]
  <2>1. g \in Surjection(D, K)
    BY <1>1, <1>2 DEF Surjection
  <2> QED BY <1>3, <2>1, FS_Surjection
<1>5. \A i \in D : f[i] \in Int /\ key[i] \in K
  <2>1. \A i \in D : log[i] \in Record
    BY <1>1, <1>2
  <2> QED BY <1>1, <1>2, <2>1, RecordAmount DEF AmountsOf
<1>6. Grouped(f, D, sums, K, key, group)
  BY <1>1, <1>2, <1>3, <1>4, <1>5 DEF Grouped
<1>7. SumFunctionOnSet(sums, K) = SumFunctionOnSet(f, D)
  BY <1>6, SumByGroup
<1> QED BY <1>2, <1>7 DEF SumAmounts

LEMMA CausesAddUp ==
  ASSUME NEW s, s.distributions \in Seq(Record)
  PROVE  SumFunction(GivingByCause(s)) = SumAmounts(s.distributions)
<1> DEFINE log   == s.distributions
           key   == [i \in DOMAIN log |-> log[i].cause]
           K     == {r.cause : r \in ToSet(log)}
           group == [k \in K |-> {i \in DOMAIN log : key[i] = k}]
           sums  == GivingByCause(s)
<1>1. K = {key[i] : i \in DOMAIN log}
  BY DEF ToSet
<1>2. DOMAIN sums = K
  BY DEF GivingByCause
<1>3. ASSUME NEW k \in K
      PROVE  /\ group[k] = {i \in DOMAIN log : key[i] = k}
             /\ sums[k] = SumFunctionOnSet(AmountsOf(log), group[k])
  <2>1. group[k] = {i \in DOMAIN log : log[i].cause = k}
    OBVIOUS
  <2>2. sums[k] = SumFunctionOnSet(AmountsOf(log), {i \in DOMAIN log : log[i].cause = k})
    BY DEF GivingByCause, GiftsTo
  <2> QED BY <2>1, <2>2
<1> HIDE DEF log, key, K, group, sums
<1>4. log \in Seq(Record)
  BY DEF log
<1>5. LogGrouped(log, sums, K, key, group)
  BY <1>1, <1>3, <1>4 DEF LogGrouped
<1>6. SumFunctionOnSet(sums, K) = SumAmounts(log)
  BY <1>5, GroupsAddUp
<1> QED BY <1>2, <1>6 DEF log, sums, SumFunction

LEMMA BatchesAddUp ==
  ASSUME NEW s, s.distributions \in Seq(Record)
  PROVE  LET byBatch == DistributionBatches(s) IN
         SumFunction([b \in DOMAIN byBatch |-> SumFunctionOnSet(AmountsOf(s.distributions), byBatch[b])])
           = SumAmounts(s.distributions)
<1> DEFINE log   == s.distributions
           key   == [i \in DOMAIN log |-> log[i].batch]
           K     == {r.batch : r \in ToSet(log)}
           group == DistributionBatches(s)
           sums  == [b \in DOMAIN group |-> SumFunctionOnSet(AmountsOf(log), group[b])]
<1>1. K = {key[i] : i \in DOMAIN log}
  BY DEF ToSet
<1>2. DOMAIN group = K /\ DOMAIN sums = K
  BY DEF DistributionBatches
<1>3. ASSUME NEW k \in K
      PROVE  /\ group[k] = {i \in DOMAIN log : key[i] = k}
             /\ sums[k] = SumFunctionOnSet(AmountsOf(log), group[k])
  <2>1. group[k] = {i \in DOMAIN log : key[i] = k}
    BY DEF DistributionBatches
  <2> QED BY <1>2, <2>1
<1> HIDE DEF log, key, K, group, sums
<1>4. log \in Seq(Record)
  BY DEF log
<1>5. LogGrouped(log, sums, K, key, group)
  BY <1>1, <1>3, <1>4 DEF LogGrouped
<1>6. SumFunctionOnSet(sums, K) = SumAmounts(log)
  BY <1>5, GroupsAddUp
<1> QED BY <1>2, <1>6 DEF log, group, sums, SumFunction

(* The latest records, the latest of them first. *)
LEMMA RecentOrder ==
  ASSUME NEW s, s.distributions \in Seq(Record), Orderly(s.distributions), NEW limit \in Nat \ {0}
  PROVE  LET recent == RecentDistributions(s, limit) IN
         /\ Len(recent) <= limit
         /\ \A i, j \in DOMAIN recent : i < j => recent[i].batch >= recent[j].batch
<1> DEFINE log    == s.distributions
           first  == Len(log) - limit
           start  == Max({first, 0})
           part   == SubSeq(log, start + 1, Len(log))
           recent == RecentDistributions(s, limit)
<1>1. log \in Seq(Record) /\ Len(log) \in Nat /\ first \in Int
  OBVIOUS
<1>2. recent = Reverse(part)
  <2>1. first = IF limit > 0 THEN Len(log) - limit ELSE -limit
    OBVIOUS
  <2> HIDE DEF first
  <2> QED BY <2>1 DEF RecentDistributions
<1>3. start \in {first, 0} /\ start >= first /\ start >= 0
  <2>1. \E x \in {first, 0} : \A y \in {first, 0} : x >= y
    BY <1>1
  <2> QED BY <2>1 DEF Max
<1> HIDE DEF first, start
<1>4. start \in Nat /\ start <= Len(log) /\ Len(log) - start <= limit
  BY <1>1, <1>3 DEF first
<1>5. /\ Len(part) = Len(log) - start
      /\ \A i \in 1 .. Len(log) - start : part[i] = log[start + i]
  <2> HIDE DEF log
  <2> QED BY <1>1, <1>4
<1> HIDE DEF log, part, recent
<1>6. /\ Len(recent) = Len(log) - start /\ DOMAIN recent = 1 .. Len(log) - start
      /\ \A i \in DOMAIN recent : /\ recent[i] = log[Len(log) - i + 1]
                                  /\ Len(log) - i + 1 \in DOMAIN log
  <2> DEFINE n == Len(log) - start
  <2>1. n \in Nat /\ Len(part) = n
    BY <1>1, <1>4, <1>5
  <2>2. recent = [i \in 1 .. n |-> part[(n - i) + 1]]
    BY <1>2, <2>1 DEF Reverse
  <2>3. Len(recent) = n /\ DOMAIN recent = 1 .. n
    BY <2>1, <2>2
  <2>4. ASSUME NEW i \in 1 .. n
        PROVE  recent[i] = log[Len(log) - i + 1] /\ Len(log) - i + 1 \in DOMAIN log
    <3>1. (n - i) + 1 \in 1 .. n /\ start + ((n - i) + 1) = Len(log) - i + 1
      BY <1>1, <1>4, <2>1
    <3>2. recent[i] = part[(n - i) + 1]
      BY <2>2
    <3>3. part[(n - i) + 1] = log[start + ((n - i) + 1)]
      BY <1>5, <3>1
    <3>4. Len(log) - i + 1 \in 1 .. Len(log)
      BY <1>1, <1>4, <2>1
    <3> QED BY <1>1, <3>1, <3>2, <3>3, <3>4
  <2> QED BY <2>3, <2>4
<1>7. ASSUME NEW i \in DOMAIN recent, NEW j \in DOMAIN recent, i < j
      PROVE  recent[i].batch >= recent[j].batch
  <2> DEFINE a == Len(log) - i + 1
             b == Len(log) - j + 1
  <2>1. a \in DOMAIN log /\ b \in DOMAIN log /\ b < a
    BY <1>1, <1>6, <1>7
  <2>2. log[b].batch <= log[a].batch /\ log[a].batch \in Int /\ log[b].batch \in Int
    BY <2>1 DEF Orderly, log
  <2> QED BY <1>6, <2>2
<1> QED BY <1>4, <1>6, <1>7 DEF recent

(* A backed log without simulated gifts adds up, for each cause, to no     *)
(* more than what the node has paid it.                                    *)
LEMMA NoMoreThanPaid ==
  ASSUME TypeOK, NEW log \in Seq(Record), Backed(log),
         \A r \in ToSet(log) : r.txid # NoTx, NEW n
  PROVE  GiftsTo(log, n) <= PaidTo(n)
<1>1. PICK S, T, f, g, key :
        /\ S = {i \in DOMAIN log : log[i].cause = n}
        /\ T = {i \in DOMAIN sent : sent[i].cause = n}
        /\ f = AmountsOf(log) /\ g = AmountsOf(sent)
        /\ key = [i \in DOMAIN log |-> log[i].txid]
  OBVIOUS
<1>2. sent \in Seq(Payment)
  BY DEF TypeOK
<1>3. IsFiniteSet(S) /\ IsFiniteSet(T)
  <2>1. IsFiniteSet(1 .. Len(log)) /\ IsFiniteSet(1 .. Len(sent))
    BY <1>2, PlacesFinite
  <2>2. S \subseteq 1 .. Len(log) /\ T \subseteq 1 .. Len(sent)
    BY <1>1, <1>2
  <2> QED BY <2>1, <2>2, FS_Subset
<1>4. \A i \in S : key[i] \in T /\ f[i] = g[key[i]]
  <2> TAKE i \in S
  <2>1. i \in DOMAIN log /\ log[i].cause = n /\ key[i] = log[i].txid /\ log[i].txid # NoTx
    BY <1>1 DEF ToSet
  <2>2. /\ log[i].txid \in DOMAIN sent
        /\ sent[log[i].txid] = [batch |-> log[i].batch, cause |-> log[i].cause,
                                amount |-> log[i].amount]
    BY <2>1 DEF Backed
  <2> QED BY <1>1, <2>1, <2>2 DEF AmountsOf
<1>5. \A i, j \in S : key[i] = key[j] => i = j
  BY <1>1 DEF Backed, ToSet
<1>6. \A t \in T : g[t] \in Nat
  <2> TAKE t \in T
  <2>1. t \in DOMAIN sent /\ g[t] = sent[t].amount
    BY <1>1 DEF AmountsOf
  <2>2. sent[t] \in Payment
    BY <1>2, <2>1
  <2> QED BY <2>1, <2>2 DEF Payment
<1>7. SumFunctionOnSet(f, S) <= SumFunctionOnSet(g, T)
  BY <1>3, <1>4, <1>5, <1>6, SumInjects
<1> QED BY <1>1, <1>7 DEF GiftsTo, PaidTo

(* What the invariant says of a state is what the analytics need. *)
LEMMA BooksOfState ==
  ASSUME BookInv, NEW s \in States
  PROVE  /\ s.distributions \in Seq(Record)
         /\ Orderly(s.distributions) /\ Backed(s.distributions)
         /\ s.total = SumAmounts(s.distributions)
<1>1. TypeOK /\ RecordsArePaid
  BY DEF BookInv, IndInv
<1>2. s \in State
  BY <1>1 DEF States, TypeOK, File
<1>3. s.distributions \in Logs
  BY DEF States, Logs
<1> QED BY <1>1, <1>2, <1>3 DEF BookInv, RecordsArePaid, TotalIsSumOfLog, States, State

(* The analytics of every state, in memory and on disk, agree with each    *)
(* other and with the node: for any number of processes that share the     *)
(* file, whatever is removed, interrupted, lost or simulated (pge.py:      *)
(* 786-813).                                                               *)
THEOREM BooksAlwaysAgree == Spec => []BooksAgree
<1>1. BookInv => BooksAgree
  <2> SUFFICES ASSUME BookInv, NEW s \in States
               PROVE  LET log       == s.distributions
                          byCause   == GivingByCause(s)
                          byBatch   == DistributionBatches(s)
                          batchSums == [b \in DOMAIN byBatch |->
                                          SumFunctionOnSet(AmountsOf(log), byBatch[b])]
                      IN  /\ SumFunction(byCause) = LifetimeGiving(s)
                          /\ SumFunction(batchSums) = LifetimeGiving(s)
                          /\ \A b \in DOMAIN byBatch : \A i, j \in byBatch[b] :
                                log[i].cause = log[j].cause => i = j
                          /\ \A limit \in 1 .. 3 : LET recent == RecentDistributions(s, limit) IN
                                /\ Len(recent) <= limit
                                /\ \A i, j \in DOMAIN recent :
                                      i < j => recent[i].batch >= recent[j].batch
                          /\ (\A r \in ToSet(log) : r.txid # NoTx) =>
                                \A n \in DOMAIN byCause : byCause[n] <= PaidTo(n)
    BY DEF BooksAgree, States
  <2> DEFINE log     == s.distributions
             byCause == GivingByCause(s)
             byBatch == DistributionBatches(s)
  <2>1. /\ log \in Seq(Record) /\ Orderly(log) /\ Backed(log)
        /\ s.total = SumAmounts(log)
    BY BooksOfState
  <2>2. SumFunction(byCause) = LifetimeGiving(s)
    BY <2>1, CausesAddUp DEF LifetimeGiving
  <2>3. SumFunction([b \in DOMAIN byBatch |-> SumFunctionOnSet(AmountsOf(log), byBatch[b])])
          = LifetimeGiving(s)
    BY <2>1, BatchesAddUp DEF LifetimeGiving
  <2>4. ASSUME NEW b \in DOMAIN byBatch, NEW i \in byBatch[b], NEW j \in byBatch[b],
               log[i].cause = log[j].cause
        PROVE  i = j
    <3>1. i \in DOMAIN log /\ j \in DOMAIN log /\ log[i].batch = b /\ log[j].batch = b
      BY DEF DistributionBatches
    <3> QED BY <2>1, <2>4, <3>1 DEF Orderly
  <2>5. ASSUME NEW limit \in 1 .. 3
        PROVE  LET recent == RecentDistributions(s, limit) IN
               /\ Len(recent) <= limit
               /\ \A i, j \in DOMAIN recent : i < j => recent[i].batch >= recent[j].batch
    <3>1. limit \in Nat \ {0}
      OBVIOUS
    <3> QED BY <2>1, <3>1, RecentOrder
  <2>6. ASSUME \A r \in ToSet(log) : r.txid # NoTx, NEW n \in DOMAIN byCause
        PROVE  byCause[n] <= PaidTo(n)
    <3>1. byCause[n] = GiftsTo(log, n)
      BY DEF GivingByCause
    <3>2. TypeOK
      BY DEF BookInv, IndInv
    <3> QED BY <2>1, <2>6, <3>1, <3>2, NoMoreThanPaid
  <2> QED BY <2>2, <2>3, <2>4, <2>5, <2>6
<1> QED BY <1>1, BooksInductive, PTL

-----------------------------------------------------------------------------
(* Rounding *)

LEMMA Multiplies == \A c, x, y \in Int : c >= 0 /\ x <= y => c * x <= c * y
<1> TAKE c, x, y \in Int
<1>1. ASSUME c >= 0, x <= y PROVE c * x <= c * y
  <2>1. PICK d \in Nat : y = x + d
    <3>1. y - x \in Nat /\ y = x + (y - x)
      BY <1>1
    <3> QED BY <3>1
  <2>2. c * y = c * x + c * d
    BY <2>1, Distributes
  <2>3. c * d >= 0 /\ c * d \in Int /\ c * x \in Int
    BY <1>1
  <2> QED BY <2>2, <2>3
<1> QED BY <1>1

LEMMA Divides ==
  ASSUME NEW c \in Nat \ {0}, NEW x \in Int
  PROVE  x \div c \in Int /\ (x \div c) * c <= x /\ x < (x \div c) * c + c
OBVIOUS

(* Rounding down to cents takes less than one, and keeps the order.        *)
LEMMA ToCentRounds ==
  \A x \in Int : ToCent(x) \in Int /\ ToCent(x) <= x /\ x < ToCent(x) + Cent
BY CentAssumption, Divides DEF ToCent

LEMMA ToCentOrder == \A x, y \in Int : x <= y => ToCent(x) <= ToCent(y)
<1> TAKE x, y \in Int
<1>1. ASSUME x <= y, ToCent(x) > ToCent(y) PROVE FALSE
  <2> DEFINE q == x \div Cent
             r == y \div Cent
  <2>1. Cent \in Nat \ {0}
    BY CentAssumption
  <2>2. q \in Int /\ r \in Int /\ q * Cent <= x /\ y < r * Cent + Cent
    BY <2>1, Divides
  <2>3. q * Cent = Cent * q /\ r * Cent = Cent * r /\ Cent * 1 = Cent
        /\ ToCent(x) = q * Cent /\ ToCent(y) = r * Cent
    BY <2>1, <2>2 DEF ToCent
  <2> HIDE DEF q, r
  <2>4. CASE q <= r
    <3>1. Cent * q <= Cent * r
      BY <2>1, <2>2, <2>4, Multiplies
    <3>2. Cent * r \in Int /\ Cent * q \in Int
      BY <2>1, <2>2
    <3> QED BY <1>1, <2>3, <3>1, <3>2
  <2>5. CASE r + 1 <= q
    <3>1. Cent * (r + 1) <= Cent * q
      BY <2>1, <2>2, <2>5, Multiplies
    <3>2. Cent * (r + 1) = Cent * r + Cent
      BY <2>1, <2>2, <2>3, Distributes
    <3>3. Cent * r \in Int /\ Cent * q \in Int
      BY <2>1, <2>2
    <3> QED BY <1>1, <2>1, <2>2, <2>3, <3>1, <3>2, <3>3
  <2> QED BY <2>2, <2>4, <2>5
<1>2. ToCent(x) \in Int /\ ToCent(y) \in Int
  BY ToCentInt
<1> QED BY <1>1, <1>2

(* A share is its percentage, less at most a cent.                         *)
LEMMA PercentRounds ==
  ASSUME NEW a \in Nat, NEW p \in Nat
  PROVE  /\ Percent(a, p) \in Nat
         /\ Hundred * Percent(a, p) <= a * p
         /\ a * p <= Hundred * Percent(a, p) + Cent * Hundred
<1> DEFINE y == a * p
           x == y \div Hundred
<1>1. y \in Nat
  OBVIOUS
<1>2. Percent(a, p) = ToCent(x)
  BY DEF Percent
<1> HIDE DEF y
<1>3. x \in Nat /\ Hundred * x <= y /\ y < Hundred * x + Hundred
  BY <1>1 DEF Hundred
<1> HIDE DEF x
<1>4. ToCent(x) \in Int /\ ToCent(x) <= x /\ x < ToCent(x) + Cent /\ Cent \in Nat \ {0}
  BY <1>3, ToCentRounds, CentAssumption
<1>5. ToCent(x) >= 0
  <2>1. ToCent(0) <= ToCent(x)
    BY <1>3, ToCentOrder
  <2>2. ToCent(0) = 0
    BY CentAssumption DEF ToCent
  <2> QED BY <1>4, <2>1, <2>2
<1>6. ToCent(x) \in Nat /\ Hundred * ToCent(x) <= y /\ y <= Hundred * ToCent(x) + Cent * Hundred
  BY <1>1, <1>3, <1>4, <1>5 DEF Hundred
<1> QED BY <1>2, <1>6 DEF y

-----------------------------------------------------------------------------
(* The last active cause *)

LEMMA ActiveFinite ==
  ASSUME NEW cs \in Seq(Cause)
  PROVE  IsFiniteSet(Active(cs)) /\ Active(cs) \subseteq 1 .. Len(cs)
<1>1. IsFiniteSet(1 .. Len(cs))
  BY PlacesFinite
<1>2. Active(cs) \subseteq 1 .. Len(cs)
  BY DEF Active
<1> QED BY <1>1, <1>2, FS_Subset

LEMMA LastIsActive ==
  ASSUME NEW cs \in Seq(Cause), Active(cs) # {}
  PROVE  LastActive(cs) \in Active(cs) /\ \A j \in Active(cs) : j <= LastActive(cs)
<1>1. \E m \in Active(cs) : \A j \in Active(cs) : j <= m
  BY ActiveFinite, HasLast
<1> QED BY <1>1 DEF LastActive

-----------------------------------------------------------------------------
(* Gifts and shares *)

(* What a registry and an amount are when a batch begins. *)
Splits(cs, a) == cs \in Seq(Cause) /\ AllocationsValid(cs) /\ a \in Nat

LEMMA SharesType ==
  ASSUME NEW cs, NEW a, Splits(cs, a)
  PROVE  /\ Active(cs) # {} /\ IsFiniteSet(Active(cs)) /\ Active(cs) \subseteq DOMAIN cs
         /\ LastActive(cs) \in Active(cs) /\ \A j \in Active(cs) : j <= LastActive(cs)
         /\ \A i \in DOMAIN cs : /\ PctsOf(cs)[i] = cs[i].pct
                                 /\ cs[i].pct \in Nat
                                 /\ SharesOf(cs, a)[i] = Percent(a, cs[i].pct)
                                 /\ Percent(a, cs[i].pct) \in Nat
<1>1. cs \in Seq(Cause) /\ Active(cs) # {} /\ a \in Nat
  BY DEF Splits, AllocationsValid
<1>2. \A i \in DOMAIN cs : cs[i].pct \in Nat
  <2> TAKE i \in DOMAIN cs
  <2>1. cs[i] \in Cause
    BY <1>1
  <2>2. \A c \in Cause : c.pct \in 0 .. Hundred
    BY DEF Cause
  <2>3. cs[i].pct \in 0 .. Hundred
    BY <2>1, <2>2
  <2> QED BY <2>3
<1>3. \A i \in DOMAIN cs : Percent(a, cs[i].pct) \in Nat
  BY <1>1, <1>2, PercentRounds
<1>4. DOMAIN cs = 1 .. Len(cs)
  BY <1>1
<1> QED BY <1>1, <1>2, <1>3, <1>4, ActiveFinite, LastIsActive DEF PctsOf, SharesOf

LEMMA RemainderType ==
  ASSUME NEW cs, NEW a, Splits(cs, a)
  PROVE  /\ SumFunctionOnSet(SharesOf(cs, a), Active(cs) \ {LastActive(cs)}) \in Int
         /\ Remainder(cs, a) \in Int
         /\ \A i \in DOMAIN cs : GiftsOf(cs, a)[i] \in Nat
<1> DEFINE others == Active(cs) \ {LastActive(cs)}
<1>1. a \in Nat
  BY DEF Splits
<1>2. IsFiniteSet(others) /\ \A i \in others : SharesOf(cs, a)[i] \in Int
  <2>1. IsFiniteSet(others)
    BY SharesType, FS_RemoveElement
  <2> QED BY <2>1, SharesType
<1>3. SumFunctionOnSet(SharesOf(cs, a), others) \in Int
  BY <1>2, SumIsInteger
<1>4. Remainder(cs, a) \in Int
  BY <1>1, <1>3 DEF Remainder
<1>5. \A i \in DOMAIN cs : GiftsOf(cs, a)[i] \in Nat
  BY <1>4, SharesType, ToCentInt DEF GiftsOf
<1> QED BY <1>3, <1>4, <1>5

(* The causes before the next one. *)
LEMMA BeforeNext ==
  ASSUME NEW cs \in Seq(Cause), NEW k \in DOMAIN cs
  PROVE  /\ k \notin Before(cs, k)
         /\ k \in Active(cs) => Before(cs, k + 1) = Before(cs, k) \cup {k}
         /\ k \notin Active(cs) => Before(cs, k + 1) = Before(cs, k)
<1>1. Active(cs) \subseteq Nat /\ k \in Nat
  BY DEF Active
<1> QED BY <1>1 DEF Before

LEMMA BeforeFinite ==
  ASSUME NEW cs, NEW a, Splits(cs, a), NEW k
  PROVE  /\ IsFiniteSet(Before(cs, k)) /\ Before(cs, k) \subseteq DOMAIN cs
         /\ \A i \in Before(cs, k) : GiftsOf(cs, a)[i] \in Int
         /\ SumFunctionOnSet(GiftsOf(cs, a), Before(cs, k)) \in Int
<1>1. Before(cs, k) \subseteq Active(cs)
  BY DEF Before
<1>2. IsFiniteSet(Before(cs, k)) /\ Before(cs, k) \subseteq DOMAIN cs
  BY <1>1, SharesType, FS_Subset
<1>3. \A i \in Before(cs, k) : GiftsOf(cs, a)[i] \in Int
  <2>1. \A i \in DOMAIN cs : GiftsOf(cs, a)[i] \in Nat
    BY RemainderType
  <2> QED BY <1>2, <2>1
<1> QED BY <1>2, <1>3, SumIsInteger

(* The sum of the gifts goes on with the loop. *)
LEMMA GiftsGoOn ==
  ASSUME NEW cs, NEW a, Splits(cs, a), NEW k \in DOMAIN cs
  PROVE  SumFunctionOnSet(GiftsOf(cs, a), Before(cs, k + 1))
           = SumFunctionOnSet(GiftsOf(cs, a), Before(cs, k))
               + (IF k \in Active(cs) THEN GiftsOf(cs, a)[k] ELSE 0)
<1>1. cs \in Seq(Cause)
  BY DEF Splits
<1>2. PICK B, f : B = Before(cs, k) /\ f = GiftsOf(cs, a)
  OBVIOUS
<1>3. IsFiniteSet(B) /\ SumFunctionOnSet(f, B) \in Int /\ k \notin B
  BY <1>1, <1>2, BeforeFinite, BeforeNext
<1>4. \A i \in B \cup {k} : f[i] \in Int
  <2>1. \A i \in DOMAIN cs : GiftsOf(cs, a)[i] \in Nat
    BY RemainderType
  <2>2. \A i \in Before(cs, k) : GiftsOf(cs, a)[i] \in Int
    BY BeforeFinite
  <2> QED BY <1>2, <2>1, <2>2
<1>5. CASE k \in Active(cs)
  <2>1. SumFunctionOnSet(f, B \cup {k}) = f[k] + SumFunctionOnSet(f, B)
    BY <1>3, <1>4, SumPutsIn
  <2>2. f[k] \in Int
    BY <1>4
  <2>3. Before(cs, k + 1) = B \cup {k}
    BY <1>1, <1>2, <1>5, BeforeNext
  <2>4. SumFunctionOnSet(f, B \cup {k}) = SumFunctionOnSet(f, B) + f[k]
    BY <1>3, <2>1, <2>2
  <2> QED BY <1>2, <1>5, <2>3, <2>4
<1>6. CASE k \notin Active(cs)
  BY <1>1, <1>2, <1>3, <1>6, BeforeNext
<1> QED BY <1>5, <1>6

(* Up to the last active cause the gifts are the shares. *)
LEMMA GiftsBeforeLast ==
  ASSUME NEW cs, NEW a, Splits(cs, a)
  PROVE  /\ Before(cs, LastActive(cs)) = Active(cs) \ {LastActive(cs)}
         /\ SumFunctionOnSet(GiftsOf(cs, a), Active(cs) \ {LastActive(cs)})
              = SumFunctionOnSet(SharesOf(cs, a), Active(cs) \ {LastActive(cs)})
<1>1. PICK B : B = Active(cs) \ {LastActive(cs)}
  OBVIOUS
<1>2. IsFiniteSet(B)
  BY <1>1, SharesType, FS_RemoveElement
<1>3. \A i \in B : GiftsOf(cs, a)[i] = SharesOf(cs, a)[i]
  BY <1>1, SharesType DEF GiftsOf
<1>4. SumFunctionOnSet(GiftsOf(cs, a), B) = SumFunctionOnSet(SharesOf(cs, a), B)
  BY <1>2, <1>3, SumAgrees
<1>5. Before(cs, LastActive(cs)) = B
  <2>1. Active(cs) \subseteq Int
    BY SharesType, ActiveFinite DEF Splits
  <2> QED BY <1>1, <2>1, SharesType DEF Before
<1> QED BY <1>1, <1>4, <1>5

(* What the loop computes for an active cause is its gift, if it is any.   *)
LEMMA CauseGetsGift ==
  ASSUME NEW cs, NEW a, Splits(cs, a), NEW k \in Active(cs), NEW left, NEW amount,
         left = a - SumFunctionOnSet(GiftsOf(cs, a), Before(cs, k)),
         amount = IF \A i \in Active(cs) : i <= k THEN ToCent(left)
                                                 ELSE Percent(a, cs[k].pct)
  PROVE  GiftsOf(cs, a)[k] = IF amount > 0 THEN amount ELSE 0
<1>1. k \in DOMAIN cs /\ Active(cs) \subseteq Int /\ Percent(a, cs[k].pct) \in Nat
  <2>1. cs \in Seq(Cause) /\ Active(cs) \subseteq DOMAIN cs
    BY SharesType DEF Splits
  <2>2. k \in DOMAIN cs /\ Active(cs) \subseteq Int
    BY <2>1
  <2>3. \A i \in DOMAIN cs : Percent(a, cs[i].pct) \in Nat
    BY SharesType
  <2> QED BY <2>2, <2>3
<1>2. CASE k = LastActive(cs)
  <2>1. left = Remainder(cs, a)
    BY <1>2, GiftsBeforeLast DEF Remainder
  <2>2. amount = ToCent(left)
    BY <1>2, SharesType
  <2> QED BY <1>1, <1>2, <2>1, <2>2 DEF GiftsOf
<1>3. CASE k # LastActive(cs)
  <2>1. ~(\A i \in Active(cs) : i <= k)
    <3>1. LastActive(cs) \in Active(cs) /\ k <= LastActive(cs)
      BY SharesType
    <3> QED BY <1>1, <1>3, <3>1
  <2>2. amount = Percent(a, cs[k].pct)
    BY <2>1
  <2>3. GiftsOf(cs, a)[k] = Percent(a, cs[k].pct)
    BY <1>1, <1>3 DEF GiftsOf
  <2> QED BY <1>1, <2>2, <2>3
<1> QED BY <1>2, <1>3

-----------------------------------------------------------------------------
(* The loop of distribute keeps the shares *)

(* What the records of the batch b give to cause n. *)
GivenIn(log, b, n) ==
    SumFunctionOnSet(AmountsOf(log), {i \in DOMAIN log : log[i].batch = b /\ log[i].cause = n})

LEMMA GivenAppend ==
  ASSUME NEW log \in Seq(Record), NEW r \in Record, NEW b, NEW n
  PROVE  /\ GivenIn(log, b, n) \in Int
         /\ GivenIn(Append(log, r), b, n)
              = GivenIn(log, b, n) + (IF r.batch = b /\ r.cause = n THEN r.amount ELSE 0)
<1>1. PICK P, Q, new : /\ P = {i \in DOMAIN log : log[i].batch = b /\ log[i].cause = n}
                       /\ Q = {i \in DOMAIN new : new[i].batch = b /\ new[i].cause = n}
                       /\ new = Append(log, r)
  OBVIOUS
<1>2. /\ SumFunctionOnSet(AmountsOf(log), P) \in Int
      /\ SumFunctionOnSet(AmountsOf(new), P) = SumFunctionOnSet(AmountsOf(log), P)
      /\ SumFunctionOnSet(AmountsOf(new), P \cup {Len(log) + 1})
           = SumFunctionOnSet(AmountsOf(log), P) + r.amount
  <2>1. P \subseteq DOMAIN log
    BY <1>1
  <2>2. \A x \in Record : x.amount \in Int
    BY RecordAmount
  <2> QED BY <1>1, <2>1, <2>2, AppendSums
<1>3. /\ DOMAIN new = DOMAIN log \cup {Len(log) + 1}
      /\ \A k \in DOMAIN log : new[k] = log[k]
      /\ new[Len(log) + 1] = r
      /\ Len(log) + 1 \notin DOMAIN log
  BY <1>1
<1>4. Q = IF r.batch = b /\ r.cause = n THEN P \cup {Len(log) + 1} ELSE P
  BY <1>1, <1>3
<1>5. r.amount \in Int
  BY RecordAmount
<1>6. GivenIn(log, b, n) = SumFunctionOnSet(AmountsOf(log), P)
  BY <1>1 DEF GivenIn
<1>7. GivenIn(Append(log, r), b, n) = SumFunctionOnSet(AmountsOf(new), Q)
  BY <1>1 DEF GivenIn
<1>8. CASE r.batch = b /\ r.cause = n
  BY <1>2, <1>4, <1>5, <1>6, <1>7, <1>8
<1>9. CASE ~(r.batch = b /\ r.cause = n)
  <2>1. GivenIn(Append(log, r), b, n) = GivenIn(log, b, n)
    BY <1>2, <1>4, <1>6, <1>7, <1>9
  <2> QED BY <1>2, <1>6, <1>9, <2>1
<1> QED BY <1>8, <1>9

LEMMA GivenFresh ==
  ASSUME NEW log, NEW b, NEW n, \A i \in DOMAIN log : log[i].batch # b
  PROVE  GivenIn(log, b, n) = 0
<1>1. {i \in DOMAIN log : log[i].batch = b /\ log[i].cause = n} = {}
  OBVIOUS
<1> QED BY <1>1, SumOfNothing DEF GivenIn

(* The invariant of the loop for the engine state s and the job j. *)
LoopShares(s, j) ==
    LET cs == s.causes
        a  == j.amount
        k  == j.next
    IN  /\ a >= Cent /\ AllocationsValid(cs) /\ k \in 1 .. Len(cs) + 1
        /\ j.left = a - SumFunctionOnSet(GiftsOf(cs, a), Before(cs, k))
        /\ \A i \in DOMAIN cs : GivenIn(s.distributions, j.batch, cs[i].name) =
              IF i \in Before(cs, k) THEN GiftsOf(cs, a)[i] ELSE 0

LEMMA ShareInvByLoop ==
  ShareInv <=> \A e \in Engines : pc[e] = "paying" => LoopShares(state[e], job[e])
BY DEF ShareInv, LoopShares, Given, GivenIn

LEMMA LoopSplits ==
  ASSUME NEW s \in State, NEW j \in Job, LoopShares(s, j)
  PROVE  Splits(s.causes, j.amount)
<1>1. s.causes \in Seq(Cause) /\ j.amount \in Int /\ j.amount >= Cent /\ AllocationsValid(s.causes)
  BY DEF State, Job, LoopShares
<1> QED BY <1>1, CentAssumption DEF Splits

(* A turn of the loop, from s and j to t and h, gives its gift to the cause *)
(* reached and nothing to the others.                                       *)
Turn(s, j, t, h, gift) ==
    /\ j.next \in DOMAIN s.causes
    /\ t.causes = s.causes
    /\ h = Onward(j, gift)
    /\ gift = IF j.next \in Active(s.causes) THEN GiftsOf(s.causes, j.amount)[j.next] ELSE 0
    /\ \A i \in DOMAIN s.causes :
          GivenIn(t.distributions, j.batch, s.causes[i].name)
            = IF i = j.next THEN gift ELSE GivenIn(s.distributions, j.batch, s.causes[i].name)

LEMMA TurnKeepsShares ==
  ASSUME NEW s \in State, NEW j \in Job, NEW t, NEW h, NEW gift \in Int,
         LoopShares(s, j), Turn(s, j, t, h, gift)
  PROVE  LoopShares(t, h)
<1>1. /\ j.next \in DOMAIN s.causes /\ t.causes = s.causes
      /\ h.amount = j.amount /\ h.next = j.next + 1 /\ h.batch = j.batch
      /\ h.left = j.left - gift
      /\ gift = IF j.next \in Active(s.causes) THEN GiftsOf(s.causes, j.amount)[j.next] ELSE 0
      /\ \A i \in DOMAIN s.causes :
            GivenIn(t.distributions, j.batch, s.causes[i].name)
              = IF i = j.next THEN gift ELSE GivenIn(s.distributions, j.batch, s.causes[i].name)
  BY DEF Turn, Onward
<1>2. PICK cs, a, k, f : cs = s.causes /\ a = j.amount /\ k = j.next /\ f = GiftsOf(cs, a)
  OBVIOUS
<1>3. Splits(cs, a) /\ cs \in Seq(Cause) /\ k \in DOMAIN cs
  BY <1>1, <1>2, LoopSplits DEF State
<1>4. SumFunctionOnSet(f, Before(cs, k + 1)) = SumFunctionOnSet(f, Before(cs, k)) + gift
  BY <1>1, <1>2, <1>3, GiftsGoOn
<1>5. SumFunctionOnSet(f, Before(cs, k)) \in Int
  BY <1>2, <1>3, BeforeFinite
<1>6. h.left = a - SumFunctionOnSet(f, Before(cs, k + 1))
  <2>1. j.left = a - SumFunctionOnSet(f, Before(cs, k))
    BY <1>2 DEF LoopShares
  <2>2. a \in Int
    BY <1>3 DEF Splits
  <2> QED BY <1>1, <1>4, <1>5, <2>1, <2>2
<1>7. /\ k \notin Before(cs, k)
      /\ k \in Active(cs) => Before(cs, k + 1) = Before(cs, k) \cup {k}
      /\ k \notin Active(cs) => Before(cs, k + 1) = Before(cs, k)
  BY <1>3, BeforeNext
<1>8. \A i \in DOMAIN cs : GivenIn(t.distributions, j.batch, cs[i].name)
                             = IF i \in Before(cs, k + 1) THEN f[i] ELSE 0
  <2> TAKE i \in DOMAIN cs
  <2>1. GivenIn(s.distributions, j.batch, cs[i].name)
          = IF i \in Before(cs, k) THEN f[i] ELSE 0
    BY <1>2 DEF LoopShares
  <2>2. CASE i = k
    BY <1>1, <1>2, <1>7, <2>2
  <2>3. CASE i # k
    BY <1>1, <1>2, <1>7, <2>1, <2>3
  <2> QED BY <2>2, <2>3
<1>9. k + 1 \in 1 .. Len(cs) + 1 /\ a >= Cent /\ AllocationsValid(cs)
  BY <1>2, <1>3 DEF LoopShares
<1> QED BY <1>1, <1>2, <1>6, <1>8, <1>9 DEF LoopShares

LEMMA BeginShares ==
  ASSUME BookInv, NEW e \in Engines, NEW a \in Amounts, DistributeBegins(e, a)
  PROVE  LoopShares(state[e], job'[e]) /\ state'[e] = state[e]
<1>1. TypeOK
  BY DEF BookInv, IndInv
<1>2. /\ state'[e] = state[e]
      /\ job'[e] = [batch |-> batches + 1, amount |-> a, left |-> a, next |-> 1]
      /\ a >= Cent /\ AllocationsValid(state[e].causes)
  BY <1>1 DEF DistributeBegins, TypeOK
<1>3. PICK s, j, cs : s = state[e] /\ j = job'[e] /\ cs = s.causes
  OBVIOUS
<1>4. /\ j.batch = batches + 1 /\ j.amount = a /\ j.left = a /\ j.next = 1
      /\ a \in Int /\ cs \in Seq(Cause)
  BY <1>1, <1>2, <1>3, AmountsAssumption DEF TypeOK, State
<1>5. Before(cs, 1) = {}
  BY <1>4 DEF Before, Active
<1>6. j.left = a - SumFunctionOnSet(GiftsOf(cs, a), Before(cs, 1))
  <2>1. PICK sum : sum = SumFunctionOnSet(GiftsOf(cs, a), Before(cs, 1))
    OBVIOUS
  <2>2. sum = 0
    BY <1>5, <2>1, SumOfNothing
  <2> QED BY <1>4, <2>1, <2>2
<1>7. \A i \in DOMAIN cs : GivenIn(s.distributions, j.batch, cs[i].name) = 0
  <2>1. \A k \in DOMAIN s.distributions : s.distributions[k].batch \in 1 .. batches
    BY <1>3 DEF BookInv, Orderly, Logs
  <2>2. \A k \in DOMAIN s.distributions : s.distributions[k].batch # j.batch
    BY <1>1, <1>4, <2>1 DEF TypeOK
  <2> QED BY <2>2, GivenFresh
<1>8. 1 \in 1 .. Len(cs) + 1
  BY <1>4
<1>9. LoopShares(s, j)
  BY <1>2, <1>3, <1>4, <1>5, <1>6, <1>7, <1>8 DEF LoopShares
<1> QED BY <1>2, <1>3, <1>9

(* What the loop computes for the cause reached is its gift, if it is any. *)
LEMMA ReachedGetsGift ==
  ASSUME TypeOK, NEW e \in Engines, InLoop(e), LoopShares(state[e], job[e]), Reached(e).active
  PROVE  /\ job[e].next \in Active(state[e].causes)
         /\ CauseAmount(e) \in Int
         /\ GiftsOf(state[e].causes, job[e].amount)[job[e].next]
              = IF CauseAmount(e) > 0 THEN CauseAmount(e) ELSE 0
<1>1. PICK cs, a, k, left, amount :
         /\ cs = state[e].causes /\ a = job[e].amount /\ k = job[e].next
         /\ left = job[e].left /\ amount = CauseAmount(e)
  OBVIOUS
<1>2. Splits(cs, a)
  <2>1. state[e] \in State /\ job[e] \in Job
    BY DEF TypeOK
  <2> QED BY <1>1, <2>1, LoopSplits
<1>3. k \in Active(cs)
  BY <1>1 DEF InLoop, Reached, Active
<1>4. left = a - SumFunctionOnSet(GiftsOf(cs, a), Before(cs, k))
  BY <1>1 DEF LoopShares
<1>5. amount = IF \A i \in Active(cs) : i <= k THEN ToCent(left) ELSE Percent(a, cs[k].pct)
  BY <1>1 DEF CauseAmount, IsLast, Reached
<1>6. GiftsOf(cs, a)[k] = IF amount > 0 THEN amount ELSE 0
  BY <1>2, <1>3, <1>4, <1>5, CauseGetsGift
<1>7. amount \in Int
  <2>1. left \in Int
    BY <1>1 DEF TypeOK, Job
  <2>2. \A i \in DOMAIN cs : Percent(a, cs[i].pct) \in Nat
    BY <1>2, SharesType
  <2>3. k \in DOMAIN cs
    BY <1>3 DEF Active
  <2> QED BY <1>5, <2>1, <2>2, <2>3, ToCentRounds
<1> QED BY <1>1, <1>3, <1>6, <1>7

LEMMA SkipShares ==
  ASSUME TypeOK, TypeOK', NEW e \in Engines, SkipCause(e), LoopShares(state[e], job[e])
  PROVE  LoopShares(state'[e], job'[e])
<1>1. PICK s, j, h : s = state[e] /\ j = job[e] /\ h = job'[e]
  OBVIOUS
<1>2. s \in State /\ j \in Job /\ h \in Job /\ state'[e] = s
  BY <1>1 DEF TypeOK, SkipCause
<1>3. h = Onward(j, 0)
  BY <1>1 DEF TypeOK, SkipCause
<1>4. j.next \in DOMAIN s.causes /\ LoopShares(s, j)
  BY <1>1 DEF SkipCause, InLoop
<1>5. PICK gift : gift = 0
  OBVIOUS
<1>6. gift = IF j.next \in Active(s.causes) THEN GiftsOf(s.causes, j.amount)[j.next] ELSE 0
  <2>1. CASE Reached(e).active
    BY <1>1, <1>5, <2>1, ReachedGetsGift DEF SkipCause
  <2>2. CASE ~Reached(e).active
    BY <1>1, <1>5, <2>2 DEF Reached, Active
  <2> QED BY <2>1, <2>2
<1>7. \A i \in DOMAIN s.causes :
        GivenIn(s.distributions, j.batch, s.causes[i].name)
          = IF i = j.next THEN gift ELSE GivenIn(s.distributions, j.batch, s.causes[i].name)
  <2>1. j.next \notin Before(s.causes, j.next)
    <3>1. s.causes \in Seq(Cause)
      BY <1>2 DEF State
    <3> QED BY <1>4, <3>1, BeforeNext
  <2>2. GivenIn(s.distributions, j.batch, s.causes[j.next].name) = 0
    BY <1>4, <2>1 DEF LoopShares
  <2> QED BY <1>5, <2>2
<1>8. LoopShares(s, h)
  <2>1. gift \in Int /\ h = Onward(j, gift)
    BY <1>3, <1>5
  <2>2. Turn(s, j, s, h, gift)
    BY <1>4, <1>6, <1>7, <2>1 DEF Turn
  <2> QED BY <1>2, <1>4, <2>1, <2>2, TurnKeepsShares
<1> QED BY <1>1, <1>2, <1>8

LEMMA PaymentShares ==
  ASSUME IndInv, TypeOK', NEW e \in Engines, NEW r \in Nat, LogsPayment(e, r),
         LoopShares(state[e], job[e])
  PROVE  LoopShares(state'[e], job'[e])
<1>1. PICK s, j, t, h, new, gift :
         /\ s = state[e] /\ j = job[e] /\ t = state'[e] /\ h = job'[e]
         /\ new = NewRecord(e, r) /\ gift = CauseAmount(e)
  OBVIOUS
<1>2. s \in State /\ j \in Job /\ t \in State /\ h \in Job /\ TypeOK
  BY <1>1 DEF TypeOK, IndInv
<1>3. /\ new \in Record /\ t.causes = s.causes
      /\ t.distributions = Append(s.distributions, new)
      /\ h = Onward(j, gift)
  <2>1. h = Onward(j, new.amount) /\ new.amount = gift
    BY <1>1, <1>2 DEF LogsPayment, LogRecord, NewRecord, TypeOK
  <2> QED BY <1>1, <1>2, <2>1, LogsPaymentEffect
<1>4. /\ j.next \in DOMAIN s.causes /\ Reached(e).active /\ gift > 0
      /\ InLoop(e) /\ LoopShares(s, j)
  BY <1>1 DEF LogsPayment, Due, InLoop
<1>5. /\ gift \in Int
      /\ gift = IF j.next \in Active(s.causes) THEN GiftsOf(s.causes, j.amount)[j.next] ELSE 0
  BY <1>1, <1>2, <1>4, ReachedGetsGift
<1>6. new.batch = j.batch /\ new.cause = s.causes[j.next].name /\ new.amount = gift
  BY <1>1 DEF NewRecord, Reached
<1>7. \A i \in DOMAIN s.causes :
        GivenIn(t.distributions, j.batch, s.causes[i].name)
          = IF i = j.next THEN gift ELSE GivenIn(s.distributions, j.batch, s.causes[i].name)
  <2> TAKE i \in DOMAIN s.causes
  <2>1. s.distributions \in Seq(Record) /\ s.causes \in Seq(Cause)
    BY <1>2 DEF State
  <2>2. /\ GivenIn(s.distributions, j.batch, s.causes[i].name) \in Int
        /\ GivenIn(t.distributions, j.batch, s.causes[i].name)
             = GivenIn(s.distributions, j.batch, s.causes[i].name)
                 + (IF new.batch = j.batch /\ new.cause = s.causes[i].name THEN new.amount ELSE 0)
    BY <1>3, <2>1, GivenAppend
  <2>3. CASE i = j.next
    <3>1. j.next \notin Before(s.causes, j.next)
      BY <1>4, <2>1, BeforeNext
    <3>2. GivenIn(s.distributions, j.batch, s.causes[i].name) = 0
      BY <1>4, <2>3, <3>1 DEF LoopShares
    <3> QED BY <1>5, <1>6, <2>2, <2>3, <3>2
  <2>4. CASE i # j.next
    <3>1. s.causes[i].name # s.causes[j.next].name
      BY <1>1, <1>4, <2>4, NamesOf
    <3> QED BY <1>6, <2>2, <2>4, <3>1
  <2> QED BY <2>3, <2>4
<1>8. LoopShares(t, h)
  <2>1. Turn(s, j, t, h, gift)
    BY <1>3, <1>4, <1>5, <1>7 DEF Turn
  <2> QED BY <1>2, <1>4, <1>5, <2>1, TurnKeepsShares
<1> QED BY <1>1, <1>8

LEMMA ShareStep == BookInv /\ ShareInv /\ BookInv' /\ [Next]_vars => ShareInv'
<1> SUFFICES ASSUME BookInv, ShareInv, BookInv', [Next]_vars, NEW e \in Engines, pc'[e] = "paying"
             PROVE  LoopShares(state'[e], job'[e])
  BY DEF ShareInv, LoopShares, Given, GivenIn
<1>1. TypeOK /\ TypeOK' /\ IndInv
  BY DEF BookInv, IndInv
<1>2. pc[e] = "paying" => LoopShares(state[e], job[e])
  BY ShareInvByLoop
<1>3. CASE pc[e] = "paying" /\ Untouched(e)
  BY <1>2, <1>3 DEF Untouched
<1>4. ASSUME NEW a \in Amounts, DistributeBegins(e, a)
      PROVE  LoopShares(state'[e], job'[e])
  BY <1>4, BeginShares
<1>5. CASE SkipCause(e)
  BY <1>1, <1>2, <1>5, SkipShares DEF SkipCause, InLoop
<1>6. ASSUME NEW t \in Nat, LogsPayment(e, t)
      PROVE  LoopShares(state'[e], job'[e])
  BY <1>1, <1>2, <1>6, PaymentShares DEF LogsPayment
<1> QED BY <1>1, <1>3, <1>4, <1>5, <1>6, LoopStep DEF LoopGoesOn

(* The invariant of the loop holds always: the causes it has gone past have *)
(* their gifts, the others nothing, and the rest of the amount is left.     *)
THEOREM SharesInductive == Spec => []ShareInv
<1>1. Init => ShareInv
  BY DEF Init, ShareInv
<1>2. BookInv /\ BookInv' /\ ShareInv /\ [Next]_vars => ShareInv'
  BY ShareStep
<1> QED BY <1>1, <1>2, BooksInductive, PTL DEF Spec

-----------------------------------------------------------------------------
(* What the shares come to at the end of the loop *)

(* The shares and the percentages of all but the last active cause.        *)
LEMMA ShareSums ==
  ASSUME NEW cs, NEW a, Splits(cs, a), NEW others, others = Active(cs) \ {LastActive(cs)}
  PROVE  /\ Cardinality(others) \in Nat /\ Cardinality(Active(cs)) = Cardinality(others) + 1
         /\ SumFunctionOnSet(PctsOf(cs), others) \in Int
         /\ AllocationTotal(cs) = SumFunctionOnSet(PctsOf(cs), others) + cs[LastActive(cs)].pct
         /\ Hundred * SumFunctionOnSet(SharesOf(cs, a), others)
              <= a * SumFunctionOnSet(PctsOf(cs), others)
         /\ a * SumFunctionOnSet(PctsOf(cs), others)
              <= Hundred * SumFunctionOnSet(SharesOf(cs, a), others)
                   + (Cent * Hundred) * Cardinality(others)
<1>1. PICK f, g, last, c : f = SharesOf(cs, a) /\ g = PctsOf(cs) /\ last = LastActive(cs)
                           /\ c = Cent * Hundred
  OBVIOUS
<1>2. /\ IsFiniteSet(Active(cs)) /\ last \in Active(cs) /\ Active(cs) \subseteq DOMAIN cs
      /\ \A i \in DOMAIN cs : /\ g[i] = cs[i].pct /\ cs[i].pct \in Nat
                              /\ f[i] = Percent(a, cs[i].pct) /\ Percent(a, cs[i].pct) \in Nat
  BY <1>1, SharesType
<1>3. a \in Nat /\ Hundred \in Int /\ c \in Int
  BY <1>1, CentAssumption DEF Splits, Hundred
<1>4. \A i \in others : /\ f[i] \in Int /\ g[i] \in Int
                        /\ Hundred * f[i] <= a * g[i]
                        /\ a * g[i] <= Hundred * f[i] + c
  <2> TAKE i \in others
  <2>1. /\ i \in DOMAIN cs /\ g[i] = cs[i].pct /\ cs[i].pct \in Nat
        /\ f[i] = Percent(a, cs[i].pct) /\ Percent(a, cs[i].pct) \in Nat
    BY <1>2
  <2>2. /\ Hundred * Percent(a, cs[i].pct) <= a * cs[i].pct
        /\ a * cs[i].pct <= Hundred * Percent(a, cs[i].pct) + Cent * Hundred
    BY <1>3, <2>1, PercentRounds
  <2> QED BY <1>1, <2>1, <2>2
<1>5. IsFiniteSet(others) /\ last \notin others /\ others \cup {last} = Active(cs)
  BY <1>1, <1>2, FS_RemoveElement
<1>6. Cardinality(others) \in Nat /\ Cardinality(Active(cs)) = Cardinality(others) + 1
  BY <1>5, FS_AddElement, FS_CardinalityType
<1>7. SumFunctionOnSet(g, others) \in Int
  BY <1>4, <1>5, SumIsInteger
<1>8. SumFunctionOnSet(g, Active(cs)) = g[last] + SumFunctionOnSet(g, others)
  <2>1. \A i \in others \cup {last} : g[i] \in Int
    BY <1>2, <1>5
  <2>2. SumFunctionOnSet(g, others \cup {last}) = g[last] + SumFunctionOnSet(g, others)
    BY <1>5, <2>1, SumPutsIn
  <2> QED BY <1>5, <2>2
<1>9. AllocationTotal(cs) = SumFunctionOnSet(g, others) + cs[last].pct
  <2>1. AllocationTotal(cs) = SumFunctionOnSet(g, Active(cs))
    BY <1>1 DEF AllocationTotal
  <2>2. g[last] = cs[last].pct /\ cs[last].pct \in Nat
    BY <1>2
  <2> QED BY <1>7, <1>8, <2>1, <2>2
<1>10. Hundred * SumFunctionOnSet(f, others) <= a * SumFunctionOnSet(g, others)
  <2>1. PICK z \in Int : z = 0
    OBVIOUS
  <2>2. \A i \in others : f[i] \in Int /\ g[i] \in Int /\ Hundred * f[i] <= a * g[i] + z
    <3> TAKE i \in others
    <3>1. a * g[i] \in Int
      BY <1>3, <1>4
    <3> QED BY <1>4, <2>1, <3>1
  <2>3. Hundred * SumFunctionOnSet(f, others)
          <= a * SumFunctionOnSet(g, others) + z * Cardinality(others)
    <3>1. Scaled(others, f, g, Hundred, a, z)
      BY <2>2 DEF Scaled
    <3>2. a \in Int
      BY <1>3
    <3> QED BY <1>3, <1>5, <3>1, <3>2, SumScales
  <2>4. z * Cardinality(others) = 0 /\ a * SumFunctionOnSet(g, others) \in Int
    BY <1>3, <1>6, <1>7, <2>1
  <2> QED BY <2>3, <2>4
<1>11. a * SumFunctionOnSet(g, others)
         <= Hundred * SumFunctionOnSet(f, others) + c * Cardinality(others)
  <2>1. \A i \in others : g[i] \in Int /\ f[i] \in Int /\ a * g[i] <= Hundred * f[i] + c
    BY <1>4
  <2>2. Scaled(others, g, f, a, Hundred, c)
    BY <2>1 DEF Scaled
  <2>3. a \in Int
    BY <1>3
  <2> QED BY <1>3, <1>5, <2>2, <2>3, SumScales
<1> QED BY <1>1, <1>6, <1>7, <1>9, <1>10, <1>11

(* The arithmetic of the remainder: P is what the others get of a for      *)
(* their T of 10000, p what is due to the last one, R what is left for it, *)
(* G what it gets of that; c is a cent and m counts the others.            *)
LEMMA RemainderBounds ==
  ASSUME NEW a \in Nat, NEW c \in Nat \ {0}, NEW m \in Nat, NEW P \in Int,
         NEW T \in Int, NEW p \in Nat, NEW R \in Int, NEW C \in Int, NEW G \in Nat,
         T + p - 10000 \in -1 .. 1,
         10000 * P <= a * T,
         a * T <= 10000 * P + (c * 10000) * m,
         R = a - P,
         C <= R, R < C + c, R >= 0 => C >= 0,
         G = IF C > 0 THEN C ELSE 0
  PROVE  /\ R - G < c
         /\ T + p <= 10000 => R >= 0 /\ R - G >= 0 /\ a * p <= 10000 * R
         /\ (R - G) * 10000 >= -a
         /\ G * 10000 - a * p <= c * (m + 1) * 10000 + a
         /\ a * p - G * 10000 <= c * (m + 1) * 10000 + a
<1>1. PICK x \in Int, y \in Int, z \in Int : x = a * T /\ y = a * p /\ z = c * m
  <2>1. a * T \in Int /\ a * p \in Int /\ c * m \in Int
    OBVIOUS
  <2> QED BY <2>1
<1>2. y >= 0 /\ z >= 0
  BY <1>1
<1>3. a * (T + p) = x + y
  BY <1>1, Distributes
<1>4. x + y <= a * 10001 /\ a * 9999 <= x + y
  <2>1. T + p <= 10001 /\ 9999 <= T + p /\ T + p \in Int
    OBVIOUS
  <2>2. a * (T + p) <= a * 10001 /\ a * 9999 <= a * (T + p)
    BY <2>1, Multiplies
  <2> QED BY <1>3, <2>2
<1>5. (c * 10000) * m = 10000 * z
  BY <1>1
<1>6. c * (m + 1) * 10000 = 10000 * z + 10000 * c
  <2>1. PICK u \in Int : u = 1
    OBVIOUS
  <2>2. c * (m + u) = z + c * u
    BY <1>1, <2>1, Distributes
  <2>3. c * u = c
    BY <2>1
  <2> QED BY <2>1, <2>2, <2>3
<1>7. 10000 * P <= x /\ x <= 10000 * P + 10000 * z
  BY <1>1, <1>5
<1>8. R - G < c
  OBVIOUS
<1>9. T + p <= 10000 => R >= 0 /\ R - G >= 0 /\ y <= 10000 * R
  <2>1. ASSUME T + p <= 10000 PROVE x + y <= a * 10000
    <3>1. a * (T + p) <= a * 10000
      BY <2>1, Multiplies
    <3> QED BY <1>3, <3>1
  <2> QED BY <1>2, <1>7, <2>1
<1>10. (R - G) * 10000 >= -a
  BY <1>2, <1>4, <1>7
<1>11. G * 10000 - y <= 10000 * z + 10000 * c + a
  BY <1>2, <1>4, <1>7, <1>10
<1>12. y - G * 10000 <= 10000 * z + 10000 * c + a
  BY <1>2, <1>4, <1>7, <1>8
<1> QED BY <1>1, <1>6, <1>8, <1>9, <1>10, <1>11, <1>12

(* What the gifts leave of the amount, and how far each is from its        *)
(* percentage.                                                             *)
LEMMA GiftBounds ==
  ASSUME NEW cs, NEW a, Splits(cs, a), NEW left,
         left = a - SumFunctionOnSet(GiftsOf(cs, a), Active(cs))
  PROVE  LET slack == Cent * Cardinality(Active(cs)) * Hundred + a IN
         /\ left \in Int /\ left < Cent /\ left * Hundred >= -a
         /\ slack \in Nat
         /\ AllocationTotal(cs) <= Hundred => left >= 0
         /\ \A i \in Active(cs) :
              /\ GiftsOf(cs, a)[i] * Hundred - a * cs[i].pct \in -slack .. slack
              /\ AllocationTotal(cs) <= Hundred => Percent(a, cs[i].pct) <= GiftsOf(cs, a)[i]
<1>1. PICK O, L, f, g, m, P, T, p, R, C, G, slack :
        /\ O = Active(cs) \ {LastActive(cs)} /\ L = LastActive(cs)
        /\ f = SharesOf(cs, a) /\ g = GiftsOf(cs, a) /\ m = Cardinality(O)
        /\ P = SumFunctionOnSet(f, O) /\ T = SumFunctionOnSet(PctsOf(cs), O)
        /\ p = cs[L].pct /\ R = Remainder(cs, a) /\ C = ToCent(R) /\ G = g[L]
        /\ slack = Cent * Cardinality(Active(cs)) * Hundred + a
  OBVIOUS
<1>2. a \in Nat /\ Cent \in Nat \ {0} /\ Hundred = 10000
  BY CentAssumption DEF Splits, Hundred
<1>3. /\ IsFiniteSet(Active(cs)) /\ Active(cs) \subseteq DOMAIN cs /\ L \in Active(cs)
      /\ \A i \in DOMAIN cs : cs[i].pct \in Nat /\ Percent(a, cs[i].pct) \in Nat
  BY <1>1, SharesType
<1>4. /\ m \in Nat /\ Cardinality(Active(cs)) = m + 1 /\ T \in Int
      /\ AllocationTotal(cs) = T + p
      /\ 10000 * P <= a * T /\ a * T <= 10000 * P + (Cent * 10000) * m
  BY <1>1, <1>2, ShareSums
<1>5. P \in Int /\ R \in Int /\ R = a - P /\ G \in Nat /\ p \in Nat
  <2>1. P \in Int /\ R \in Int
    BY <1>1, RemainderType
  <2>2. R = a - P
    BY <1>1 DEF Remainder
  <2>3. \A i \in DOMAIN cs : g[i] \in Nat
    BY <1>1, RemainderType
  <2> QED BY <1>1, <1>3, <2>1, <2>2, <2>3
<1>6. /\ C \in Int /\ C <= R /\ R < C + Cent /\ (R >= 0 => C >= 0)
      /\ G = IF C > 0 THEN C ELSE 0
  <2>1. C \in Int /\ C <= R /\ R < C + Cent
    BY <1>1, <1>5, ToCentRounds
  <2>2. ASSUME R >= 0 PROVE C >= 0
    <3>1. ToCent(0) <= ToCent(R)
      BY <1>5, <2>2, ToCentOrder
    <3>2. ToCent(0) = 0
      BY CentAssumption DEF ToCent
    <3> QED BY <1>1, <3>1, <3>2
  <2>3. G = IF C > 0 THEN C ELSE 0
    BY <1>1, <1>3 DEF GiftsOf
  <2> QED BY <2>1, <2>2, <2>3
<1>7. T + p - 10000 \in -1 .. 1
  <2>1. AllocationTotal(cs) - Hundred \in -Tolerance .. Tolerance
    BY DEF Splits, AllocationsValid
  <2>2. Tolerance = 1
    BY DEF Tolerance
  <2> QED BY <1>2, <1>4, <1>5, <2>1, <2>2
<1>8. /\ R - G < Cent
      /\ T + p <= 10000 => R >= 0 /\ R - G >= 0 /\ a * p <= 10000 * R
      /\ (R - G) * 10000 >= -a
      /\ G * 10000 - a * p <= Cent * (m + 1) * 10000 + a
      /\ a * p - G * 10000 <= Cent * (m + 1) * 10000 + a
  BY <1>2, <1>4, <1>5, <1>6, <1>7, RemainderBounds
<1>9. left = R - G
  <2>1. SumFunctionOnSet(g, O) = P
    BY <1>1, GiftsBeforeLast
  <2>2. SumFunctionOnSet(g, Active(cs)) = G + SumFunctionOnSet(g, O)
    <3>1. IsFiniteSet(O) /\ L \notin O /\ O \cup {L} = Active(cs)
      BY <1>1, <1>3, FS_RemoveElement
    <3>2. \A i \in O \cup {L} : g[i] \in Int
      <4>1. \A i \in DOMAIN cs : g[i] \in Nat
        BY <1>1, RemainderType
      <4> QED BY <1>3, <3>1, <4>1
    <3>3. SumFunctionOnSet(g, O \cup {L}) = g[L] + SumFunctionOnSet(g, O)
      BY <3>1, <3>2, SumPutsIn
    <3> QED BY <1>1, <3>1, <3>3
  <2>3. left = a - SumFunctionOnSet(g, Active(cs))
    BY <1>1
  <2> QED BY <1>2, <1>5, <2>1, <2>2, <2>3
<1>10. slack \in Nat /\ slack = Cent * (m + 1) * 10000 + a /\ slack >= Cent * 10000
  <2>1. PICK u \in Int : u = 1
    OBVIOUS
  <2>2. Cent * (m + u) = Cent * m + Cent * u /\ Cent * u = Cent
    BY <1>2, <1>4, <2>1, Distributes
  <2>3. Cent * m \in Nat
    BY <1>2, <1>4
  <2>4. PICK x : x = Cent * (m + u)
    OBVIOUS
  <2>5. x \in Nat /\ x >= Cent
    BY <1>2, <2>2, <2>3, <2>4
  <2>6. slack = x * 10000 + a
    BY <1>1, <1>2, <1>4, <2>1, <2>4
  <2> QED BY <1>2, <2>1, <2>4, <2>5, <2>6
<1>11. ASSUME NEW i \in Active(cs)
       PROVE  /\ g[i] * Hundred - a * cs[i].pct \in -slack .. slack
              /\ AllocationTotal(cs) <= Hundred => Percent(a, cs[i].pct) <= g[i]
  <2>1. CASE i = L
    <3>1. PICK y \in Int : y = a * p
      BY <1>2, <1>5
    <3>2. g[i] * Hundred - a * cs[i].pct = G * 10000 - y
      BY <1>1, <1>2, <2>1, <3>1
    <3>3. G * 10000 - y \in -slack .. slack
      BY <1>5, <1>8, <1>10, <3>1
    <3>4. ASSUME T + p <= 10000 PROVE Percent(a, p) <= G
      <4>1. R >= 0 /\ y <= 10000 * R
        BY <1>8, <3>1, <3>4
      <4>2. y \div 10000 \in Int /\ y \div 10000 <= R
        BY <1>5, <3>1, <4>1
      <4>3. ToCent(y \div 10000) <= C
        BY <1>1, <1>5, <4>2, ToCentOrder
      <4>4. Percent(a, p) = ToCent(y \div 10000)
        BY <1>2, <3>1 DEF Percent
      <4> QED BY <1>6, <4>1, <4>3, <4>4
    <3> QED BY <1>1, <1>2, <1>4, <2>1, <3>2, <3>3, <3>4
  <2>2. CASE i # L
    <3>1. PICK q, s : q = cs[i].pct /\ s = Percent(a, q)
      OBVIOUS
    <3>2. q \in Nat /\ s \in Nat /\ g[i] = s
      BY <1>1, <1>3, <2>2, <3>1 DEF GiftsOf
    <3>3. Hundred * s <= a * q /\ a * q <= Hundred * s + Cent * Hundred
      BY <1>2, <3>1, <3>2, PercentRounds
    <3>4. PICK y \in Int : y = a * q
      BY <1>2, <3>2
    <3>5. s * Hundred - y \in -slack .. slack
      BY <1>2, <1>10, <3>2, <3>3, <3>4
    <3> QED BY <3>1, <3>2, <3>4, <3>5
  <2> QED BY <2>1, <2>2
<1>12. left \in Int /\ left < Cent /\ left * Hundred >= -a
  BY <1>2, <1>5, <1>8, <1>9
<1>13. AllocationTotal(cs) <= Hundred => left >= 0
  BY <1>2, <1>4, <1>8, <1>9
<1>14. \A i \in Active(cs) :
         /\ GiftsOf(cs, a)[i] * Hundred - a * cs[i].pct \in -slack .. slack
         /\ AllocationTotal(cs) <= Hundred => Percent(a, cs[i].pct) <= GiftsOf(cs, a)[i]
  BY <1>1, <1>11
<1>15. slack = Cent * Cardinality(Active(cs)) * Hundred + a /\ slack \in Nat
  BY <1>1, <1>10
<1> QED BY <1>12, <1>13, <1>14, <1>15

(* What the loop has come to when it ends. *)
LEMMA LoopEnd ==
  ASSUME BookInv, ShareInv, NEW e \in Engines, BatchDone(e)
  PROVE  LET cs == state[e].causes
             a  == job[e].amount
         IN  /\ Splits(cs, a)
             /\ job[e].left = a - SumFunctionOnSet(GiftsOf(cs, a), Active(cs))
             /\ \A i \in DOMAIN cs :
                  Given(e, cs[i].name) = IF i \in Active(cs) THEN GiftsOf(cs, a)[i] ELSE 0
<1>1. PICK s, j : s = state[e] /\ j = job[e]
  OBVIOUS
<1>2. LoopShares(s, j)
  BY <1>1, ShareInvByLoop DEF BatchDone
<1>3. s \in State /\ j \in Job /\ s.causes \in Seq(Cause)
  BY <1>1 DEF BookInv, IndInv, TypeOK, State
<1>4. Before(s.causes, j.next) = Active(s.causes)
  <2>1. j.next = Len(s.causes) + 1
    BY <1>1, <1>2, <1>3 DEF BatchDone, InLoop, LoopShares
  <2> QED BY <1>3, <2>1 DEF Before, Active
<1>5. Splits(s.causes, j.amount)
  BY <1>2, <1>3, LoopSplits
<1> QED BY <1>1, <1>2, <1>4, <1>5 DEF LoopShares, Given, GivenIn

(* Every batch that runs to its end gives the amount away: less than a     *)
(* cent is left, and too much is given only if the percentages add up to   *)
(* more than 100, and then at most by the tolerance (pge.py:674-685).      *)
THEOREM BatchesGiveAll == Spec => []BatchGivesAll
<1>1. BookInv /\ ShareInv => BatchGivesAll
  <2> SUFFICES ASSUME BookInv, ShareInv, NEW e \in Engines, BatchDone(e)
               PROVE  /\ job[e].left < Cent
                      /\ AllocationTotal(state[e].causes) <= Hundred => job[e].left >= 0
                      /\ job[e].left * Hundred >= -(job[e].amount * Tolerance)
    BY DEF BatchGivesAll
  <2>1. PICK cs, a, left : cs = state[e].causes /\ a = job[e].amount /\ left = job[e].left
    OBVIOUS
  <2>2. Splits(cs, a) /\ left = a - SumFunctionOnSet(GiftsOf(cs, a), Active(cs))
    BY <2>1, LoopEnd
  <2>3. /\ left < Cent /\ left * Hundred >= -a
        /\ AllocationTotal(cs) <= Hundred => left >= 0
    BY <2>2, GiftBounds
  <2>4. a * Tolerance = a
    BY <2>2 DEF Splits, Tolerance
  <2> QED BY <2>1, <2>3, <2>4
<1> QED BY <1>1, BooksInductive, SharesInductive, PTL

(* Every active cause gets its percentage of the amount, up to a cent for  *)
(* each active cause and the tolerance; the last one is no exception, and  *)
(* an inactive cause gets nothing.                                         *)
THEOREM SharesAreAlwaysFair == Spec => []SharesAreFair
<1>1. BookInv /\ ShareInv => SharesAreFair
  <2> SUFFICES ASSUME BookInv, ShareInv, NEW e \in Engines, BatchDone(e),
                      NEW i \in DOMAIN state[e].causes
               PROVE  LET cs == state[e].causes
                          slack == Cent * Cardinality(Active(cs)) * Hundred
                                     + job[e].amount * Tolerance
                      IN Given(e, cs[i].name) * Hundred
                           - (IF cs[i].active THEN job[e].amount * cs[i].pct ELSE 0)
                             \in -slack .. slack
    BY DEF SharesAreFair
  <2>1. PICK cs, a, left : cs = state[e].causes /\ a = job[e].amount /\ left = job[e].left
    OBVIOUS
  <2>2. Splits(cs, a) /\ left = a - SumFunctionOnSet(GiftsOf(cs, a), Active(cs))
    BY <2>1, LoopEnd
  <2>3. Given(e, cs[i].name) = IF i \in Active(cs) THEN GiftsOf(cs, a)[i] ELSE 0
    BY <2>1, LoopEnd
  <2>4. PICK slack : slack = Cent * Cardinality(Active(cs)) * Hundred + a
    OBVIOUS
  <2>5. /\ slack \in Nat
        /\ \A k \in Active(cs) : GiftsOf(cs, a)[k] * Hundred - a * cs[k].pct \in -slack .. slack
    BY <2>2, <2>4, GiftBounds
  <2>6. a * Tolerance = a
    BY <2>2 DEF Splits, Tolerance
  <2>7. Given(e, cs[i].name) * Hundred - (IF cs[i].active THEN a * cs[i].pct ELSE 0)
          \in -slack .. slack
    <3>1. CASE i \in Active(cs)
      BY <2>3, <2>5, <3>1 DEF Active
    <3>2. CASE i \notin Active(cs)
      <4>1. ~cs[i].active
        BY <2>1, <3>2 DEF Active
      <4>2. Given(e, cs[i].name) * Hundred = 0
        BY <2>3, <3>2 DEF Hundred
      <4> QED BY <2>5, <4>1, <4>2
    <3> QED BY <3>1, <3>2
  <2> QED BY <2>1, <2>4, <2>6, <2>7
<1> QED BY <1>1, BooksInductive, SharesInductive, PTL

(* A projection promises no cause more than a batch of that amount gives   *)
(* it, the one that absorbs the remainder included (pge.py:763-768).       *)
THEOREM ProjectionsAreKept == Spec => []ProjectionIsKept
<1>1. BookInv /\ ShareInv => ProjectionIsKept
  <2> SUFFICES ASSUME BookInv, ShareInv, NEW e \in Engines, BatchDone(e),
                      AllocationTotal(state[e].causes) <= Hundred,
                      NEW i \in Active(state[e].causes)
               PROVE  Breakdown(state[e].causes, job[e].amount)[i]
                        <= Given(e, state[e].causes[i].name)
    BY DEF ProjectionIsKept
  <2>1. PICK cs, a, left : cs = state[e].causes /\ a = job[e].amount /\ left = job[e].left
    OBVIOUS
  <2>2. Splits(cs, a) /\ left = a - SumFunctionOnSet(GiftsOf(cs, a), Active(cs))
    BY <2>1, LoopEnd
  <2>3. Given(e, cs[i].name) = GiftsOf(cs, a)[i]
    BY <2>1, LoopEnd DEF Active
  <2>4. Percent(a, cs[i].pct) <= GiftsOf(cs, a)[i]
    BY <2>1, <2>2, GiftBounds
  <2>5. Breakdown(cs, a)[i] = Percent(a, cs[i].pct)
    BY <2>1 DEF Breakdown
  <2> QED BY <2>1, <2>3, <2>4, <2>5
<1> QED BY <1>1, BooksInductive, SharesInductive, PTL
=============================================================================
