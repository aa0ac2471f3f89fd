---------------------------- MODULE GivingProofs ----------------------------
(***************************************************************************)
(* Proofs about GivingEngine for any processes, causes, amounts, faults    *)
(* and bounds: IndInv is inductive.                                        *)
(***************************************************************************)
EXTENDS GivingSafety, TLAPS

(* Rounding down to cents yields an integer. *)
LEMMA ToCentInt == \A x \in Int : ToCent(x) \in Int
BY CentAssumption DEF ToCent

(* So does taking a percentage. *)
LEMMA PercentInt == \A a, p \in Int : Percent(a, p) \in Int
<1> TAKE a, p \in Int
<1>1. (a * p) \div Hundred \in Int
  BY DEF Hundred
<1> QED BY <1>1, ToCentInt DEF Percent

(* The amount for the cause reached is an integer. *)
LEMMA CauseAmountInt ==
  ASSUME TypeOK, NEW e \in Engines, InLoop(e)
  PROVE  CauseAmount(e) \in Int
<1>1. job[e].left \in Int /\ job[e].amount \in Int
  BY DEF TypeOK, Job
<1>2. state[e].causes \in Seq(Cause)
  BY DEF TypeOK, State
<1>3. Reached(e) \in Cause
  BY <1>2 DEF InLoop, Reached
<1>4. Reached(e).pct \in Int
  BY <1>3 DEF Cause
<1> QED BY <1>1, <1>4, ToCentInt, PercentInt DEF CauseAmount

(* What is left of a sequence when the i-th element is removed. *)
LEMMA RemoveAtProperties ==
  ASSUME NEW S, NEW s \in Seq(S), NEW i \in DOMAIN s
  PROVE  /\ RemoveAt(s, i) \in Seq(S)
         /\ \A j \in DOMAIN RemoveAt(s, i) :
              /\ j < i => j \in DOMAIN s /\ RemoveAt(s, i)[j] = s[j]
              /\ j >= i => j + 1 \in DOMAIN s /\ RemoveAt(s, i)[j] = s[j + 1]
<1> DEFINE a == SubSeq(s, 1, i - 1)
           b == SubSeq(s, i + 1, Len(s))
<1>1. i \in 1 .. Len(s) /\ Len(s) \in Nat
  OBVIOUS
<1>2. a \in Seq(S) /\ Len(a) = i - 1 /\ \A j \in 1 .. i - 1 : a[j] = s[j]
  BY <1>1
<1>3. b \in Seq(S) /\ Len(b) = Len(s) - i /\ \A j \in 1 .. Len(s) - i : b[j] = s[i + j]
  BY <1>1
<1> HIDE DEF a, b
<1>4. /\ a \o b \in Seq(S)
      /\ DOMAIN (a \o b) = 1 .. Len(s) - 1
      /\ \A j \in 1 .. Len(s) - 1 :
           (a \o b)[j] = IF j < i THEN a[j] ELSE b[j - (i - 1)]
  BY <1>1, <1>2, <1>3
<1>5. \A j \in 1 .. Len(s) - 1 :
        /\ j < i => (a \o b)[j] = s[j]
        /\ j >= i => (a \o b)[j] = s[j + 1]
  <2> TAKE j \in 1 .. Len(s) - 1
  <2>1. ASSUME j < i PROVE (a \o b)[j] = s[j]
    <3>1. j \in 1 .. i - 1
      BY <2>1, <1>1
    <3> QED BY <2>1, <3>1, <1>2, <1>4
  <2>2. ASSUME j >= i PROVE (a \o b)[j] = s[j + 1]
    <3>1. j - (i - 1) \in 1 .. Len(s) - i /\ ~(j < i)
      BY <2>2, <1>1
    <3>2. (a \o b)[j] = b[j - (i - 1)]
      BY <3>1, <1>4
    <3>3. b[j - (i - 1)] = s[i + (j - (i - 1))]
      BY <3>1, <1>3
    <3>4. i + (j - (i - 1)) = j + 1
      BY <1>1
    <3> QED BY <3>2, <3>3, <3>4
  <2> QED BY <2>1, <2>2
<1>6. RemoveAt(s, i) = a \o b
  BY DEF RemoveAt, a, b
<1>7. \A j \in 1 .. Len(s) - 1 :
        /\ j < i => j \in DOMAIN s
        /\ j >= i => j + 1 \in DOMAIN s
  BY <1>1
<1> HIDE DEF a, b
<1> QED BY <1>4, <1>5, <1>6, <1>7

-----------------------------------------------------------------------------
(* Types *)

USE DEF engineVars, diskVars, nodeVars, Calling

(* A new engine has a state and no job. *)
LEMMA FreshType == Fresh \in State /\ NoJob \in Job
BY DEF Fresh, Holding, State, NoJob, Job

(* The record of a payment that is due is a record. *)
LEMMA RecordType ==
  ASSUME TypeOK, NEW e \in Engines, Due(e), NEW t \in Nat
  PROVE  NewRecord(e, t) \in Record
<1>1. InLoop(e)
  BY DEF Due
<1>2. CauseAmount(e) \in Nat \ {0}
  BY <1>1, CauseAmountInt DEF Due
<1>3. state[e].causes \in Seq(Cause) /\ job[e].batch \in Nat
  BY DEF TypeOK, State, Job
<1>4. Reached(e) \in Cause
  BY <1>1, <1>3 DEF InLoop, Reached
<1> QED BY <1>2, <1>3, <1>4 DEF NewRecord, Record, Cause

(* A record is appended: the state and the job of e keep their types. *)
LEMMA LogRecordType ==
  ASSUME TypeOK, NEW e \in Engines, Due(e), NEW t \in Nat, LogRecord(e, t)
  PROVE  state' \in [Engines -> State] /\ job' \in [Engines -> Job]
<1> DEFINE r == NewRecord(e, t)
           s == [causes |-> state[e].causes,
                 distributions |-> Append(state[e].distributions, r),
                 total |-> state[e].total + r.amount]
           j == Onward(job[e], r.amount)
<1>1. r \in Record /\ r.amount \in Nat
  BY RecordType DEF Record
<1>2. state' = [state EXCEPT ![e] = s] /\ job' = [job EXCEPT ![e] = j]
  BY DEF LogRecord
<1> HIDE DEF r
<1>3. state[e] \in State /\ job[e] \in Job
  BY DEF TypeOK
<1>4. s \in State
  BY <1>1, <1>3 DEF State
<1>5. j \in Job
  BY <1>1, <1>3 DEF Job, Onward
<1> HIDE DEF s, j
<1> QED BY <1>2, <1>4, <1>5 DEF TypeOK

(* The node pays: its log and its funds keep their types. *)
LEMMA TransferType ==
  ASSUME TypeOK, NEW e \in Engines, Due(e), Transfer(e)
  PROVE  sent' \in Seq(Payment) /\ funds' \in Nat
<1>1. CauseAmount(e) \in Nat \ {0}
  BY CauseAmountInt DEF Due
<1>2. [batch |-> job[e].batch, cause |-> Reached(e).name,
       amount |-> CauseAmount(e)] \in Payment
  BY RecordType DEF NewRecord, Record, Payment
<1>3. sent' \in Seq(Payment)
  BY <1>2 DEF Transfer, TypeOK
<1>4. funds' \in Nat
  BY <1>1 DEF Transfer, TypeOK
<1> QED BY <1>3, <1>4

(* A change of one cause of a registry. *)
LEMMA RegistryUpdate ==
  ASSUME NEW cs \in Seq(Cause), NEW i \in DOMAIN cs
  PROVE  /\ \A p \in 0 .. Hundred : [cs EXCEPT ![i] = Reallocated(@, p)] \in Seq(Cause)
         /\ [cs EXCEPT ![i] = Deactivated(@)] \in Seq(Cause)
<1>1. \A c \in Cause : [cs EXCEPT ![i] = c] \in Seq(Cause)
  OBVIOUS
<1>2. cs[i] \in Cause
  OBVIOUS
<1>3. \A p \in 0 .. Hundred : Reallocated(cs[i], p) \in Cause
  BY <1>2 DEF Reallocated, Cause
<1>4. Deactivated(cs[i]) \in Cause
  BY <1>2 DEF Deactivated, Cause
<1> QED BY <1>1, <1>3, <1>4

(* The registry of e becomes cs, which has its type. *)
LEMMA RegisterType ==
  ASSUME TypeOK, NEW e \in Engines, NEW cs \in Seq(Cause), Register(e, cs)
  PROVE  TypeOK'
<1>1. [state[e] EXCEPT !.causes = cs] \in State
  BY DEF TypeOK, State
<1>2. state' \in [Engines -> State]
  BY <1>1 DEF Register, TypeOK
<1> QED BY <1>2 DEF Register, Call, Goto, TypeOK

(* A call that fails its checks keeps the types. *)
LEMMA RefuseType ==
  ASSUME TypeOK, NEW e \in Engines, Refuse(e)
  PROVE  TypeOK'
BY DEF Refuse, Raise, End, Goto, TypeOK

(* So does the end of a process. *)
LEMMA DownType ==
  ASSUME TypeOK, NEW e \in Engines, Down(e), UNCHANGED <<diskVars, nodeVars, batches>>
  PROVE  TypeOK'
BY FreshType DEF Down, Goto, TypeOK

(* Every step keeps the types: one case for each disjunct of Next. *)
LEMMA TypeStep == TypeOK /\ [Next]_vars => TypeOK'
<1> SUFFICES ASSUME TypeOK, [Next]_vars PROVE TypeOK'
  OBVIOUS
<1>1. CASE UNCHANGED vars
  BY <1>1 DEF vars, TypeOK
<1>2. ASSUME Next PROVE TypeOK'
  <2> PICK e \in Engines :
        \/ \E m \in Modes : Start(e, m)
        \/ Exit(e) \/ Crash(e) \/ LoadState(e) \/ SaveState(e)
        \/ \E n \in Names, p \in Pcts : AddCause(e, n, p) \/ UpdateAllocation(e, n, p)
        \/ \E n \in Names, hard \in BOOLEAN : RemoveCause(e, n, hard)
        \/ \E a \in Amounts : DistributeRefused(e, a) \/ DistributeBegins(e, a)
        \/ Distribute(e)
    BY <1>2 DEF Next
  <2> /\ state[e] \in State /\ job[e] \in Job
      /\ state[e].causes \in Seq(Cause)
      /\ file \in File /\ file.state \in State
    BY DEF TypeOK, State, File
  <2>1. ASSUME NEW m \in Modes, Start(e, m) PROVE TypeOK'
    BY <2>1 DEF Start, Goto, TypeOK
  <2>2. CASE Exit(e) \/ Crash(e)
    BY <2>2, DownType DEF Exit, Crash
  <2>3. CASE LoadAbsent(e)
    BY <2>3 DEF LoadAbsent, End, Goto, TypeOK
  <2>4. CASE LoadSaved(e)
    BY <2>4, FreshType DEF LoadSaved, End, Goto, TypeOK
  <2>5. CASE LoadFails(e)
    <3>1. CASE pc[e] = "booting"
      BY <2>5, <3>1, DownType DEF LoadFails
    <3>2. CASE pc[e] # "booting"
      BY <2>5, <3>2 DEF LoadFails, Raise, End, Goto, TypeOK
    <3> QED BY <3>1, <3>2
  <2>6. CASE SaveOpen(e)
    BY <2>6, FreshType DEF SaveOpen, Unread, File, Goto, TypeOK
  <2>7. CASE SaveOpenFails(e)
    BY <2>7 DEF SaveOpenFails, Raise, End, Goto, TypeOK
  <2>8. CASE SaveDump(e)
    <3>1. file' \in File
      BY <2>8, FreshType DEF SaveDump, Saved, Unread, File
    <3>2. kept' \subseteq Record
      BY <2>8 DEF SaveDump, TypeOK, State, ToSet
    <3> QED BY <2>8, <3>1, <3>2 DEF SaveDump, End, Goto, TypeOK
  <2>9. CASE SaveDumpFails(e)
    <3>1. file' \in File
      BY <2>9, FreshType DEF SaveDumpFails, Unread, File
    <3> QED BY <2>9, <3>1 DEF SaveDumpFails, Raise, End, Goto, TypeOK
  <2>10. ASSUME NEW n \in Names, NEW p \in Pcts, AddCause(e, n, p) PROVE TypeOK'
    <3>1. \A active \in BOOLEAN :
            Append(state[e].causes, [name |-> n, pct |-> p, active |-> active]) \in Seq(Cause)
      BY <2>10 DEF AddCause, ValidPct, Cause
    <3> QED BY <2>10, <3>1, RefuseType, RegisterType DEF AddCause
  <2>11. ASSUME NEW n \in Names, NEW p \in Pcts, UpdateAllocation(e, n, p) PROVE TypeOK'
    <3>1. \A i \in DOMAIN state[e].causes : ValidPct(p) =>
            [state[e].causes EXCEPT ![i] = Reallocated(@, p)] \in Seq(Cause)
      BY RegistryUpdate DEF ValidPct
    <3> QED BY <2>11, <3>1, RefuseType, RegisterType DEF UpdateAllocation, IndexesOf
  <2>12. ASSUME NEW n \in Names, NEW hard \in BOOLEAN, RemoveCause(e, n, hard) PROVE TypeOK'
    <3>1. \A i \in DOMAIN state[e].causes :
            /\ [state[e].causes EXCEPT ![i] = Deactivated(@)] \in Seq(Cause)
            /\ RemoveAt(state[e].causes, i) \in Seq(Cause)
      BY RemoveAtProperties, RegistryUpdate
    <3> QED BY <2>12, <3>1, RefuseType, RegisterType DEF RemoveCause, IndexesOf
  <2>13. ASSUME NEW a \in Amounts, DistributeRefused(e, a) PROVE TypeOK'
    BY <2>13, RefuseType DEF DistributeRefused
  <2>14. ASSUME NEW a \in Amounts, DistributeBegins(e, a) PROVE TypeOK'
    <3>1. [batch |-> batches + 1, amount |-> a, left |-> a, next |-> 1] \in Job
      BY AmountsAssumption DEF Job, TypeOK
    <3> QED BY <2>14, <3>1 DEF DistributeBegins, Call, Goto, TypeOK
  <2>15. CASE SkipCause(e)
    <3>1. Onward(job[e], 0) \in Job
      BY DEF Job, Onward
    <3> QED BY <2>15, <3>1 DEF SkipCause, TypeOK
  <2>16. CASE PayDry(e)
    BY <2>16, LogRecordType DEF PayDry, NoTx, TypeOK
  <2>17. CASE PayLive(e)
    <3>1. Len(sent) + 1 \in Nat
      BY DEF TypeOK
    <3> QED BY <2>17, <3>1, LogRecordType, TransferType DEF PayLive, TypeOK
  <2>18. CASE PayRefused(e)
    BY <2>18 DEF PayRefused, Raise, End, Goto, TypeOK
  <2>19. CASE PayReplyLost(e)
    BY <2>19, TransferType DEF PayReplyLost, Raise, End, Goto, TypeOK
  <2>20. CASE FinishBatch(e)
    BY <2>20 DEF FinishBatch, Goto, TypeOK
  <2> QED BY <2>1, <2>2, <2>3, <2>4, <2>5, <2>6, <2>7, <2>8, <2>9, <2>10, <2>11,
             <2>12, <2>13, <2>14, <2>15, <2>16, <2>17, <2>18, <2>19, <2>20
          DEF LoadState, SaveState, Distribute
<1> QED BY <1>1, <1>2

(* At first every variable has its type. *)
LEMMA TypeInit == Init => TypeOK
<1> SUFFICES ASSUME Init PROVE TypeOK
  OBVIOUS
<1>1. \A cs \in Seeds : Holding(cs) \in State
  BY SeedsAssumption DEF Holding, State
<1>2. file \in File
  BY <1>1, FreshType DEF Init, Saved, Unread, File
<1> QED BY <1>2, FreshType, BoundAssumption DEF Init, TypeOK

(* Type correctness: whatever the processes do and whatever fails, every   *)
(* variable keeps its type; no percentage leaves 0..100 and no record is   *)
(* of a negative amount.                                                   *)
THEOREM TypeCorrect == Spec => []TypeOK
BY TypeInit, TypeStep, PTL DEF Spec

-----------------------------------------------------------------------------
(* The inductive invariant *)

(* A step of the engines that moves no money. *)
NothingPaid ==
  /\ sent' = sent /\ batches' = batches
  /\ \A f \in Engines :
       /\ job'[f].batch \in {0, job[f].batch}
       /\ job'[f].batch # 0 => Unlogged(f)' \subseteq Unlogged(f)
       /\ pc'[f] = "paying" =>
            /\ pc[f] = "paying"
            /\ job'[f].batch = job[f].batch
            /\ job'[f].next >= job[f].next
            /\ state'[f].causes = state[f].causes

(* A step that moves no money keeps the invariant when it keeps registries *)
(* and logs sound.                                                         *)
LEMMA NothingPaidStep ==
  ASSUME IndInv, TypeOK', UniqueCauses', RecordsArePaid', NothingPaid
  PROVE  IndInv'
<1>1. /\ \A f \in Engines : job[f].batch \in Nat /\ job'[f].batch \in Nat
      /\ \A f \in Engines : job[f].next \in Nat /\ job'[f].next \in Nat
      /\ batches \in Nat
  BY DEF IndInv, TypeOK, Job
<1>2. BatchesAreOwned'
  <2>1. \A t \in DOMAIN sent' : sent'[t].batch \in 1 .. batches'
    BY DEF IndInv, BatchesAreOwned, NothingPaid
  <2>2. \A f \in Engines : job'[f].batch <= batches'
    BY <1>1 DEF IndInv, BatchesAreOwned, NothingPaid
  <2>3. \A f, g \in Engines :
          job'[f].batch = job'[g].batch /\ job'[f].batch # 0 => f = g
    BY DEF IndInv, BatchesAreOwned, NothingPaid
  <2>4. ASSUME NEW f \in Engines, pc'[f] = "paying"
        PROVE  /\ job'[f].batch # 0
               /\ \A t \in DOMAIN sent' : sent'[t].batch = job'[f].batch =>
                    \E i \in DOMAIN state'[f].causes :
                       i < job'[f].next /\ state'[f].causes[i].name = sent'[t].cause
    <3>1. /\ pc[f] = "paying" /\ job'[f].batch = job[f].batch
          /\ job'[f].next >= job[f].next /\ state'[f].causes = state[f].causes
          /\ sent' = sent
      BY <2>4 DEF NothingPaid
    <3>2. state[f].causes \in Seq(Cause)
      BY DEF IndInv, TypeOK, State
    <3>3. /\ job[f].batch # 0
          /\ \A t \in DOMAIN sent : sent[t].batch = job[f].batch =>
               \E i \in DOMAIN state[f].causes :
                  i < job[f].next /\ state[f].causes[i].name = sent[t].cause
      BY <3>1 DEF IndInv, BatchesAreOwned
    <3>4. \A i \in DOMAIN state[f].causes : i < job[f].next => i < job'[f].next
      BY <1>1, <3>1, <3>2
    <3> QED BY <3>1, <3>3, <3>4
  <2> QED BY <2>1, <2>2, <2>3, <2>4 DEF BatchesAreOwned
<1>3. PaidOncePerBatch'
  BY DEF IndInv, PaidOncePerBatch, NothingPaid
<1>4. LogKeepsUp'
  <2> SUFFICES ASSUME NEW f \in Engines
               PROVE  /\ pc'[f] = "paying" => Unlogged(f)' = {}
                      /\ \A t \in Unlogged(f)' : \A u \in DOMAIN sent' :
                           sent'[u].batch = job'[f].batch => u <= t
    BY DEF LogKeepsUp
  <2>1. CASE job'[f].batch = 0
    <3>1. \A t \in DOMAIN sent' : sent'[t].batch # job'[f].batch
      BY <2>1, <1>1 DEF IndInv, BatchesAreOwned, NothingPaid
    <3> QED BY <3>1 DEF Unlogged
  <2>2. CASE job'[f].batch # 0
    BY <2>2 DEF IndInv, LogKeepsUp, NothingPaid
  <2> QED BY <2>1, <2>2
<1> QED BY <1>2, <1>3, <1>4 DEF IndInv

(* Steps that only copy, drop or keep registries and logs. *)
LEMMA CopiesKeep ==
  ASSUME IndInv, sent' = sent,
         Logs' \subseteq Logs \cup {<<>>}, Registers' \subseteq Registers \cup {<<>>}
  PROVE  UniqueCauses' /\ RecordsArePaid'
<1>1. UniqueCauses'
  BY DEF IndInv, UniqueCauses
<1>2. Backed(<<>>)
  BY DEF Backed
<1>3. \A log \in Logs \cup {<<>>} : Backed(log)
  BY <1>2 DEF IndInv, RecordsArePaid
<1>4. \A log \in Logs' : Backed(log)'
  BY <1>3 DEF Backed
<1> QED BY <1>1, <1>4 DEF RecordsArePaid

(* A process that ends takes its log and its job with it. *)
LEMMA DownStep ==
  ASSUME IndInv, TypeOK', NEW e \in Engines, Down(e), UNCHANGED <<diskVars, nodeVars, batches>>
  PROVE  IndInv'
<1>1. /\ \A f \in Engines \ {e} : /\ state'[f] = state[f] /\ job'[f] = job[f]
                                  /\ pc'[f] = pc[f]
      /\ state'[e] = Fresh /\ job'[e] = NoJob /\ pc'[e] = "down"
      /\ file' = file /\ sent' = sent /\ batches' = batches
  BY DEF Down, Goto, IndInv, TypeOK
<1>2. Fresh.causes = <<>> /\ Fresh.distributions = <<>> /\ NoJob.batch = 0
  BY DEF Fresh, Holding, NoJob
<1>3. Logs' \subseteq Logs \cup {<<>>} /\ Registers' \subseteq Registers \cup {<<>>}
  BY <1>1, <1>2 DEF Logs, Registers
<1>4. \A f \in Engines \ {e} : Unlogged(f)' = Unlogged(f)
  BY <1>1 DEF Unlogged
<1>5. NothingPaid
  <2>1. \A f \in Engines : job[f].next \in Nat
    BY DEF IndInv, TypeOK, Job
  <2> QED BY <1>1, <1>2, <1>4, <2>1 DEF NothingPaid
<1> QED BY <1>1, <1>3, <1>5, CopiesKeep, NothingPaidStep

(* A step that changes no engine's state; the file may become a copy of one. *)
SameState ==
  /\ state' = state /\ sent' = sent /\ batches' = batches
  /\ file'.state \in {file.state, Fresh} \cup {state[f] : f \in Engines}
  /\ \A f \in Engines :
       /\ job'[f].batch = job[f].batch /\ job'[f].next >= job[f].next
       /\ pc'[f] = "paying" => pc[f] = "paying"

(* A step that changes no log and no registry in memory. *)
LEMMA SameStateStep ==
  ASSUME IndInv, TypeOK', SameState
  PROVE  IndInv'
<1>1. Fresh.causes = <<>> /\ Fresh.distributions = <<>>
  BY DEF Fresh, Holding
<1>2. Logs' \subseteq Logs \cup {<<>>} /\ Registers' \subseteq Registers \cup {<<>>}
  BY <1>1 DEF SameState, Logs, Registers
<1>3. \A f \in Engines : Unlogged(f)' = Unlogged(f)
  BY DEF SameState, Unlogged
<1>4. NothingPaid
  BY <1>3 DEF SameState, NothingPaid
<1> QED BY <1>2, <1>4, CopiesKeep, NothingPaidStep DEF SameState

(* The jobs keep their places when job is left alone. *)
LEMMA SameJob ==
  ASSUME TypeOK, job' = job
  PROVE  \A f \in Engines : job'[f].batch = job[f].batch /\ job'[f].next >= job[f].next
BY DEF TypeOK, Job

(* load_state copies the log and the registry of the file. *)
LEMMA LoadSavedStep ==
  ASSUME IndInv, TypeOK', NEW e \in Engines, LoadSaved(e)
  PROVE  IndInv'
<1>1. /\ \A f \in Engines \ {e} : /\ state'[f] = state[f] /\ job'[f] = job[f]
                                  /\ pc'[f] = pc[f]
      /\ state'[e] = file.state /\ job'[e].batch = 0 /\ pc'[e] = "idle"
      /\ file' = file /\ sent' = sent /\ batches' = batches
  BY DEF LoadSaved, End, Goto, IndInv, TypeOK, NoJob
<1>2. Logs' \subseteq Logs /\ Registers' \subseteq Registers
  BY <1>1 DEF Logs, Registers
<1>3. \A f \in Engines \ {e} : Unlogged(f)' = Unlogged(f)
  BY <1>1 DEF Unlogged
<1>4. NothingPaid
  <2>1. \A f \in Engines : job[f].next \in Nat
    BY DEF IndInv, TypeOK, Job
  <2> QED BY <1>1, <1>3, <2>1 DEF NothingPaid
<1> QED BY <1>1, <1>2, <1>4, CopiesKeep, NothingPaidStep

(* A registry of distinct names takes the place of the one of e. *)
LEMMA RegisterStep ==
  ASSUME IndInv, TypeOK', NEW e \in Engines, NEW cs, Register(e, cs),
         \A i, j \in DOMAIN cs : cs[i].name = cs[j].name => i = j
  PROVE  IndInv'
<1>1. /\ \A f \in Engines \ {e} : state'[f] = state[f] /\ pc'[f] = pc[f]
      /\ state'[e].causes = cs
      /\ state'[e].distributions = state[e].distributions
      /\ pc'[e] = "saving"
      /\ job' = job /\ file' = file /\ sent' = sent /\ batches' = batches
  BY DEF Register, Call, Goto, IndInv, TypeOK, State
<1>2. Logs' \subseteq Logs /\ Registers' \subseteq Registers \cup {cs}
  BY <1>1 DEF Logs, Registers
<1>3. UniqueCauses'
  BY <1>2 DEF IndInv, UniqueCauses
<1>4. RecordsArePaid'
  <2>1. \A log \in Logs' : Backed(log)'
    BY <1>1, <1>2 DEF IndInv, RecordsArePaid, Backed
  <2> QED BY <2>1 DEF RecordsArePaid
<1>5. \A f \in Engines : Unlogged(f)' = Unlogged(f)
  BY <1>1 DEF Unlogged
<1>6. NothingPaid
  <2>1. \A f \in Engines : job[f].next \in Nat
    BY DEF IndInv, TypeOK, Job
  <2> QED BY <1>1, <1>5, <2>1 DEF NothingPaid
<1> QED BY <1>3, <1>4, <1>6, NothingPaidStep

(* What the invariant says of the registry of one engine. *)
LEMMA NamesOf ==
  ASSUME IndInv, NEW e \in Engines
  PROVE  /\ state[e].causes \in Seq(Cause)
         /\ \A i, j \in DOMAIN state[e].causes :
              state[e].causes[i].name = state[e].causes[j].name => i = j
BY DEF IndInv, TypeOK, State, UniqueCauses, Registers

(* add_cause appends a name that the registry does not hold. *)
LEMMA AddCauseStep ==
  ASSUME IndInv, TypeOK', NEW e \in Engines, NEW n \in Names, NEW p \in Pcts,
         NEW active \in BOOLEAN, IndexesOf(state[e].causes, n) = {},
         Register(e, Append(state[e].causes, [name |-> n, pct |-> p, active |-> active]))
  PROVE  IndInv'
<1> DEFINE cs == state[e].causes
           c  == [name |-> n, pct |-> p, active |-> active]
           ds == Append(cs, c)
<1>1. cs \in Seq(Cause) /\ \A i, j \in DOMAIN cs : cs[i].name = cs[j].name => i = j
  BY NamesOf
<1>2. c.name = n /\ \A i \in DOMAIN cs : cs[i].name # n
  BY DEF IndexesOf
<1> HIDE DEF c, cs
<1>3. /\ DOMAIN ds = 1 .. Len(cs) + 1 /\ DOMAIN cs = 1 .. Len(cs) /\ Len(cs) \in Nat
      /\ \A i \in 1 .. Len(cs) : ds[i] = cs[i]
      /\ ds[Len(cs) + 1] = c
  BY <1>1
<1>4. \A i, j \in DOMAIN ds : ds[i].name = ds[j].name => i = j
  <2> TAKE i, j \in DOMAIN ds
  <2>1. i \in DOMAIN cs \/ i = Len(cs) + 1
    BY <1>3
  <2>2. j \in DOMAIN cs \/ j = Len(cs) + 1
    BY <1>3
  <2> QED BY <2>1, <2>2, <1>1, <1>2, <1>3
<1>5. Register(e, ds)
  BY DEF cs, c
<1> QED BY <1>4, <1>5, RegisterStep

(* update_cause_allocation keeps the names. *)
LEMMA UpdateAllocationStep ==
  ASSUME IndInv, TypeOK', NEW e \in Engines, NEW p \in Pcts, NEW i \in DOMAIN state[e].causes,
         Register(e, [state[e].causes EXCEPT ![i] = Reallocated(@, p)])
  PROVE  IndInv'
<1> DEFINE cs == state[e].causes
           ds == [cs EXCEPT ![i] = Reallocated(@, p)]
<1>1. cs \in Seq(Cause) /\ \A j, k \in DOMAIN cs : cs[j].name = cs[k].name => j = k
  BY NamesOf
<1>2. DOMAIN ds = DOMAIN cs /\ \A j \in DOMAIN cs : ds[j].name = cs[j].name
  BY <1>1 DEF Reallocated
<1>3. \A j, k \in DOMAIN ds : ds[j].name = ds[k].name => j = k
  BY <1>1, <1>2
<1> HIDE DEF ds
<1>4. Register(e, ds)
  BY DEF ds
<1> QED BY <1>3, <1>4, RegisterStep

(* remove_cause drops a name or keeps them all. *)
LEMMA RemoveCauseStep ==
  ASSUME IndInv, TypeOK', NEW e \in Engines, NEW hard \in BOOLEAN,
         NEW i \in DOMAIN state[e].causes,
         Register(e, IF hard THEN RemoveAt(state[e].causes, i)
                             ELSE [state[e].causes EXCEPT ![i] = Deactivated(@)])
  PROVE  IndInv'
<1> DEFINE cs == state[e].causes
           gone == RemoveAt(cs, i)
           off == [cs EXCEPT ![i] = Deactivated(@)]
<1>1. cs \in Seq(Cause) /\ \A j, k \in DOMAIN cs : cs[j].name = cs[k].name => j = k
  BY NamesOf
<1>2. CASE hard
  <2>1. /\ gone \in Seq(Cause)
        /\ \A j \in DOMAIN gone :
             /\ j < i => j \in DOMAIN cs /\ gone[j] = cs[j]
             /\ j >= i => j + 1 \in DOMAIN cs /\ gone[j] = cs[j + 1]
    BY <1>1, RemoveAtProperties
  <2>2. i \in Nat /\ \A j \in DOMAIN gone : j \in Nat
    BY <1>1, <2>1
  <2> HIDE DEF gone
  <2>3. \A j, k \in DOMAIN gone : gone[j].name = gone[k].name => j = k
    <3> SUFFICES ASSUME NEW j \in DOMAIN gone, NEW k \in DOMAIN gone,
                        gone[j].name = gone[k].name
                 PROVE  j = k
      OBVIOUS
    <3>1. CASE j < i /\ k < i
      BY <3>1, <2>1, <1>1
    <3>2. CASE j < i /\ k >= i
      <4>1. j = k + 1
        BY <3>2, <2>1, <1>1
      <4> QED BY <3>2, <4>1, <2>2, <1>1
    <3>3. CASE j >= i /\ k < i
      <4>1. j + 1 = k
        BY <3>3, <2>1, <1>1
      <4> QED BY <3>3, <4>1, <2>2, <1>1
    <3>4. CASE j >= i /\ k >= i
      <4>1. j + 1 = k + 1
        BY <3>4, <2>1, <1>1
      <4> QED BY <4>1, <2>2
    <3> QED BY <3>1, <3>2, <3>3, <3>4, <2>2
  <2>4. Register(e, gone)
    BY <1>2 DEF gone
  <2> QED BY <2>3, <2>4, RegisterStep
<1>3. CASE ~hard
  <2>1. DOMAIN off = DOMAIN cs /\ \A j \in DOMAIN cs : off[j].name = cs[j].name
    BY <1>1 DEF Deactivated
  <2>2. \A j, k \in DOMAIN off : off[j].name = off[k].name => j = k
    BY <1>1, <2>1
  <2> HIDE DEF off
  <2>3. Register(e, off)
    BY <1>3 DEF off
  <2> QED BY <2>2, <2>3, RegisterStep
<1> QED BY <1>2, <1>3

(* A batch begins: it is new, so nothing has been paid for it. *)
LEMMA DistributeBeginsStep ==
  ASSUME IndInv, TypeOK', NEW e \in Engines, NEW a \in Amounts, DistributeBegins(e, a)
  PROVE  IndInv'
<1>1. /\ \A f \in Engines \ {e} : job'[f] = job[f] /\ pc'[f] = pc[f]
      /\ job'[e].batch = batches + 1
      /\ state' = state /\ file' = file /\ sent' = sent /\ batches' = batches + 1
  BY DEF DistributeBegins, Call, Goto, IndInv, TypeOK
<1>2. /\ batches \in Nat
      /\ \A f \in Engines : job[f].batch \in Nat /\ job[f].batch <= batches
      /\ \A t \in DOMAIN sent : sent[t].batch \in 1 .. batches
  BY DEF IndInv, TypeOK, Job, BatchesAreOwned
<1>3. UniqueCauses' /\ RecordsArePaid'
  <2>1. Logs' = Logs /\ Registers' = Registers
    BY <1>1 DEF Logs, Registers
  <2> QED BY <2>1, <1>1, CopiesKeep
<1>4. \A t \in DOMAIN sent : sent[t].batch # batches + 1
  BY <1>2
<1>5. BatchesAreOwned'
  <2>1. \A t \in DOMAIN sent' : sent'[t].batch \in 1 .. batches'
    BY <1>1, <1>2
  <2>2. \A f \in Engines : job'[f].batch <= batches'
    BY <1>1, <1>2
  <2>3. \A f, g \in Engines :
          job'[f].batch = job'[g].batch /\ job'[f].batch # 0 => f = g
    <3>1. \A f \in Engines \ {e} : job'[f].batch # batches + 1
      BY <1>1, <1>2
    <3>2. \A f, g \in Engines \ {e} :
            job'[f].batch = job'[g].batch /\ job'[f].batch # 0 => f = g
      BY <1>1 DEF IndInv, BatchesAreOwned
    <3> QED BY <3>1, <3>2, <1>1
  <2>4. ASSUME NEW f \in Engines, pc'[f] = "paying"
        PROVE  /\ job'[f].batch # 0
               /\ \A t \in DOMAIN sent' : sent'[t].batch = job'[f].batch =>
                    \E i \in DOMAIN state'[f].causes :
                       i < job'[f].next /\ state'[f].causes[i].name = sent'[t].cause
    <3>1. CASE f = e
      BY <3>1, <1>1, <1>2, <1>4
    <3>2. CASE f # e
      BY <2>4, <3>2, <1>1 DEF IndInv, BatchesAreOwned
    <3> QED BY <3>1, <3>2
  <2> QED BY <2>1, <2>2, <2>3, <2>4 DEF BatchesAreOwned
<1>6. PaidOncePerBatch'
  BY <1>1 DEF IndInv, PaidOncePerBatch
<1>7. LogKeepsUp'
  <2>1. Unlogged(e)' = {}
    BY <1>1, <1>4 DEF Unlogged
  <2>2. \A f \in Engines \ {e} : Unlogged(f)' = Unlogged(f)
    BY <1>1 DEF Unlogged
  <2> QED BY <2>1, <2>2, <1>1 DEF IndInv, LogKeepsUp
<1> QED BY <1>3, <1>5, <1>6, <1>7 DEF IndInv

(* What is common to the two outcomes of a payment that is made. *)
LEMMA TransferStep ==
  ASSUME IndInv, TypeOK', NEW e \in Engines, Due(e), Transfer(e),
         batches' = batches,
         \A f \in Engines : state'[f].causes = state[f].causes,
         \A f \in Engines : job'[f].batch = job[f].batch,
         \A f \in Engines \ {e} : /\ job'[f].next = job[f].next
                                  /\ pc'[f] = pc[f],
         pc'[e] = "paying" => job'[e].next = job[e].next + 1,
         file' = file
  PROVE  /\ DOMAIN sent' = DOMAIN sent \cup {Len(sent) + 1}
         /\ Len(sent) + 1 \notin DOMAIN sent
         /\ \A t \in DOMAIN sent : sent'[t] = sent[t] /\ t <= Len(sent) + 1
         /\ sent'[Len(sent) + 1] =
              [batch |-> job[e].batch, cause |-> Reached(e).name, amount |-> CauseAmount(e)]
         /\ UniqueCauses' /\ BatchesAreOwned' /\ PaidOncePerBatch'
<1> DEFINE new == Len(sent) + 1
           p == [batch |-> job[e].batch, cause |-> Reached(e).name, amount |-> CauseAmount(e)]
<1>1. /\ DOMAIN sent' = DOMAIN sent \cup {new}
      /\ new \notin DOMAIN sent
      /\ \A t \in DOMAIN sent : sent'[t] = sent[t] /\ t <= new
      /\ sent'[new] = p
  <2>1. sent \in Seq(Payment) /\ sent' = Append(sent, p)
    BY DEF IndInv, TypeOK, Transfer
  <2> HIDE DEF p
  <2>2. DOMAIN sent = 1 .. Len(sent) /\ Len(sent) \in Nat
    BY <2>1
  <2> QED BY <2>1, <2>2
<1> HIDE DEF new
<1>2. /\ pc[e] = "paying" /\ job[e].next \in DOMAIN state[e].causes
      /\ Reached(e) = state[e].causes[job[e].next]
  BY DEF Due, InLoop, Reached
<1>3. p.batch = job[e].batch /\ p.cause = state[e].causes[job[e].next].name
  BY <1>2
<1> HIDE DEF p
<1>4. /\ batches \in Nat
      /\ \A f \in Engines : /\ job[f].batch \in Nat /\ job[f].batch <= batches
                            /\ job[f].next \in Nat
      /\ job[e].batch # 0
  BY <1>2 DEF IndInv, TypeOK, Job, BatchesAreOwned
<1>5. UniqueCauses'
  <2>1. Registers' = Registers
    BY DEF Registers
  <2> QED BY <2>1 DEF IndInv, UniqueCauses
<1>6. BatchesAreOwned'
  <2>1. \A t \in DOMAIN sent' : sent'[t].batch \in 1 .. batches'
    <3>1. \A t \in DOMAIN sent : sent[t].batch \in 1 .. batches
      BY DEF IndInv, BatchesAreOwned
    <3>2. p.batch \in 1 .. batches
      BY <1>3, <1>4
    <3> QED BY <3>1, <3>2, <1>1
  <2>2. \A f \in Engines : job'[f].batch <= batches'
    BY <1>4
  <2>3. \A f, g \in Engines :
          job'[f].batch = job'[g].batch /\ job'[f].batch # 0 => f = g
    BY DEF IndInv, BatchesAreOwned
  <2>4. ASSUME NEW f \in Engines, pc'[f] = "paying"
        PROVE  /\ job'[f].batch # 0
               /\ \A t \in DOMAIN sent' : sent'[t].batch = job'[f].batch =>
                    \E i \in DOMAIN state'[f].causes :
                       i < job'[f].next /\ state'[f].causes[i].name = sent'[t].cause
    <3>1. pc[f] = "paying"
      BY <2>4, <1>2
    <3>2. /\ job[f].batch # 0
          /\ \A t \in DOMAIN sent : sent[t].batch = job[f].batch =>
               \E i \in DOMAIN state[f].causes :
                  i < job[f].next /\ state[f].causes[i].name = sent[t].cause
      BY <3>1 DEF IndInv, BatchesAreOwned
    <3>3. CASE f = e
      <4>1. job'[e].next = job[e].next + 1
        BY <2>4, <3>3
      <4>2. \A i \in DOMAIN state[e].causes : i < job[e].next => i < job'[e].next
        <5>1. state[e].causes \in Seq(Cause)
          BY DEF IndInv, TypeOK, State
        <5> QED BY <4>1, <5>1, <1>4
      <4>3. job[e].next < job'[e].next
        BY <4>1, <1>4
      <4> QED BY <3>2, <3>3, <4>2, <4>3, <1>1, <1>2, <1>3
    <3>4. CASE f # e
      <4>1. job[f].batch # job[e].batch
        BY <3>2, <3>4 DEF IndInv, BatchesAreOwned
      <4> QED BY <3>2, <3>4, <4>1, <1>1, <1>3
    <3> QED BY <3>3, <3>4
  <2> QED BY <2>1, <2>2, <2>3, <2>4 DEF BatchesAreOwned
<1>7. PaidOncePerBatch'
  <2>1. \A t \in DOMAIN sent : ~(sent[t].batch = p.batch /\ sent[t].cause = p.cause)
    <3> SUFFICES ASSUME NEW t \in DOMAIN sent,
                        sent[t].batch = p.batch, sent[t].cause = p.cause
                 PROVE  FALSE
      OBVIOUS
    <3>1. PICK i \in DOMAIN state[e].causes :
            i < job[e].next /\ state[e].causes[i].name = sent[t].cause
      BY <1>2, <1>3 DEF IndInv, BatchesAreOwned
    <3>2. i = job[e].next
      BY <3>1, <1>2, <1>3, NamesOf
    <3> QED BY <3>1, <3>2, <1>4
  <2> QED BY <2>1, <1>1 DEF IndInv, PaidOncePerBatch
<1> QED BY <1>1, <1>5, <1>6, <1>7 DEF new, p

(* A record is appended to the log of e. *)
LEMMA LogRecordEffect ==
  ASSUME IndInv, NEW e \in Engines, Due(e), NEW t \in Nat, LogRecord(e, t)
  PROVE  /\ \A f \in Engines \ {e} : state'[f] = state[f] /\ job'[f] = job[f]
         /\ state'[e].causes = state[e].causes
         /\ state'[e].distributions = Append(state[e].distributions, NewRecord(e, t))
         /\ job'[e].batch = job[e].batch
         /\ job'[e].next = job[e].next + 1
<1> DEFINE r == NewRecord(e, t)
           s == [causes |-> state[e].causes,
                 distributions |-> Append(state[e].distributions, r),
                 total |-> state[e].total + r.amount]
           j == Onward(job[e], r.amount)
<1>1. state' = [state EXCEPT ![e] = s] /\ job' = [job EXCEPT ![e] = j]
  BY DEF LogRecord
<1> HIDE DEF r
<1>2. /\ s.causes = state[e].causes
      /\ s.distributions = Append(state[e].distributions, r)
      /\ j.batch = job[e].batch /\ j.next = job[e].next + 1
  BY DEF Onward
<1> HIDE DEF s, j
<1>3. \A f \in Engines \ {e} : state'[f] = state[f] /\ job'[f] = job[f]
  BY <1>1 DEF IndInv, TypeOK
<1>4. state'[e] = s /\ job'[e] = j
  BY <1>1 DEF IndInv, TypeOK
<1> QED BY <1>2, <1>3, <1>4 DEF r

(* A log that grows by one record stays backed, and misses nothing new. *)
LEMMA AppendBacked ==
  ASSUME NEW log \in Seq(Record), Backed(log)', NEW r \in Record,
         NEW new, new = Append(log, r),
         r.txid # NoTx =>
           /\ r.txid \in DOMAIN sent'
           /\ sent'[r.txid] = [batch |-> r.batch, cause |-> r.cause, amount |-> r.amount]
           /\ ~Logged(log, r.txid)
  PROVE  /\ Backed(new)'
         /\ \A t : Logged(new, t) <=> Logged(log, t) \/ t = r.txid
<1>1. /\ DOMAIN new = 1 .. Len(log) + 1 /\ DOMAIN log = 1 .. Len(log) /\ Len(log) \in Nat
      /\ \A i \in 1 .. Len(log) : new[i] = log[i]
      /\ new[Len(log) + 1] = r
  OBVIOUS
<1>2. \A i \in DOMAIN new :
        (i \in DOMAIN log /\ new[i] = log[i]) \/ (i = Len(log) + 1 /\ new[i] = r)
  BY <1>1
<1>3. \A t : Logged(new, t) <=> Logged(log, t) \/ t = r.txid
  BY <1>1, <1>2 DEF Logged
<1>4. \A i \in DOMAIN new : new[i].txid # NoTx =>
        /\ new[i].txid \in DOMAIN sent'
        /\ sent'[new[i].txid] = [batch |-> new[i].batch, cause |-> new[i].cause,
                                 amount |-> new[i].amount]
  BY <1>2 DEF Backed
<1>5. \A i, j \in DOMAIN new :
        new[i].txid # NoTx /\ new[i].txid = new[j].txid => i = j
  <2> SUFFICES ASSUME NEW i \in DOMAIN new, NEW j \in DOMAIN new,
                      new[i].txid # NoTx, new[i].txid = new[j].txid
               PROVE  i = j
    OBVIOUS
  <2>1. CASE i \in DOMAIN log /\ new[i] = log[i] /\ j \in DOMAIN log /\ new[j] = log[j]
    BY <2>1 DEF Backed
  <2>2. CASE i = Len(log) + 1 /\ new[i] = r /\ j \in DOMAIN log /\ new[j] = log[j]
    BY <2>2 DEF Logged
  <2>3. CASE j = Len(log) + 1 /\ new[j] = r /\ i \in DOMAIN log /\ new[i] = log[i]
    BY <2>3 DEF Logged
  <2> QED BY <2>1, <2>2, <2>3, <1>2
<1>6. Backed(new)'
  BY <1>4, <1>5 DEF Backed
<1> QED BY <1>3, <1>6

(* A simulated payment adds a record without a txid. *)
LEMMA PayDryStep ==
  ASSUME IndInv, TypeOK', NEW e \in Engines, PayDry(e)
  PROVE  IndInv'
<1>1. /\ Due(e) /\ LogRecord(e, NoTx) /\ NoTx \in Nat
      /\ pc' = pc /\ file' = file /\ sent' = sent /\ batches' = batches
  BY DEF PayDry, NoTx
<1>2. /\ \A f \in Engines \ {e} : state'[f] = state[f] /\ job'[f] = job[f]
      /\ state'[e].causes = state[e].causes
      /\ state'[e].distributions = Append(state[e].distributions, NewRecord(e, NoTx))
      /\ job'[e].batch = job[e].batch
      /\ job'[e].next = job[e].next + 1
  BY <1>1, LogRecordEffect
<1>3. PICK r \in Record : r = NewRecord(e, NoTx) /\ r.txid = NoTx
  BY <1>1, RecordType DEF IndInv, NewRecord
<1>4. \A log \in Logs : Backed(log)'
  BY <1>1 DEF IndInv, RecordsArePaid, Backed
<1>5. state[e].distributions \in Seq(Record) /\ state[e].distributions \in Logs
  BY DEF IndInv, TypeOK, State, Logs
<1>6. PICK log, new : /\ log = state[e].distributions /\ new = Append(log, r)
                      /\ log \in Seq(Record) /\ log \in Logs
  BY <1>5
<1>a. /\ Backed(new)'
      /\ \A t : Logged(log, t) => Logged(new, t)
  BY <1>3, <1>4, <1>6, AppendBacked
<1>b. state'[e].distributions = new
  BY <1>2, <1>3, <1>6
<1>7. UniqueCauses'
  <2>1. Registers' = Registers
    BY <1>1, <1>2 DEF Registers
  <2> QED BY <2>1 DEF IndInv, UniqueCauses
<1>8. RecordsArePaid'
  <2>1. Logs' \subseteq Logs \cup {new}
    BY <1>1, <1>2, <1>b DEF Logs
  <2> QED BY <2>1, <1>4, <1>a DEF RecordsArePaid
<1>9. NothingPaid
  <2>1. \A f \in Engines : job[f].next \in Nat
    BY DEF IndInv, TypeOK, Job
  <2>2. \A f \in Engines : Unlogged(f)' \subseteq Unlogged(f)
    <3>1. Unlogged(e)' \subseteq Unlogged(e)
      BY <1>1, <1>2, <1>6, <1>a, <1>b DEF Unlogged
    <3>2. \A f \in Engines \ {e} : Unlogged(f)' = Unlogged(f)
      BY <1>1, <1>2 DEF Unlogged
    <3> QED BY <3>1, <3>2
  <2> QED BY <1>1, <1>2, <2>1, <2>2 DEF NothingPaid
<1> QED BY <1>7, <1>8, <1>9, NothingPaidStep

(* The other logs stay backed when the node makes a payment. *)
LEMMA BackedGrows ==
  ASSUME NEW log, Backed(log), NEW n, DOMAIN sent' = DOMAIN sent \cup {n},
         \A t \in DOMAIN sent : sent'[t] = sent[t]
  PROVE  Backed(log)'
BY DEF Backed

(* A payment and its record: the txid is new, and so is the batch's cause. *)
LEMMA PayLiveStep ==
  ASSUME IndInv, TypeOK', NEW e \in Engines, PayLive(e)
  PROVE  IndInv'
<1> DEFINE new == Len(sent) + 1
<1>1. /\ Due(e) /\ Transfer(e) /\ LogRecord(e, new) /\ new \in Nat /\ new # NoTx
      /\ pc' = pc /\ file' = file /\ batches' = batches
  BY DEF PayLive, IndInv, TypeOK, NoTx
<1>2. /\ \A f \in Engines \ {e} : state'[f] = state[f] /\ job'[f] = job[f]
      /\ state'[e].causes = state[e].causes
      /\ state'[e].distributions = Append(state[e].distributions, NewRecord(e, new))
      /\ job'[e].batch = job[e].batch
      /\ job'[e].next = job[e].next + 1
  BY <1>1, LogRecordEffect
<1>3. PICK r \in Record :
        /\ r = NewRecord(e, new) /\ r.txid = new /\ r.batch = job[e].batch
        /\ r.cause = Reached(e).name /\ r.amount = CauseAmount(e)
  BY <1>1, RecordType DEF IndInv, NewRecord
<1>4. /\ DOMAIN sent' = DOMAIN sent \cup {new} /\ new \notin DOMAIN sent
      /\ \A t \in DOMAIN sent : sent'[t] = sent[t] /\ t <= new
      /\ sent'[new] =
           [batch |-> job[e].batch, cause |-> Reached(e).name, amount |-> CauseAmount(e)]
      /\ UniqueCauses' /\ BatchesAreOwned' /\ PaidOncePerBatch'
  <2>1. \A f \in Engines : /\ state'[f].causes = state[f].causes
                         /\ job'[f].batch = job[f].batch
    BY <1>2
  <2> QED BY <1>1, <1>2, <2>1, TransferStep
<1> HIDE DEF new
<1>5. \A log \in Logs : Backed(log) /\ Backed(log)' /\ ~Logged(log, new)
  <2>1. \A log \in Logs : Backed(log)
    BY DEF IndInv, RecordsArePaid
  <2>2. \A log \in Logs : Backed(log)'
    BY <2>1, <1>4, BackedGrows
  <2>3. ASSUME NEW log \in Logs PROVE ~Logged(log, new)
    <3>1. \A i \in DOMAIN log : log[i].txid # NoTx => log[i].txid \in DOMAIN sent
      BY <2>1 DEF Backed
    <3> QED BY <3>1, <1>1, <1>4 DEF Logged
  <2> QED BY <2>1, <2>2, <2>3
<1>6. state[e].distributions \in Seq(Record) /\ state[e].distributions \in Logs
  BY DEF IndInv, TypeOK, State, Logs
<1>7. PICK log, grown : /\ log = state[e].distributions /\ grown = Append(log, r)
                        /\ log \in Seq(Record) /\ log \in Logs
  BY <1>6
<1>a. /\ Backed(grown)'
      /\ \A t : Logged(grown, t) <=> Logged(log, t) \/ t = new
  <2>1. /\ r.txid \in DOMAIN sent'
        /\ sent'[r.txid] = [batch |-> r.batch, cause |-> r.cause, amount |-> r.amount]
        /\ ~Logged(log, r.txid)
    BY <1>3, <1>4, <1>5, <1>7
  <2> QED BY <2>1, <1>3, <1>5, <1>7, AppendBacked
<1>b. state'[e].distributions = grown
  BY <1>2, <1>3, <1>7
<1>8. RecordsArePaid'
  <2>1. Logs' \subseteq Logs \cup {grown}
    BY <1>1, <1>2, <1>b DEF Logs
  <2> QED BY <2>1, <1>5, <1>a DEF RecordsArePaid
<1>9. LogKeepsUp'
  <2>1. pc[e] = "paying" /\ job[e].batch # 0
    BY <1>1 DEF Due, InLoop, IndInv, BatchesAreOwned
  <2>2. Unlogged(e)' = {}
    <3>1. Unlogged(e) = {}
      BY <2>1 DEF IndInv, LogKeepsUp
    <3> QED BY <3>1, <1>2, <1>4, <1>7, <1>a, <1>b DEF Unlogged
  <2>3. ASSUME NEW f \in Engines \ {e}
        PROVE  /\ pc'[f] = "paying" => Unlogged(f)' = {}
               /\ \A t \in Unlogged(f)' : \A u \in DOMAIN sent' :
                    sent'[u].batch = job'[f].batch => u <= t
    <3>1. job[f].batch # job[e].batch
      BY <2>1 DEF IndInv, BatchesAreOwned
    <3>2. Unlogged(f)' = Unlogged(f)
      BY <3>1, <1>2, <1>4 DEF Unlogged
    <3> QED BY <3>1, <3>2, <1>1, <1>2, <1>4 DEF IndInv, LogKeepsUp
  <2> QED BY <2>2, <2>3 DEF LogKeepsUp
<1> QED BY <1>4, <1>8, <1>9 DEF IndInv

(* A payment without a record: the loop ends, so it stays the only one. *)
LEMMA PayReplyLostStep ==
  ASSUME IndInv, TypeOK', NEW e \in Engines, PayReplyLost(e)
  PROVE  IndInv'
<1> DEFINE new == Len(sent) + 1
<1>1. /\ Due(e) /\ Transfer(e)
      /\ state' = state /\ job' = job /\ pc'[e] = "idle"
      /\ \A f \in Engines \ {e} : pc'[f] = pc[f]
      /\ file' = file /\ batches' = batches
  BY DEF PayReplyLost, Raise, End, Goto, IndInv, TypeOK
<1>2. /\ DOMAIN sent' = DOMAIN sent \cup {new} /\ new \notin DOMAIN sent
      /\ \A t \in DOMAIN sent : sent'[t] = sent[t] /\ t <= new
      /\ sent'[new] =
           [batch |-> job[e].batch, cause |-> Reached(e).name, amount |-> CauseAmount(e)]
      /\ UniqueCauses' /\ BatchesAreOwned' /\ PaidOncePerBatch'
  BY <1>1, TransferStep
<1>3. new <= new
  BY DEF IndInv, TypeOK
<1> HIDE DEF new
<1>4. RecordsArePaid'
  <2>1. Logs' = Logs
    BY <1>1 DEF Logs
  <2>2. \A log \in Logs : Backed(log)'
    BY <1>2, BackedGrows DEF IndInv, RecordsArePaid
  <2> QED BY <2>1, <2>2 DEF RecordsArePaid
<1>5. LogKeepsUp'
  <2>1. pc[e] = "paying" /\ job[e].batch # 0
    BY <1>1 DEF Due, InLoop, IndInv, BatchesAreOwned
  <2>2. \A t \in Unlogged(e)' : t = new
    BY <2>1, <1>1, <1>2 DEF IndInv, LogKeepsUp, Unlogged
  <2>3. ASSUME NEW f \in Engines \ {e}
        PROVE  /\ pc'[f] = "paying" => Unlogged(f)' = {}
               /\ \A t \in Unlogged(f)' : \A u \in DOMAIN sent' :
                    sent'[u].batch = job'[f].batch => u <= t
    <3>1. job[f].batch # job[e].batch
      BY <2>1 DEF IndInv, BatchesAreOwned
    <3>2. Unlogged(f)' = Unlogged(f)
      BY <3>1, <1>1, <1>2 DEF Unlogged
    <3> QED BY <3>1, <3>2, <1>1, <1>2 DEF IndInv, LogKeepsUp
  <2>4. \A u \in DOMAIN sent' : u <= new
    BY <1>2, <1>3
  <2> QED BY <2>2, <2>3, <2>4, <1>1 DEF LogKeepsUp
<1> QED BY <1>2, <1>4, <1>5 DEF IndInv

(* Every step keeps the invariant: one case for each disjunct of Next. *)
LEMMA IndStep == IndInv /\ [Next]_vars => IndInv'
<1> SUFFICES ASSUME IndInv, [Next]_vars PROVE IndInv'
  OBVIOUS
<1> TypeOK /\ TypeOK'
  BY TypeStep DEF IndInv
<1> Unread("empty").state = Fresh /\ Unread("garbled").state = Fresh
  BY DEF Unread
<1> \A f \in Engines : /\ job[f].next \in Nat
                     /\ job'[f].batch \in Nat /\ job'[f].next \in Nat
  BY DEF TypeOK, Job
<1>1. CASE UNCHANGED vars
  BY <1>1, SameJob, SameStateStep DEF vars, SameState
<1>2. ASSUME NEW e \in Engines, NEW m \in Modes, Start(e, m) PROVE IndInv'
  <2>1. \A f \in Engines : pc'[f] = "paying" => pc[f] = "paying"
    BY <1>2 DEF Start, Goto, TypeOK
  <2> QED BY <1>2, <2>1, SameJob, SameStateStep DEF Start, SameState
<1>3. ASSUME NEW e \in Engines, Exit(e) \/ Crash(e) PROVE IndInv'
  BY <1>3, DownStep DEF Exit, Crash
<1>4. ASSUME NEW e \in Engines, LoadState(e) PROVE IndInv'
  <2>1. CASE LoadAbsent(e)
    <3>1. \A f \in Engines : pc'[f] = "paying" => pc[f] = "paying"
      BY <2>1 DEF LoadAbsent, End, Goto, TypeOK
    <3> QED BY <2>1, <3>1, SameJob, SameStateStep DEF LoadAbsent, SameState
  <2>2. CASE LoadSaved(e)
    BY <2>2, LoadSavedStep
  <2>3. CASE LoadFails(e) /\ pc[e] = "booting"
    BY <2>3, DownStep DEF LoadFails
  <2>4. CASE LoadFails(e) /\ pc[e] # "booting"
    <3>1. Raise(e) /\ UNCHANGED <<diskVars, nodeVars, batches>>
      BY <2>4 DEF LoadFails
    <3>2. \A f \in Engines : pc'[f] = "paying" => pc[f] = "paying"
      BY <3>1 DEF Raise, End, Goto, TypeOK
    <3> QED BY <3>1, <3>2, SameJob, SameStateStep DEF Raise, SameState
  <2> QED BY <1>4, <2>1, <2>2, <2>3, <2>4 DEF LoadState
<1>5. ASSUME NEW e \in Engines, SaveState(e) PROVE IndInv'
  <2>1. /\ state' = state /\ job' = job /\ sent' = sent /\ batches' = batches
        /\ \A f \in Engines : pc'[f] = "paying" => pc[f] = "paying"
    BY <1>5 DEF SaveState, SaveOpen, SaveOpenFails, SaveDump, SaveDumpFails,
                Raise, End, Goto, TypeOK
  <2>2. file'.state \in {file.state, Fresh, state[e]}
    <3>1. Saved(state[e]).state = state[e]
      BY DEF Saved
    <3> QED BY <1>5, <3>1 DEF SaveState, SaveOpen, SaveOpenFails, SaveDump, SaveDumpFails
  <2> QED BY <2>1, <2>2, SameJob, SameStateStep DEF SameState
<1>6. ASSUME NEW e \in Engines, Refuse(e) PROVE IndInv'
  <2>1. \A f \in Engines : pc'[f] = "paying" => pc[f] = "paying"
    BY <1>6 DEF Refuse, Raise, End, Goto, TypeOK
  <2> QED BY <1>6, <2>1, SameJob, SameStateStep DEF Refuse, Raise, SameState
<1>7. ASSUME NEW e \in Engines, NEW n \in Names, NEW p \in Pcts,
             AddCause(e, n, p) \/ UpdateAllocation(e, n, p)
      PROVE  IndInv'
  <2>1. CASE AddCause(e, n, p)
    BY <2>1, <1>6, AddCauseStep DEF AddCause
  <2>2. CASE UpdateAllocation(e, n, p)
    BY <2>2, <1>6, UpdateAllocationStep DEF UpdateAllocation, IndexesOf
  <2> QED BY <1>7, <2>1, <2>2
<1>8. ASSUME NEW e \in Engines, NEW n \in Names, NEW hard \in BOOLEAN, RemoveCause(e, n, hard)
      PROVE  IndInv'
  BY <1>8, <1>6, RemoveCauseStep DEF RemoveCause, IndexesOf
<1>9. ASSUME NEW e \in Engines, NEW a \in Amounts,
             DistributeRefused(e, a) \/ DistributeBegins(e, a)
      PROVE  IndInv'
  BY <1>9, <1>6, DistributeBeginsStep DEF DistributeRefused
<1>10. ASSUME NEW e \in Engines, Distribute(e) PROVE IndInv'
  <2>1. CASE SkipCause(e)
    <3>1. \A f \in Engines : job'[f].batch = job[f].batch /\ job'[f].next >= job[f].next
      <4>1. Onward(job[e], 0).batch = job[e].batch /\ Onward(job[e], 0).next = job[e].next + 1
        BY DEF Onward
      <4>2. /\ job'[e] = Onward(job[e], 0)
            /\ \A f \in Engines \ {e} : job'[f] = job[f]
        BY <2>1 DEF SkipCause, TypeOK
      <4> QED BY <4>1, <4>2
    <3> QED BY <2>1, <3>1, SameStateStep DEF SkipCause, SameState
  <2>2. CASE PayDry(e)
    BY <2>2, PayDryStep
  <2>3. CASE PayLive(e)
    BY <2>3, PayLiveStep
  <2>4. CASE PayRefused(e)
    <3>1. \A f \in Engines : pc'[f] = "paying" => pc[f] = "paying"
      BY <2>4 DEF PayRefused, Raise, End, Goto, TypeOK
    <3> QED BY <2>4, <3>1, SameJob, SameStateStep DEF PayRefused, Raise, SameState
  <2>5. CASE PayReplyLost(e)
    BY <2>5, PayReplyLostStep
  <2>6. CASE FinishBatch(e)
    <3>1. \A f \in Engines : pc'[f] = "paying" => pc[f] = "paying"
      BY <2>6 DEF FinishBatch, Goto, TypeOK
    <3> QED BY <2>6, <3>1, SameJob, SameStateStep DEF FinishBatch, SameState
  <2> QED BY <1>10, <2>1, <2>2, <2>3, <2>4, <2>5, <2>6 DEF Distribute
<1> QED BY <1>1, <1>2, <1>3, <1>4, <1>5, <1>7, <1>8, <1>9, <1>10 DEF Next

(* At first nothing is paid, and no log holds a record. *)
LEMMA IndInit == Init => IndInv
<1> SUFFICES ASSUME Init PROVE IndInv
  OBVIOUS
<1>1. sent = <<>> /\ DOMAIN sent = {} /\ batches = 0
  BY DEF Init
<1>2. /\ \A e \in Engines : state[e].causes = <<>> /\ state[e].distributions = <<>>
      /\ \A e \in Engines : job[e].batch = 0 /\ pc[e] = "down"
      /\ file.state.distributions = <<>>
  BY DEF Init, Fresh, Holding, NoJob, Saved, Unread
<1>3. file.state.causes \in Seeds \cup {<<>>}
  BY DEF Init, Fresh, Holding, Saved, Unread
<1>4. UniqueCauses
  <2>1. Registers \subseteq Seeds \cup {<<>>}
    BY <1>2, <1>3 DEF Registers
  <2> QED BY <2>1, SeedsAssumption DEF UniqueCauses
<1>5. RecordsArePaid
  <2>1. Logs \subseteq {<<>>}
    BY <1>2 DEF Logs
  <2>2. Backed(<<>>)
    BY DEF Backed
  <2> QED BY <2>1, <2>2 DEF RecordsArePaid
<1>6. BatchesAreOwned /\ PaidOncePerBatch /\ LogKeepsUp
  BY <1>1, <1>2 DEF BatchesAreOwned, PaidOncePerBatch, LogKeepsUp, Unlogged
<1> QED BY TypeInit, <1>4, <1>5, <1>6 DEF IndInv

(* The inductive invariant holds always: it holds at first and every step  *)
(* of every process keeps it.                                              *)
THEOREM Inductive == Spec => []IndInv
BY IndInit, IndStep, PTL DEF Spec

(* No registry, in memory or on disk, ever names a cause twice, whatever   *)
(* is added, removed, added again, saved and loaded, by any number of      *)
(* processes.                                                              *)
THEOREM CausesAlwaysUnique == Spec => []UniqueCauses
<1>1. IndInv => UniqueCauses
  BY DEF IndInv
<1> QED BY <1>1, Inductive, PTL

(* No log, in memory or on disk, ever holds a record of a payment that the *)
(* node has not made, or two records of one: for any number of processes   *)
(* that share the file, and all faults.                                    *)
THEOREM RecordsAlwaysPaid == Spec => []RecordsArePaid
<1>1. IndInv => RecordsArePaid
  BY DEF IndInv
<1> QED BY <1>1, Inductive, PTL

(* No call of distribute pays a cause twice. *)
THEOREM AlwaysPaidOnce == Spec => []PaidOncePerBatch
<1>1. IndInv => PaidOncePerBatch
  BY DEF IndInv
<1> QED BY <1>1, Inductive, PTL

(* The log of a living engine lacks at most the last payment of its batch. *)
THEOREM LogAlwaysKeepsUp == Spec => []LogKeepsUp
<1>1. IndInv => LogKeepsUp
  BY DEF IndInv
<1> QED BY <1>1, Inductive, PTL


-----------------------------------------------------------------------------
(* One process and its file                                                *)

OneProcess == \A e, f \in Engines : e = f

(* A step that leaves the file alone, returns nothing to the caller and    *)
(* forgets no record, unless the process ends.                             *)
LEMMA QuietFileStep ==
  ASSUME OneProcess, FileInv, TypeOK', NEW e \in Engines, file' = file, kept' = kept,
         pc'[e] # "dumping", ~(pc'[e] = "idle" /\ outcome'[e] = "returned"),
         pc'[e] = "down" => outcome'[e] = "none",
         LoadOnStart /\ pc'[e] \notin {"down", "booting"} =>
           \/ kept = {}
           \/ /\ pc[e] \notin {"down", "booting"}
              /\ ToSet(state[e].distributions) \subseteq ToSet(state'[e].distributions)
  PROVE  FileInv'
<1>1. \A f \in Engines : f = e
  BY DEF OneProcess
<1>2. (LoadOnStart => SavedIsNeverForgotten)'
  BY DEF FileInv, SavedIsNeverForgotten
<1>3. LoadOnStart /\ pc'[e] \notin {"down", "booting"} =>
        kept \subseteq ToSet(state'[e].distributions)
  BY DEF FileInv
<1> QED BY <1>1, <1>2, <1>3 DEF FileInv

(* A step that also leaves the log alone. *)
LEMMA SameLogStep ==
  ASSUME OneProcess, FileInv, TypeOK', NEW e \in Engines, file' = file, kept' = kept,
         pc[e] \in {"idle"} \cup Calling, pc'[e] \in {"idle", "paying", "saving"},
         pc'[e] = "idle" => outcome'[e] # "returned",
         state'[e].distributions = state[e].distributions
  PROVE  FileInv'
<1>1. pc[e] \notin {"down", "booting"}
  BY DEF Calling
<1> QED BY <1>1, QuietFileStep

LEMMA FileRefuseStep ==
  ASSUME OneProcess, FileInv, TypeOK', NEW e \in Engines, Refuse(e)
  PROVE  FileInv'
<1>1. /\ pc[e] = "idle" /\ pc'[e] = "idle" /\ outcome'[e] = "raised" /\ state' = state
      /\ file' = file /\ kept' = kept
  BY DEF Refuse, Raise, End, Goto, diskVars, FileInv, TypeOK
<1> QED BY <1>1, SameLogStep

LEMMA FileDownStep ==
  ASSUME OneProcess, FileInv, TypeOK', NEW e \in Engines, Down(e), UNCHANGED diskVars
  PROVE  FileInv'
<1>1. /\ pc'[e] = "down" /\ outcome'[e] = "none" /\ file' = file /\ kept' = kept
  BY DEF Down, Goto, diskVars, FileInv, TypeOK
<1> QED BY <1>1, QuietFileStep

LEMMA FileRegisterStep ==
  ASSUME OneProcess, FileInv, TypeOK', NEW e \in Engines, NEW cs, Register(e, cs)
  PROVE  FileInv'
<1>1. state[e] \in State
  BY DEF FileInv, TypeOK
<1>2. /\ pc[e] = "idle" /\ pc'[e] = "saving"
      /\ state'[e].distributions = state[e].distributions
      /\ file' = file /\ kept' = kept
  BY <1>1 DEF Register, Call, Goto, diskVars, FileInv, TypeOK, State
<1> QED BY <1>2, SameLogStep

(* The steps of save_state. *)
LEMMA FileSaveStep ==
  ASSUME OneProcess, FileInv, TypeOK', NEW e \in Engines, SaveState(e)
  PROVE  FileInv'
<1>1. \A f \in Engines : f = e
  BY DEF OneProcess
<1>2. Unread("empty").kind = "empty" /\ Unread("garbled").kind = "garbled"
  BY DEF Unread
<1>3. TypeOK
  BY DEF FileInv
<1>4. CASE SaveOpen(e)
  <2>1. /\ pc[e] = "saving" /\ pc'[e] = "dumping" /\ state' = state /\ kept' = kept
        /\ file' = Unread("empty") /\ outcome' = outcome
    BY <1>3, <1>4 DEF SaveOpen, Goto, TypeOK
  <2> QED BY <1>1, <1>2, <2>1 DEF FileInv, SavedIsNeverForgotten
<1>5. CASE SaveOpenFails(e)
  <2>1. /\ pc[e] = "saving" /\ pc'[e] = "idle" /\ outcome'[e] = "raised"
        /\ state' = state /\ file' = file /\ kept' = kept
    BY <1>3, <1>5 DEF SaveOpenFails, Raise, End, Goto, diskVars, TypeOK
  <2> QED BY <2>1, SameLogStep DEF Calling
<1>6. CASE SaveDump(e)
  <2>1. /\ pc[e] = "dumping" /\ pc'[e] = "idle" /\ outcome'[e] = "returned"
        /\ state' = state
    BY <1>3, <1>6 DEF SaveDump, End, Goto, TypeOK
  <2>2. ~Overlapped(e)
    BY <1>1, <2>1 DEF FileInv, Overlapped
  <2>3. file' = Saved(state[e]) /\ kept' = kept \cup ToSet(state[e].distributions)
    BY <1>6, <2>2 DEF SaveDump
  <2>4. LoadOnStart => kept \subseteq ToSet(state[e].distributions)
    BY <2>1 DEF FileInv
  <2>5. Saved(state[e]).kind = "saved" /\ Saved(state[e]).state = state[e]
    BY DEF Saved
  <2>6. LoadOnStart => kept' \subseteq ToSet(state'[e].distributions)
    BY <2>1, <2>3, <2>4
  <2>7. (LoadOnStart => SavedIsNeverForgotten)'
    BY <2>1, <2>3, <2>5, <2>6 DEF SavedIsNeverForgotten
  <2> QED BY <1>1, <2>1, <2>3, <2>5, <2>6, <2>7 DEF FileInv
<1>7. CASE SaveDumpFails(e)
  <2>1. /\ pc[e] = "dumping" /\ pc'[e] = "idle" /\ outcome'[e] = "raised"
        /\ state' = state /\ kept' = kept /\ file'.kind \in {"empty", "garbled"}
    BY <1>2, <1>3, <1>7 DEF SaveDumpFails, Raise, End, Goto, TypeOK
  <2> QED BY <1>1, <2>1 DEF FileInv, SavedIsNeverForgotten
<1> QED BY <1>4, <1>5, <1>6, <1>7 DEF SaveState

(* Those of load_state: without a file nothing has been saved yet.         *)
LEMMA FileLoadStep ==
  ASSUME OneProcess, FileInv, TypeOK', NEW e \in Engines, LoadState(e)
  PROVE  FileInv'
<1>1. \A f \in Engines : f = e
  BY DEF OneProcess
<1>2. TypeOK
  BY DEF FileInv
<1>3. CASE LoadAbsent(e)
  <2>1. /\ pc'[e] = "idle" /\ outcome'[e] = "none" /\ file' = file /\ kept' = kept
        /\ kept = {}
    BY <1>2, <1>3 DEF LoadAbsent, End, Goto, diskVars, TypeOK, FileInv
  <2> QED BY <2>1, QuietFileStep
<1>4. CASE LoadSaved(e)
  <2>1. /\ pc'[e] = "idle" /\ outcome'[e] = "returned" /\ file' = file /\ kept' = kept
        /\ file.kind = "saved" /\ state'[e] = file.state
    BY <1>2, <1>4 DEF LoadSaved, End, Goto, diskVars, TypeOK
  <2>2. file = Saved(file.state)
    BY <1>2, <2>1 DEF TypeOK, File, Saved
  <2>3. (LoadOnStart => SavedIsNeverForgotten)'
    BY <2>1 DEF FileInv, SavedIsNeverForgotten
  <2>4. LoadOnStart => kept' \subseteq ToSet(state'[e].distributions)
    BY <2>1 DEF FileInv, SavedIsNeverForgotten
  <2> QED BY <1>1, <2>1, <2>2, <2>3, <2>4 DEF FileInv
<1>5. CASE LoadFails(e) /\ pc[e] = "booting"
  BY <1>5, FileDownStep DEF LoadFails
<1>6. CASE LoadFails(e) /\ pc[e] # "booting"
  <2>1. /\ pc[e] = "idle" /\ pc'[e] = "idle" /\ outcome'[e] = "raised" /\ state' = state
        /\ file' = file /\ kept' = kept
    BY <1>2, <1>6 DEF LoadFails, Raise, End, Goto, diskVars, TypeOK
  <2> QED BY <2>1, SameLogStep
<1> QED BY <1>3, <1>4, <1>5, <1>6 DEF LoadState

(* Those of distribute only add to the log. *)
LEMMA FileDistributeStep ==
  ASSUME OneProcess, FileInv, TypeOK', NEW e \in Engines, Distribute(e)
  PROVE  FileInv'
<1>1. TypeOK
  BY DEF FileInv
<1>2. pc[e] = "paying"
  BY DEF Distribute, SkipCause, PayDry, PayLive, PayRefused, PayReplyLost, FinishBatch,
         Due, InLoop
<1>3. CASE SkipCause(e)
  <2>1. pc'[e] = "paying" /\ state' = state /\ file' = file /\ kept' = kept
    BY <1>2, <1>3 DEF SkipCause, diskVars
  <2> QED BY <1>2, <2>1, SameLogStep DEF Calling
<1>4. CASE PayDry(e) \/ PayLive(e)
  <2>1. PICK t : LogRecord(e, t)
    BY <1>4 DEF PayDry, PayLive
  <2>2. pc'[e] = "paying" /\ file' = file /\ kept' = kept
    BY <1>2, <1>4 DEF PayDry, PayLive, diskVars
  <2> DEFINE log == state[e].distributions
             r   == NewRecord(e, t)
  <2>3. state'[e].distributions = Append(log, r)
    BY <1>1, <2>1 DEF LogRecord, TypeOK
  <2>4. log \in Seq(Record)
    BY <1>1 DEF TypeOK, State
  <2> HIDE DEF log, r
  <2>5. ToSet(log) \subseteq ToSet(Append(log, r))
    <3>1. \A i \in DOMAIN log : i \in DOMAIN Append(log, r) /\ Append(log, r)[i] = log[i]
      BY <2>4
    <3> QED BY <3>1 DEF ToSet
  <2>6. ToSet(state[e].distributions) \subseteq ToSet(state'[e].distributions)
    BY <2>3, <2>5 DEF log
  <2> QED BY <1>2, <2>2, <2>6, QuietFileStep
<1>5. CASE PayRefused(e) \/ PayReplyLost(e)
  <2>1. /\ pc'[e] = "idle" /\ outcome'[e] = "raised" /\ state' = state
        /\ file' = file /\ kept' = kept
    BY <1>1, <1>5 DEF PayRefused, PayReplyLost, Raise, End, Goto, diskVars, TypeOK
  <2> QED BY <1>2, <2>1, SameLogStep DEF Calling
<1>6. CASE FinishBatch(e)
  <2>1. pc'[e] = "saving" /\ state' = state /\ file' = file /\ kept' = kept
    BY <1>1, <1>6 DEF FinishBatch, Goto, diskVars, TypeOK
  <2> QED BY <1>2, <2>1, SameLogStep DEF Calling
<1> QED BY <1>3, <1>4, <1>5, <1>6 DEF Distribute

LEMMA FileStep == OneProcess /\ FileInv /\ [Next]_vars => FileInv'
<1> SUFFICES ASSUME OneProcess, FileInv, [Next]_vars PROVE FileInv'
  OBVIOUS
<1> TypeOK /\ TypeOK'
  BY TypeStep DEF FileInv
<1>1. CASE UNCHANGED vars
  BY <1>1 DEF vars, engineVars, diskVars, FileInv, SavedIsNeverForgotten
<1>2. ASSUME NEW e \in Engines, NEW m \in Modes, Start(e, m) PROVE FileInv'
  <2>1. /\ pc[e] = "down" /\ outcome' = outcome /\ file' = file /\ kept' = kept
        /\ pc'[e] = IF LoadOnStart THEN "booting" ELSE "idle"
    BY <1>2 DEF Start, Goto, diskVars, TypeOK
  <2>2. outcome'[e] = "none"
    BY <2>1 DEF FileInv
  <2> QED BY <2>1, <2>2, QuietFileStep
<1>3. ASSUME NEW e \in Engines, Exit(e) \/ Crash(e) PROVE FileInv'
  BY <1>3, FileDownStep DEF Exit, Crash
<1>4. ASSUME NEW e \in Engines, LoadState(e) \/ SaveState(e) \/ Distribute(e) PROVE FileInv'
  BY <1>4, FileLoadStep, FileSaveStep, FileDistributeStep
<1>5. ASSUME NEW e \in Engines, NEW n \in Names, NEW p \in Pcts,
             AddCause(e, n, p) \/ UpdateAllocation(e, n, p)
      PROVE  FileInv'
  BY <1>5, FileRefuseStep, FileRegisterStep DEF AddCause, UpdateAllocation
<1>6. ASSUME NEW e \in Engines, NEW n \in Names, NEW hard \in BOOLEAN, RemoveCause(e, n, hard)
      PROVE  FileInv'
  BY <1>6, FileRefuseStep, FileRegisterStep DEF RemoveCause
<1>7. ASSUME NEW e \in Engines, NEW a \in Amounts,
             DistributeRefused(e, a) \/ DistributeBegins(e, a)
      PROVE  FileInv'
  <2>1. CASE DistributeRefused(e, a)
    BY <2>1, FileRefuseStep DEF DistributeRefused
  <2>2. CASE DistributeBegins(e, a)
    <3>1. /\ pc[e] = "idle" /\ pc'[e] = "paying" /\ state' = state
          /\ file' = file /\ kept' = kept
      BY <2>2 DEF DistributeBegins, Call, Goto, diskVars, TypeOK
    <3> QED BY <3>1, SameLogStep
  <2> QED BY <1>7, <2>1, <2>2
<1> QED BY <1>1, <1>2, <1>3, <1>4, <1>5, <1>6, <1>7 DEF Next

LEMMA FileInit == Init => FileInv
<1> SUFFICES ASSUME Init PROVE FileInv
  OBVIOUS
<1>1. TypeOK
  BY TypeInit
<1>2. /\ \A e \in Engines : pc[e] = "down" /\ outcome[e] = "none"
      /\ kept = {}
  BY DEF Init
<1> QED BY <1>1, <1>2 DEF FileInv, SavedIsNeverForgotten

THEOREM FileInductive == OneProcess /\ Spec => []FileInv
<1>1. CASE OneProcess
  <2>1. FileInv /\ [Next]_vars => FileInv'
    BY <1>1, FileStep
  <2> QED BY <2>1, FileInit, PTL DEF Spec
<1> QED BY <1>1

(* With one process, what a call has returned of is in the file: whatever  *)
(* failed before, and wherever the process has crashed in between.         *)
THEOREM ReturnedIsAlwaysPersisted == OneProcess /\ Spec => []ReturnedIsPersisted
<1>1. FileInv => ReturnedIsPersisted
  BY DEF FileInv, ReturnedIsPersisted
<1> QED BY <1>1, FileInductive, PTL

(* With one process, which loads its state before anything else, no        *)
(* readable file ever lacks what some earlier save has written.            *)
THEOREM SavedIsNeverLost == OneProcess /\ LoadOnStart /\ Spec => []SavedIsNeverForgotten
<1>1. CASE LoadOnStart
  <2>1. FileInv => SavedIsNeverForgotten
    BY <1>1 DEF FileInv
  <2> QED BY <2>1, FileInductive, PTL
<1> QED BY <1>1
=============================================================================
