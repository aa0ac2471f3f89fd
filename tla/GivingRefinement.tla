-------------------------- MODULE GivingRefinement --------------------------
(***************************************************************************)
(* The engines, their file and the node implement GivingLedger, for any    *)
(* processes, causes, amounts, faults and bounds: at first there is the    *)
(* empty ledger, and every step is a step of the ledger or leaves it alone.*)
(***************************************************************************)
EXTENDS GivingProofs

USE DEF engineVars, diskVars, nodeVars

(* What the ledger sees of the engines' memories and of the file. *)
Book   == [e \in Engines |-> TxIds(state[e].distributions)]
Stored == TxIds(file.state.distributions)
Seen   == <<Len(sent), Book, Stored>>

(* An empty log accounts for nothing. *)
LEMMA TxIdsEmpty == TxIds(Fresh.distributions) = {}
BY DEF TxIds, Fresh, Holding

(* A log that grows by a record accounts for the payment of the record too,*)
(* unless it is simulated.                                                 *)
LEMMA TxIdsAppend ==
  ASSUME NEW log \in Seq(Record), NEW r \in Record
  PROVE  TxIds(Append(log, r)) = TxIds(log) \cup ({r.txid} \ {NoTx})
<1> DEFINE new == Append(log, r)
<1>1. /\ DOMAIN new = 1 .. Len(log) + 1 /\ DOMAIN log = 1 .. Len(log) /\ Len(log) \in Nat
      /\ \A i \in 1 .. Len(log) : new[i] = log[i]
      /\ new[Len(log) + 1] = r
  OBVIOUS
<1>2. DOMAIN new = DOMAIN log \cup {Len(log) + 1}
  BY <1>1
<1>3. {new[i].txid : i \in DOMAIN new} = {log[i].txid : i \in DOMAIN log} \cup {r.txid}
  BY <1>1, <1>2
<1> QED BY <1>3 DEF TxIds

(* The book when only the log of e changes. *)
LEMMA BookOfOne ==
  ASSUME NEW e \in Engines, NEW ids, TxIds(state'[e].distributions) = ids,
         \A f \in Engines \ {e} : state'[f].distributions = state[f].distributions
  PROVE  Book' = [Book EXCEPT ![e] = ids]
<1>1. \A f \in Engines : Book'[f] = TxIds(state'[f].distributions)
  BY DEF Book, TxIds
<1>2. \A f \in Engines \ {e} : Book'[f] = Book[f]
  BY <1>1 DEF Book
<1>3. Book'[e] = ids
  BY <1>1
<1>4. Book' = [f \in Engines |-> Book'[f]]
  BY DEF Book
<1>5. Book = [f \in Engines |-> Book[f]]
  BY DEF Book
<1> QED BY <1>2, <1>3, <1>4, <1>5

(* Steps that change no log at all. *)
SameLogs == /\ sent' = sent
            /\ \A f \in Engines : state'[f].distributions = state[f].distributions
            /\ file'.state.distributions = file.state.distributions

(* The ledger does not see them. *)
LEMMA SameLogsUnseen == SameLogs => UNCHANGED Seen
BY DEF SameLogs, Seen, Book, Stored, TxIds

(* Steps that change a registry change no log. *)
LEMMA RegisterSameLogs ==
  ASSUME TypeOK, NEW e \in Engines, NEW cs, Register(e, cs)
  PROVE  SameLogs
<1>1. \A f \in Engines : state'[f].distributions = state[f].distributions
  BY DEF Register, TypeOK, State
<1> QED BY <1>1 DEF Register, SameLogs

(* A process that ends forgets its log. *)
LEMMA DownForgets ==
  ASSUME TypeOK, NEW e \in Engines, Down(e), UNCHANGED <<diskVars, nodeVars, batches>>
  PROVE  Ledger!Forget(e)
<1>1. state'[e] = Fresh /\ \A f \in Engines \ {e} : state'[f] = state[f]
  BY DEF Down, TypeOK
<1>2. Book' = [Book EXCEPT ![e] = {}]
  BY <1>1, TxIdsEmpty, BookOfOne
<1> QED BY <1>2 DEF Ledger!Forget, Book

(* A simulated payment is recorded without a number. *)
LEMMA DryUnseen ==
  ASSUME TypeOK, NEW e \in Engines, Due(e), LogRecord(e, NoTx), UNCHANGED <<sent, file>>
  PROVE  UNCHANGED Seen
<1> DEFINE r == NewRecord(e, NoTx)
           s == [causes |-> state[e].causes,
                 distributions |-> Append(state[e].distributions, r),
                 total |-> state[e].total + r.amount]
<1>1. NoTx \in Nat
  BY DEF NoTx
<1>2. r \in Record /\ r.txid = NoTx
  BY <1>1, RecordType DEF NewRecord
<1>3. state' = [state EXCEPT ![e] = s]
  BY DEF LogRecord
<1> HIDE DEF r
<1>4. s.distributions = Append(state[e].distributions, r)
  OBVIOUS
<1> HIDE DEF s
<1>5. state'[e] = s /\ \A f \in Engines \ {e} : state'[f] = state[f]
  BY <1>3 DEF TypeOK
<1>6. state[e].distributions \in Seq(Record)
  BY DEF TypeOK, State
<1>7. TxIds(state'[e].distributions) = TxIds(state[e].distributions)
  <2>1. {r.txid} \ {NoTx} = {}
    BY <1>2
  <2>2. TxIds(Append(state[e].distributions, r)) = TxIds(state[e].distributions) \cup {}
    BY <1>2, <1>6, <2>1, TxIdsAppend
  <2> QED BY <1>4, <1>5, <2>2
<1>8. Book' = [Book EXCEPT ![e] = Book[e]]
  BY <1>5, <1>7, BookOfOne DEF Book
<1>9. Book' = Book
  BY <1>8 DEF Book
<1> QED BY <1>9 DEF Seen, Stored, TxIds

(* A payment the engine learns of is recorded under its number; one whose  *)
(* answer is lost is in no log.                                            *)
LEMMA PaymentPays ==
  ASSUME TypeOK, NEW e \in Engines, Due(e), Transfer(e), UNCHANGED diskVars,
         LogRecord(e, Len(sent) + 1) \/ UNCHANGED state
  PROVE  Ledger!Pay(e)
<1>1. Len(sent') = Len(sent) + 1 /\ Len(sent) \in Nat
  BY DEF Transfer, TypeOK
<1>2. CASE LogRecord(e, Len(sent) + 1)
  <2> DEFINE r == NewRecord(e, Len(sent) + 1)
             s == [causes |-> state[e].causes,
                   distributions |-> Append(state[e].distributions, r),
                   total |-> state[e].total + r.amount]
  <2>1. r \in Record /\ r.txid = Len(sent) + 1
    BY <1>1, RecordType DEF NewRecord
  <2>2. state' = [state EXCEPT ![e] = s]
    BY <1>2 DEF LogRecord
  <2> HIDE DEF r
  <2>3. s.distributions = Append(state[e].distributions, r)
    OBVIOUS
  <2> HIDE DEF s
  <2>4. state'[e] = s /\ \A f \in Engines \ {e} : state'[f] = state[f]
    BY <2>2 DEF TypeOK
  <2>5. state[e].distributions \in Seq(Record)
    BY DEF TypeOK, State
  <2>6. TxIds(state'[e].distributions)
          = TxIds(state[e].distributions) \cup ({r.txid} \ {NoTx})
    BY <2>1, <2>3, <2>4, <2>5, TxIdsAppend
  <2>7. {r.txid} \ {NoTx} = {Len(sent) + 1}
    BY <1>1, <2>1 DEF NoTx
  <2>8. TxIds(state'[e].distributions) = Book[e] \cup {Len(sent) + 1}
    BY <2>6, <2>7 DEF Book
  <2>9. Book' = [Book EXCEPT ![e] = Book[e] \cup {Len(sent) + 1}]
    BY <2>4, <2>8, BookOfOne
  <2> QED BY <1>1, <2>9 DEF Ledger!Pay, Book
<1>3. CASE UNCHANGED state
  <2>1. Book' = Book
    BY <1>3 DEF Book, TxIds
  <2> QED BY <1>1, <2>1 DEF Ledger!Pay, Book
<1> QED BY <1>2, <1>3

(* Every step of the engines is one of the ledger, or unseen by it. *)
LEMMA StepRefines == TypeOK /\ [Next]_vars => Ledger!LedgerNext \/ UNCHANGED Seen
<1> SUFFICES ASSUME TypeOK, [Next]_vars PROVE Ledger!LedgerNext \/ UNCHANGED Seen
  OBVIOUS
<1>1. CASE UNCHANGED vars
  <2>1. SameLogs
    BY <1>1 DEF vars, SameLogs
  <2> QED BY <2>1, SameLogsUnseen
<1>2. ASSUME Next PROVE Ledger!LedgerNext \/ UNCHANGED Seen
  <2> PICK e \in Engines :
        \/ \E m \in Modes : Start(e, m)
        \/ Exit(e) \/ Crash(e) \/ LoadState(e) \/ SaveState(e)
        \/ \E n \in Names, p \in Pcts : AddCause(e, n, p) \/ UpdateAllocation(e, n, p)
        \/ \E n \in Names, hard \in BOOLEAN : RemoveCause(e, n, hard)
        \/ \E a \in Amounts : DistributeRefused(e, a) \/ DistributeBegins(e, a)
        \/ Distribute(e)
    BY <1>2 DEF Next
  <2>1. ASSUME NEW m \in Modes, Start(e, m) PROVE SameLogs
    BY <2>1 DEF Start, SameLogs
  <2>2. CASE Exit(e) \/ Crash(e)
    BY <2>2, DownForgets DEF Exit, Crash, Ledger!LedgerNext
  <2>3. ASSUME LoadAbsent(e) PROVE SameLogs
    BY <2>3 DEF LoadAbsent, SameLogs
  <2>4. CASE LoadSaved(e)
    <3>1. state'[e] = file.state /\ \A f \in Engines \ {e} : state'[f] = state[f]
      BY <2>4 DEF LoadSaved, TypeOK
    <3>2. Book' = [Book EXCEPT ![e] = Stored]
      BY <3>1, BookOfOne DEF Stored
    <3>3. Ledger!Reload(e)
      BY <2>4, <3>2 DEF LoadSaved, Ledger!Reload, Book, Stored
    <3> QED BY <3>3 DEF Ledger!LedgerNext
  <2>5. CASE LoadFails(e)
    <3>1. CASE pc[e] = "booting"
      BY <2>5, <3>1, DownForgets DEF LoadFails, Ledger!LedgerNext
    <3>2. CASE pc[e] # "booting"
      <4>1. SameLogs
        BY <2>5, <3>2 DEF LoadFails, Raise, SameLogs
      <4> QED BY <4>1, SameLogsUnseen
    <3> QED BY <3>1, <3>2
  <2>6. ASSUME UNCHANGED <<state, sent>>, \E k : file' = Unread(k) PROVE Ledger!LedgerNext
    <3>1. Stored' = {} /\ Book' = Book
      BY <2>6, TxIdsEmpty DEF Stored, Book, TxIds, Unread
    <3>2. Ledger!Lose
      BY <2>6, <3>1 DEF Ledger!Lose, Stored, Book
    <3> QED BY <3>2 DEF Ledger!LedgerNext
  <2>7. CASE SaveOpen(e)
    BY <2>6, <2>7 DEF SaveOpen
  <2>8. ASSUME SaveOpenFails(e) PROVE SameLogs
    BY <2>8 DEF SaveOpenFails, Raise, SameLogs
  <2>9. CASE SaveDump(e)
    <3>1. CASE file' = Saved(state[e])
      <4>1. Stored' = Book[e] /\ Book' = Book
        BY <2>9, <3>1 DEF SaveDump, Saved, Stored, Book, TxIds
      <4>2. Ledger!Store(e)
        BY <2>9, <4>1 DEF SaveDump, Ledger!Store, Stored, Book
      <4> QED BY <4>2 DEF Ledger!LedgerNext
    <3>2. CASE file' = Unread("garbled")
      BY <2>6, <2>9, <3>2 DEF SaveDump
    <3> QED BY <2>9, <3>1, <3>2 DEF SaveDump
  <2>10. CASE SaveDumpFails(e)
    BY <2>6, <2>10 DEF SaveDumpFails, Raise
  <2>11. ASSUME NEW cs, Register(e, cs) PROVE SameLogs
    BY <2>11, RegisterSameLogs
  <2>12. ASSUME Refuse(e) PROVE SameLogs
    BY <2>12 DEF Refuse, Raise, SameLogs
  <2>13. ASSUME NEW n \in Names, NEW p \in Pcts, AddCause(e, n, p) \/ UpdateAllocation(e, n, p)
         PROVE  SameLogs
    BY <2>11, <2>12, <2>13 DEF AddCause, UpdateAllocation
  <2>14. ASSUME NEW n \in Names, NEW hard \in BOOLEAN, RemoveCause(e, n, hard)
         PROVE  SameLogs
    BY <2>11, <2>12, <2>14 DEF RemoveCause
  <2>15. ASSUME NEW a \in Amounts, DistributeRefused(e, a) \/ DistributeBegins(e, a)
         PROVE  SameLogs
    BY <2>12, <2>15 DEF DistributeRefused, DistributeBegins, SameLogs
  <2>16. ASSUME SkipCause(e) \/ PayRefused(e) \/ FinishBatch(e) PROVE SameLogs
    BY <2>16 DEF SkipCause, PayRefused, FinishBatch, Raise, SameLogs
  <2>17. CASE PayDry(e)
    BY <2>17, DryUnseen DEF PayDry
  <2>18. CASE PayLive(e)
    BY <2>18, PaymentPays DEF PayLive, Ledger!LedgerNext
  <2>19. CASE PayReplyLost(e)
    BY <2>19, PaymentPays DEF PayReplyLost, Raise, Ledger!LedgerNext
  <2> QED BY <2>1, <2>2, <2>3, <2>4, <2>5, <2>7, <2>8, <2>9, <2>10, <2>13, <2>14,
             <2>15, <2>16, <2>17, <2>18, <2>19, SameLogsUnseen
          DEF LoadState, SaveState, Distribute
<1> QED BY <1>1, <1>2

(* At first nothing is paid and nothing accounted for. *)
LEMMA InitRefines == Init => Ledger!LedgerInit
<1> SUFFICES ASSUME Init PROVE Ledger!LedgerInit
  OBVIOUS
<1>1. Len(sent) = 0
  BY DEF Init
<1>2. Book = [e \in Engines |-> {}]
  BY TxIdsEmpty DEF Init, Book
<1>3. file.state.distributions = <<>>
  BY DEF Init, Saved, Unread, Fresh, Holding
<1>4. Stored = {}
  BY <1>3, TxIdsEmpty DEF Stored, Fresh, Holding
<1> QED BY <1>1, <1>2, <1>4 DEF Ledger!LedgerInit, Book, Stored

(* The engines keep an honest ledger of the payments: whatever fails and   *)
(* however many processes share the file, a log comes to account for a     *)
(* payment only when its engine has just made it or when it is copied from *)
(* a log that does (pge.py distribute, load_state, save_state).            *)
THEOREM EnginesKeepLedger == Spec => KeepsLedger
<1>1. TypeOK /\ [Next]_vars =>
        [Ledger!LedgerNext]_<<Len(sent), [e \in Engines |-> TxIds(state[e].distributions)],
                             TxIds(file.state.distributions)>>
  BY StepRefines DEF Seen, Book, Stored
<1> QED BY <1>1, InitRefines, TypeCorrect, PTL DEF Spec, KeepsLedger, Ledger!LedgerSpec
=============================================================================
