---------------------------- MODULE GivingLedger ----------------------------
(***************************************************************************)
(* What the Perpetual Giving Engine promises about its audit log, without  *)
(* causes, shares, calls or files: there are the payments the node has     *)
(* made, the payments each engine's log accounts for, and those the stored *)
(* log accounts for. A payment is made once and never undone. A log may    *)
(* miss payments and may be lost, but it accounts for a payment only when  *)
(* its own engine has just made it or when it copies the other log.        *)
(***************************************************************************)
EXTENDS Naturals

CONSTANT Engines

VARIABLES
    paid,    \* number of payments made: they are numbered 1 .. paid
    book,    \* book[e]: the payments in the log of the engine e
    stored   \* the payments in the stored log

LedgerInit ==
    /\ paid   = 0
    /\ book   = [e \in Engines |-> {}]
    /\ stored = {}

(* A payment, which the engine may fail to learn of. *)
Pay(e) ==
    /\ paid' = paid + 1
    /\ book' \in {book, [book EXCEPT ![e] = @ \cup {paid + 1}]}
    /\ UNCHANGED stored

Forget(e) == book' = [book EXCEPT ![e] = {}] /\ UNCHANGED <<paid, stored>>
Reload(e) == book' = [book EXCEPT ![e] = stored] /\ UNCHANGED <<paid, stored>>
Store(e)  == stored' = book[e] /\ UNCHANGED <<paid, book>>
Lose      == stored' = {} /\ UNCHANGED <<paid, book>>

LedgerNext ==
    \/ Lose
    \/ \E e \in Engines : Pay(e) \/ Forget(e) \/ Reload(e) \/ Store(e)

LedgerSpec == LedgerInit /\ [][LedgerNext]_<<paid, book, stored>>

(* No log accounts for a payment that was not made. *)
Honest == \A b \in {book[e] : e \in Engines} \cup {stored} : b \subseteq 1 .. paid
=============================================================================
