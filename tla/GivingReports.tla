---------------------------- MODULE GivingReports ----------------------------
(***************************************************************************)
(* What the Perpetual Giving Engine reports of its state: the analytics of *)
(* digiforge/pge.py and the breakdown of a projection. They read a state   *)
(* of the engine and change nothing.                                       *)
(***************************************************************************)
EXTENDS GivingEngine

AmountsOf(log) == [i \in DOMAIN log |-> log[i].amount]

SumAmounts(log) == SumFunctionOnSet(AmountsOf(log), DOMAIN log)

LifetimeGiving(s) == s.total

(* What the records of log give to cause n. *)
GiftsTo(log, n) ==
    SumFunctionOnSet(AmountsOf(log), {i \in DOMAIN log : log[i].cause = n})

(* Mutant: the causes of the registry instead of those of the log. *)
GivingByRegistered(s) ==
    [n \in {c.name : c \in ToSet(s.causes)} |-> GiftsTo(s.distributions, n)]

GivingByCause(s) ==
    [n \in {r.cause : r \in ToSet(s.distributions)} |-> GiftsTo(s.distributions, n)]

(* The records of each batch, by their places in the log: a list of them   *)
(* is in the order of their places.                                        *)
DistributionBatches(s) ==
    [b \in {r.batch : r \in ToSet(s.distributions)} |->
        {i \in DOMAIN s.distributions : s.distributions[i].batch = b}]

(* list[-limit:], reversed: a limit of nothing is a limit of everything. *)
RecentDistributions(s, limit) ==
    LET log   == s.distributions
        first == IF limit > 0 THEN Len(log) - limit ELSE -limit
    IN  Reverse(SubSeq(log, Max({first, 0}) + 1, Len(log)))

(* Mutant: the shares are rounded up. *)
BreakdownUp(cs, mintable) ==
    [i \in Active(cs) |-> Percent(mintable, cs[i].pct) + Cent]

(* What projection tells each active cause it would get: its percentage,   *)
(* also if it is the last one, which distribute gives all that is left.    *)
Breakdown(cs, mintable) == [i \in Active(cs) |-> Percent(mintable, cs[i].pct)]

=============================================================================
