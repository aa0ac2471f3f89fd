---------------------------- MODULE VaultClient ----------------------------
(***************************************************************************)
(* The client of a DigiDollar vault: CDPClient (digiforge/cdp.py), the     *)
(* OracleClient (digiforge/oracle.py) and the vault side of the Perpetual  *)
(* Giving Engine (open_vault, vault_status, health_check and report of     *)
(* digiforge/pge.py), on top of the JSON-RPC calls of digiforge/rpc.py.    *)
(*                                                                         *)
(* Every call of the client is a sequence of requests to the node, one     *)
(* step each. Between two of them the node moves: the oracle's price and   *)
(* its flags change, minting is blocked, the timelock of the vault ends. A *)
(* request may be answered with an error, may not arrive, and its answer   *)
(* may be lost after the node has done what it was asked to do.            *)
(*                                                                         *)
(* DUSD are counted in cents. The product of a collateral and a price is   *)
(* an amount of USD, Cent of them to 0.01. Ratios are percentages.         *)
(***************************************************************************)
EXTENDS Integers, Sequences

CONSTANTS
    Collaterals,  \* collaterals the callers pass, in or out of range
    Ratios,       \* ratios the callers pass
    Amounts,      \* DUSD the callers ask to mint or to redeem, in cents
    Prices,       \* DGB/USD prices of the oracle
    Cent,         \* units of collateral times price in 0.01 USD
    Warn,         \* config.warn_ratio_threshold
    Critical,     \* config.critical_ratio
    Near,         \* 0.005 USD as a difference of prices
    Ages,         \* ages of the oracle's answers, in seconds; 0 if it has no timestamp
    Thresholds,   \* what the callers pass to set_stale_threshold
    Wallet,       \* DGB the wallet holds at first
    Faults,       \* subset of {"node", "link", "reply"}
    MaxCalls,     \* bound: calls of the client
    MaxMoves      \* bound: moves of the node

VARIABLES
    pc,       \* the request the client is about to send, or "idle"
    call,     \* arguments and locals of the latest call
    outcome,  \* what the latest call returned or raised
    calls,    \* number of calls begun
    threshold, \* the oracle client: _stale_threshold, in seconds
    feed,     \* the node: the oracle's answer
    blocked,  \* the node: emergency redemption conditions block minting
    locked,   \* the node: the timelock of the vault has not ended
    vault,    \* the node: collateral locked, DUSD owed, and whether it is liquidated
    dgb,      \* the node: DGB of the wallet
    mints,    \* history: the mints the node has executed, in order
    burns,    \* history: the calls whose redemption the node has executed
    moved,    \* history: the node has moved since the latest call began
    moves     \* number of moves of the node

clientVars == <<pc, call, outcome, calls>>
marketVars == <<feed, blocked, locked>>
chainVars  == <<vault, dgb, mints, burns>>
vars       == <<clientVars, threshold, marketVars, chainVars, moved, moves>>

ASSUME ArgumentsAssumption ==
    Collaterals \subseteq Int /\ Ratios \subseteq Int /\ Amounts \subseteq Int
ASSUME PricesAssumption == Prices \subseteq Nat /\ Cent \in Nat \ {0}
ASSUME ConfigAssumption ==
    /\ Warn \in Nat /\ Critical \in Nat /\ Near \in Nat /\ Wallet \in Nat
    /\ Ages \subseteq Nat /\ Thresholds \subseteq Int
ASSUME FaultsAssumption == Faults \subseteq {"node", "link", "reply"}
ASSUME BoundsAssumption == MaxCalls \in Nat /\ MaxMoves \in Nat

SafeRatio    == 300
MinimumRatio == 150
StaleThreshold == 300       \* ORACLE_STALE_THRESHOLD_SECONDS
Unasked      == {}         \* dusd_amount is None, else it is a singleton

-----------------------------------------------------------------------------
(* Data *)

(* What getoracleprice says: a price, whether the node calls it stale, if  *)
(* it says so at all, its age, and whether five operators are active.      *)
Feed == [price : Prices, flag : {"fresh", "stale", "unsaid"},
         age : Ages, quorum : BOOLEAN]

Vault   == [collateral : Nat, debt : Nat, state : {"open", "liquidated"}]
NoVault == [collateral |-> 0, debt |-> 0, state |-> "open"]

Mint == [call : Nat, asked : SUBSET Int, collateral : Nat, ratio : Int,
         amount : Nat, sized : Nat, read : Nat, price : Nat]

(* getcollateralratio and getcdpinfo of the node. *)
RatioOf(collateral, debt, price) == (collateral * price * 100) \div (debt * Cent)

Band(ratio) ==
    CASE ratio >= SafeRatio                -> "healthy"
      [] ratio \in 200 .. SafeRatio - 1    -> "marginal"
      [] ratio \in MinimumRatio .. 199     -> "at_risk"
      [] OTHER                             -> "critical"

LiquidationPrice == (MinimumRatio * vault.debt * Cent) \div (100 * vault.collateral)

(* Mutant: the amount is rounded up. *)
MintableUp(collateral, ratio, price) ==
    (collateral * price * 100) \div (ratio * Cent) + 1

(* calculate_mintable: rounded down to a cent. *)
Mintable(collateral, ratio, price) ==
    (collateral * price * 100) \div (ratio * Cent)

(* Mutant: the reported ratio is rounded up. *)
ActualRatioUp(collateral, amount, price) ==
    (collateral * price * 1000) \div (amount * Cent) + 1

(* MintResult.ratio, in tenths of a percent. *)
ActualRatio(collateral, amount, price) ==
    (collateral * price * 1000) \div (amount * Cent)

NoFeed == [price |-> 0, flag |-> "unsaid", age |-> 0, quorum |-> FALSE]
NoCall == [op |-> "none", collateral |-> 0, ratio |-> 0, asked |-> Unasked,
           amount |-> 0, sized |-> 0, price |-> 0, status |-> "none", seen |-> NoFeed,
           troubles |-> {}, causes |-> "none"]

Outcome(kind) == [kind |-> kind, amount |-> 0, ratio |-> 0,
                  age |-> 0, priced |-> FALSE]

-----------------------------------------------------------------------------
Init ==
    /\ pc = "idle"
    /\ call = NoCall
    /\ outcome = Outcome("none")
    /\ calls = 0
    /\ threshold = StaleThreshold
    /\ feed \in Feed
    /\ blocked \in BOOLEAN
    /\ locked = TRUE
    /\ vault = NoVault
    /\ dgb = Wallet
    /\ mints = <<>>
    /\ burns = <<>>
    /\ moved = FALSE
    /\ moves = 0

(* A position at or below its liquidation price is liquidated. *)
Liquidate ==
    /\ vault.state = "open" /\ vault.debt > 0
    /\ feed.price <= LiquidationPrice
    /\ vault' = [vault EXCEPT !.state = "liquidated"]

(* Between two requests the node and its oracle move on. *)
Move ==
    /\ moves < MaxMoves
    /\ moves' = moves + 1
    /\ moved' = TRUE
    /\ \/ feed' \in Feed \ {feed} /\ UNCHANGED <<blocked, locked, vault>>
       \/ blocked' = ~blocked /\ UNCHANGED <<feed, locked, vault>>
       \/ locked /\ locked' = FALSE /\ UNCHANGED <<feed, blocked, vault>>
       \/ Liquidate /\ UNCHANGED marketVars
    /\ UNCHANGED <<clientVars, threshold, dgb, mints, burns>>

-----------------------------------------------------------------------------
(* Calls begin, send requests and end *)

Begin(c, first) ==
    /\ pc = "idle"
    /\ calls < MaxCalls
    /\ calls' = calls + 1
    /\ moved' = FALSE
    /\ call' = c
    /\ pc' = first
    /\ outcome' = Outcome("none")
    /\ UNCHANGED <<threshold, marketVars, chainVars, moves>>

(* A call that fails its checks sends nothing. *)
Reject(c, exception) ==
    /\ pc = "idle"
    /\ calls < MaxCalls
    /\ calls' = calls + 1
    /\ moved' = FALSE
    /\ call' = c
    /\ outcome' = Outcome(exception)
    /\ UNCHANGED <<pc, threshold, marketVars, chainVars, moves>>

(* A step of the client between begin and end. *)
Go(next, c) == pc' = next /\ call' = c /\ UNCHANGED <<calls, outcome>>
End(o)      == pc' = "idle" /\ outcome' = o /\ UNCHANGED <<call, calls>>
Reading     == UNCHANGED <<threshold, marketVars, chainVars, moved, moves>>
Raise(x)    == End(Outcome(x)) /\ Reading

(* What call raises when it has sent a request and gets no answer, or one  *)
(* that is cut off: json.loads then fails outside of every except clause,  *)
(* as resp.read does. JSONDecodeError stands for whatever leaves call from *)
(* there (an IncompleteRead, an error of the socket under the body): none  *)
(* of these is a DigiForgeError, and no caller tells them apart.           *)
Unanswered  == {"NodeConnectionError", "JSONDecodeError"}

-----------------------------------------------------------------------------
(* CDPClient.mint, and open_vault, which asks for no amount of its own *)

Asked == {Unasked} \cup {{a} : a \in Amounts}

MintCall(op, c, r, asked) ==
    [NoCall EXCEPT !.op = op, !.collateral = c, !.ratio = r, !.asked = asked,
                   !.amount = IF asked = Unasked THEN 0 ELSE CHOOSE a \in asked : TRUE]

MintRefused(op, c, r, asked) ==
    \/ /\ c <= 0 \/ (r >= MinimumRatio /\ \E a \in asked : a <= 0)
       /\ Reject(MintCall(op, c, r, asked), "ValidationError")
    \/ /\ c > 0 /\ r < MinimumRatio
       /\ Reject(MintCall(op, c, r, asked), "CDPRatioTooLowError")

(* Mutant: the collateral is not checked. *)
MintBeginsUnchecked(op, c, r, asked) ==
    /\ r >= MinimumRatio /\ \A a \in asked : a > 0
    /\ Begin(MintCall(op, c, r, asked), IF asked = Unasked THEN "sizing" ELSE "pricing")

MintBegins(op, c, r, asked) ==
    /\ c > 0 /\ r >= MinimumRatio /\ \A a \in asked : a > 0
    /\ Begin(MintCall(op, c, r, asked), IF asked = Unasked THEN "sizing" ELSE "pricing")

(* calculate_mintable, with a reading of the price of its own. *)
Size ==
    LET a == Mintable(call.collateral, call.ratio, feed.price) IN
    /\ pc = "sizing"
    /\ feed.flag # "stale"
    /\ \/ /\ call.op = "dry"
          /\ End([Outcome("simulated") EXCEPT !.amount = a, !.ratio = 10 * call.ratio])
       \/ /\ call.op # "dry" /\ a <= 0
          /\ End(Outcome("ValidationError"))
       \/ /\ call.op # "dry" /\ a > 0
          /\ Go("pricing", [call EXCEPT !.amount = a, !.sized = feed.price])
    /\ Reading

(* The reading of the price that the result will report. *)
Price ==
    /\ pc = "pricing"
    /\ feed.flag # "stale"
    /\ Go("minting", [call EXCEPT !.price = feed.price])
    /\ Reading

(* Mutant: the client waits for a fresh price. *)
PriceStaleAwaited ==
    /\ pc \in {"sizing", "pricing"}
    /\ feed.flag = "stale"
    /\ UNCHANGED vars

PriceStale ==
    /\ pc \in {"sizing", "pricing"}
    /\ feed.flag = "stale"
    /\ Raise("OracleStaleError")

(* What a mint adds to: a position that is liquidated is not added to. *)
Standing == IF vault.state = "open" THEN vault ELSE NoVault

(* mintdigidollar is done. *)
Lock ==
    /\ ~blocked
    /\ call.collateral <= dgb
    /\ dgb' = dgb - call.collateral
    /\ vault' = [collateral |-> Standing.collateral + call.collateral,
                 debt       |-> Standing.debt + call.amount,
                 state      |-> "open"]
    /\ mints' = Append(mints,
         [call |-> calls, asked |-> call.asked, collateral |-> call.collateral,
          ratio |-> call.ratio, amount |-> call.amount, sized |-> call.sized,
          read |-> call.price, price |-> feed.price])
    /\ UNCHANGED <<threshold, marketVars, burns, moved, moves>>

Minted ==
    /\ pc = "minting"
    /\ Lock
    /\ End([Outcome("minted") EXCEPT
              !.amount = call.amount,
              !.ratio  = ActualRatio(call.collateral, call.amount, call.price)])

(* Mutant: a mint without an answer is reported as a failed one. *)
MintReplyLostAsCDPError ==
    /\ "reply" \in Faults
    /\ pc = "minting"
    /\ Lock
    /\ End(Outcome("CDPError"))

MintReplyLost ==
    /\ "reply" \in Faults
    /\ pc = "minting"
    /\ Lock
    /\ \E x \in Unanswered : End(Outcome(x))

MintFails ==
    /\ pc = "minting"
    /\ \/ blocked /\ Raise("CDPMintBlockedError")
       \/ call.collateral > dgb /\ Raise("InsufficientFundsError")
       \/ "node" \in Faults /\ Raise("CDPError")

-----------------------------------------------------------------------------
(* CDPClient.redeem *)

RedeemCall(a) == [NoCall EXCEPT !.op = "redeem", !.amount = a]

RedeemRefused(a) == a <= 0 /\ Reject(RedeemCall(a), "ValidationError")
RedeemBegins(a)  == a > 0 /\ Begin(RedeemCall(a), "redeeming")

(* redeemdigidollar is done: the node gives back the same part of the       *)
(* collateral as is redeemed of the debt.                                   *)
Unlock ==
    /\ ~locked /\ vault.state = "open"
    /\ call.amount <= vault.debt
    /\ LET back == (vault.collateral * call.amount) \div vault.debt IN
       /\ vault' = [collateral |-> vault.collateral - back,
                    debt       |-> vault.debt - call.amount,
                    state      |-> "open"]
       /\ dgb' = dgb + back
    /\ burns' = Append(burns, calls)
    /\ UNCHANGED <<threshold, marketVars, mints, moved, moves>>

Redeemed ==
    /\ pc = "redeeming"
    /\ Unlock
    /\ End([Outcome("redeemed") EXCEPT !.amount = call.amount])

RedeemReplyLost ==
    /\ "reply" \in Faults
    /\ pc = "redeeming"
    /\ Unlock
    /\ \E x \in Unanswered : End(Outcome(x))

(* The node's message decides: no vault; timelock, or too few DUSD, which  *)
(* the wallet may have given away; any other. A liquidated position is one *)
(* that cannot be redeemed.                                                *)
RedeemFails ==
    /\ pc = "redeeming"
    /\ \/ vault.debt = 0 /\ Raise("CDPNotFoundError")
       \/ vault.debt > 0 /\ Raise("CDPRedemptionError")
       \/ "node" \in Faults /\ Raise("CDPError")

-----------------------------------------------------------------------------
(* Queries: vault_status, health_check and report of the engine; price_usd,*)
(* trusted_price, status ("network") and is_available of the oracle client;*)
(* health and collateral_balance of the CDP client                         *)

Query(op, causes) == [NoCall EXCEPT !.op = op, !.causes = causes]

FirstRequest(op) ==
    CASE op \in {"status", "check", "report"}  -> "position"
      [] op \in {"usd", "trusted", "health"}   -> "feed"
      [] op \in {"network", "available", "balance"} -> op

QueryBegins(op, causes) == Begin(Query(op, causes), FirstRequest(op))

(* engine_projection checks neither of its arguments.                      *)
ProjectionBegins(r) == Begin([Query("projection", "none") EXCEPT !.ratio = r], "quoting")

(* set_stale_threshold. *)
SetThreshold(seconds) ==
    \/ seconds <= 0 /\ Reject(Query("threshold", "none"), "ValueError")
    \/ /\ seconds > 0
       /\ pc = "idle" /\ calls < MaxCalls
       /\ calls' = calls + 1
       /\ call' = Query("threshold", "none")
       /\ outcome' = Outcome("set")
       /\ threshold' = seconds
       /\ moved' = FALSE
       /\ UNCHANGED <<pc, marketVars, chainVars, moves>>

(* The status word of the node, or what position makes of an unknown one: *)
(* by the ratio, but for a position that has been liquidated, which stays *)
(* so even if the price recovers.                                         *)
Statuses(ratio) ==
    IF vault.state = "liquidated" THEN {"liquidated"}
    ELSE {Band(ratio), IF ratio >= SafeRatio THEN "healthy" ELSE "marginal"}

(* Mutant: only the critical ratio warns. *)
WarningsCriticalOnly(ratio, status) ==
    {w \in {"critical", "status", "near"} :
        \/ w = "critical" /\ ratio < Critical
        \/ w = "status" /\ status \in {"critical", "at_risk"}
        \/ w = "near" /\ feed.price - LiquidationPrice < Near}

(* _build_warnings. *)
Warnings(ratio, status) ==
    {w \in {"critical", "low", "status", "near"} :
        \/ w = "critical" /\ ratio < Critical
        \/ w = "low" /\ ratio < Warn /\ ratio >= Critical
        \/ w = "status" /\ status \in {"critical", "at_risk"}
        \/ w = "near" /\ feed.price - LiquidationPrice < Near}

(* vault_status, and what health_check and report make of it: the price,   *)
(* the status and the warnings of the snapshot are kept.                   *)
Position ==
    LET ratio == RatioOf(vault.collateral, vault.debt, feed.price) IN
    /\ pc = "position"
    /\ vault.debt > 0
    /\ \E status \in Statuses(ratio) :
         LET found == Warnings(ratio, status) IN
         \/ call.op = "status" /\ End(Outcome("snapshot"))
         \/ /\ call.op # "status"
            /\ Go("feed", [call EXCEPT !.price = feed.price, !.status = status,
                                       !.troubles = found])
    /\ Reading

PositionMissing ==
    /\ pc = "position"
    /\ vault.debt = 0
    /\ \/ call.op = "status" /\ End(Outcome("PGEVaultNotFoundError"))
       \/ call.op # "status" /\ Go("feed", [call EXCEPT !.troubles = {"unfunded"}])
    /\ Reading

ReadFeed ==
    /\ pc = "feed"
    /\ Go("chain", [call EXCEPT !.seen = feed])
    /\ Reading

(* The end of health_check and report, with the troubles found, and with   *)
(* a price of the oracle of this age in the result, or with none.          *)
Verdict(troubles, priced, age) ==
    End([Outcome(IF call.op = "report" THEN "report"
                 ELSE IF troubles = {} /\ call.causes # "off" THEN "healthy"
                 ELSE "unhealthy") EXCEPT !.priced = priced, !.age = age])

(* Mutant: the age does not count. *)
StaleBySaying(f, age) == f.flag = "stale"

(* OraclePrice.stale: the word of the node if it gives one, else the age,  *)
(* which is taken after the second request.                                *)
Stale(f, age) == IF f.flag = "unsaid" THEN age > threshold ELSE f.flag = "stale"

Untrusted(f, age) == Stale(f, age) \/ ~f.quorum

Priced(age) == End([Outcome("price") EXCEPT !.age = age])

ReadChain ==
    /\ pc = "chain"
    /\ \E age \in {a \in Ages : a >= call.seen.age} :
         \/ call.op = "health" /\ Go("stats", call)
         \/ call.op = "network" /\ End(Outcome("network"))
         \/ call.op = "usd" /\ Priced(age)
         \/ call.op = "trusted" /\ Stale(call.seen, age)
            /\ End(Outcome("OraclePriceStaleError"))
         \/ call.op = "trusted" /\ ~Stale(call.seen, age) /\ ~call.seen.quorum
            /\ End(Outcome("OracleQuorumError"))
         \/ call.op = "trusted" /\ ~Untrusted(call.seen, age) /\ Priced(age)
         \/ call.op \in {"check", "report"}
            /\ Verdict(call.troubles \cup
                 (IF Untrusted(call.seen, age) THEN {"oracle"} ELSE {}), TRUE, age)
    /\ Reading

(* getoraclestatus, getoracleprice of is_available, getcollateralbalance.  *)
ReadNetwork   == pc = "network" /\ Go("chain", call) /\ Reading
ReadAvailable == pc = "available" /\ End(Outcome("available")) /\ Reading
ReadBalance   == pc = "balance" /\ End(Outcome("balance")) /\ Reading

(* engine_projection: the current price is left out if there is none, and  *)
(* the division by the ratio comes after the request.                      *)
Projected(priced) ==
    IF call.ratio = 0 THEN Outcome("DivisionByZero")
    ELSE [Outcome("projected") EXCEPT !.priced = priced]

(* Mutant: engine_projection lets a stale price end it. *)
QuoteStale ==
    /\ pc = "quoting"
    /\ End(IF feed.flag = "stale" THEN Outcome("OracleStaleError") ELSE Projected(TRUE))
    /\ Reading

Quote ==
    /\ pc = "quoting"
    /\ End(Projected(feed.flag # "stale" /\ feed.price > 0))
    /\ Reading

ReadStats ==
    /\ pc = "stats"
    /\ End(Outcome(IF call.seen.flag # "stale" /\ ~blocked THEN "open" ELSE "degraded"))
    /\ Reading

-----------------------------------------------------------------------------
(* Requests that fail *)

(* health_check and report catch whatever the oracle client raises. *)
Catching == call.op \in {"check", "report"} /\ pc \in {"feed", "chain"}

(* The node answers with an error: what becomes of RPCError. The oracle    *)
(* client tells an unknown method (-32601) from the others.                *)
NodeError ==
    /\ "node" \in Faults
    /\ \/ pc \in {"sizing", "pricing", "balance"} /\ Raise("CDPError")
       \/ pc = "position" /\ Raise("RPCError")
       \/ pc \in {"feed", "chain", "stats"} /\ call.op = "health" /\ Raise("CDPError")
       \/ /\ pc \in {"feed", "chain", "network"}
          /\ call.op \in {"trusted", "usd", "network"}
          /\ Raise("OracleError") \/ Raise("OracleUnavailableError")
       \/ pc = "available" /\ Raise("unavailable")
       \/ pc = "quoting" /\ End(Projected(FALSE)) /\ Reading
       \/ Catching /\ Verdict(call.troubles, FALSE, 0) /\ Reading

(* The node is not reached, or a refusal or a reading is cut off: this is  *)
(* what is_available catches, too.                                         *)
LinkError ==
    /\ Faults \cap {"link", "reply"} # {}
    /\ \/ /\ pc \notin {"idle", "available"} /\ ~Catching
          /\ \/ "link" \in Faults /\ Raise("NodeConnectionError")
             \/ "reply" \in Faults /\ Raise("JSONDecodeError")
       \/ pc = "available" /\ Raise("unavailable")
       \/ Catching /\ Verdict(call.troubles, FALSE, 0) /\ Reading

-----------------------------------------------------------------------------
(* The node answers, if only with a refusal of its own. *)
Answer ==
    \/ Size \/ Price \/ PriceStale \/ Minted \/ MintFails
    \/ Redeemed \/ RedeemFails
    \/ Position \/ PositionMissing \/ ReadFeed \/ ReadChain \/ ReadStats
    \/ ReadNetwork \/ ReadAvailable \/ ReadBalance \/ Quote

Step == Answer \/ MintReplyLost \/ RedeemReplyLost \/ NodeError \/ LinkError

Next ==
    \/ Move
    \/ \E c \in Collaterals, r \in Ratios :
         \/ \E asked \in Asked : MintBegins("mint", c, r, asked)
         \/ \E asked \in Asked : MintRefused("mint", c, r, asked)
         \/ MintBegins("dry", c, r, Unasked) \/ MintRefused("dry", c, r, Unasked)
    \/ \E a \in Amounts : RedeemBegins(a) \/ RedeemRefused(a)
    \/ \E op \in {"check", "report"}, causes \in {"none", "valid", "off"} :
         QueryBegins(op, causes)
    \/ \E op \in {"status", "trusted", "usd", "network", "available", "health", "balance"} :
         QueryBegins(op, "none")
    \/ \E r \in Ratios \cup {0} : ProjectionBegins(r)
    \/ \E seconds \in Thresholds : SetThreshold(seconds)
    \/ Step

Spec == Init /\ [][Next]_vars

(* A call that has begun runs on: it has one thread, and every request is  *)
(* answered or ends by its timeout. No fault has to happen.                *)
FairSpec == Spec /\ WF_vars(Answer)
=============================================================================
