---------------------------- MODULE VaultSafety ----------------------------
(***************************************************************************)
(* What the vault client promises: properties of VaultClient.              *)
(***************************************************************************)
EXTENDS VaultClient, FiniteSets

Exceptions ==
    {"ValidationError", "CDPRatioTooLowError", "OracleStaleError", "CDPError",
     "CDPMintBlockedError", "InsufficientFundsError", "CDPNotFoundError",
     "CDPRedemptionError", "PGEVaultNotFoundError", "OracleError", "RPCError",
     "OraclePriceStaleError", "OracleQuorumError", "OracleUnavailableError",
     "ValueError", "DivisionByZero"} \cup Unanswered

Answers == {"simulated", "minted", "redeemed", "snapshot", "price", "healthy",
            "unhealthy", "report", "open", "degraded", "network", "available",
            "unavailable", "balance", "projected", "set"}

Call == [op : {"none", "mint", "dry", "redeem", "status", "check", "report",
               "trusted", "usd", "network", "available", "health", "balance",
               "projection", "threshold"},
         collateral : Int, ratio : Int, asked : SUBSET Int, amount : Int,
         sized : Nat, price : Nat, seen : Feed \cup {NoFeed},
         status : {"none", "healthy", "marginal", "at_risk", "critical", "liquidated"},
         troubles : SUBSET {"critical", "low", "status", "near", "unfunded"},
         causes : {"none", "valid", "off"}]

Locations == {"idle", "sizing", "pricing", "minting", "redeeming", "position",
              "feed", "chain", "stats", "network", "available", "balance", "quoting"}

(* What the node has done for the latest call. *)
MintsNow == {i \in DOMAIN mints : mints[i].call = calls}
BurnsNow == {i \in DOMAIN burns : burns[i] = calls}

(* The numbers of the vault are good at this price. *)
SafeAt(price) ==
    /\ RatioOf(vault.collateral, vault.debt, price) >= Warn
    /\ RatioOf(vault.collateral, vault.debt, price) >= Critical
    /\ price - LiquidationPrice >= Near

(* VaultSnapshot.is_healthy allows these status words only. *)
SoundWords == {"healthy", "marginal"}

-----------------------------------------------------------------------------
(* Every variable has its type: no debt and no balance is ever negative.   *)
TypeOK ==
    /\ pc \in Locations
    /\ call \in Call
    /\ outcome.kind \in {"none"} \cup Exceptions \cup Answers
    /\ threshold \in Nat \ {0}
    /\ feed \in Feed /\ blocked \in BOOLEAN /\ locked \in BOOLEAN
    /\ vault \in Vault /\ dgb \in Nat
    /\ calls \in 0 .. MaxCalls /\ moves \in 0 .. MaxMoves /\ moved \in BOOLEAN

(* The DUSD that mint sizes by itself keep the ratio that was asked for,   *)
(* the minimum at least, when the node executes the mint: for every price  *)
(* since the sizing that is not below it (cdp.py:426-433, 469).            *)
AutoMintsKeepRatio == \A i \in DOMAIN mints :
    LET m == mints[i] IN
    m.asked = Unasked /\ m.price >= m.sized =>
        /\ m.ratio >= MinimumRatio
        /\ m.collateral * m.price * 100 >= m.ratio * m.amount * Cent

(* The MintResult tells the truth: it is of the one mint that the node has *)
(* executed for this call; its ratio is not above what the vault has when  *)
(* the price has not fallen since its reading; and a mint that was sized   *)
(* by itself is never reported below the ratio asked for, unless the price *)
(* fell between the two readings of the call (cdp.py:490-501).             *)
MintResultIsTrue == outcome.kind = "minted" =>
    \E i \in MintsNow : LET m == mints[i] IN
        /\ m.collateral = call.collateral /\ m.amount = outcome.amount
        /\ m.price >= m.read =>
              outcome.ratio * m.amount * Cent <= m.collateral * m.price * 1000
        /\ m.asked = Unasked /\ m.read >= m.sized => outcome.ratio >= 10 * m.ratio

(* What an exception tells of the vault: a call acts at most once, and     *)
(* after any exception but NodeConnectionError and the JSONDecodeError of  *)
(* an answer cut off it has not acted at all; so has a call in dry mode. A *)
(* caller who repeats a call after a CDPError does not mint or redeem twice*)
(* (cdp.py:476-488, 524-540; pge.py:839-853; rpc.py:141-170).              *)
OnlyLostAnswersLeaveDoubt ==
    /\ Cardinality(MintsNow) + Cardinality(BurnsNow) <= 1
    /\ outcome.kind \notin {"minted"} \cup Unanswered => MintsNow = {}
    /\ outcome.kind \notin {"redeemed"} \cup Unanswered => BurnsNow = {}
    /\ call.op = "dry" => MintsNow = {}

(* What "healthy" is worth, although health_check asks the node three      *)
(* times and the node moves between its requests: at the price its first   *)
(* reading was made at, the vault was at or above both thresholds and away *)
(* from its liquidation; so it is at the price that the verdict took from  *)
(* the oracle afterwards, and at the price of now, unless that one is      *)
(* lower; and the snapshot in the result has a good status word itself,    *)
(* unless the position is liquidated (pge.py:603-625, 881-905).            *)
HealthyIsSafe == outcome.kind = "healthy" =>
    /\ vault.debt > 0
    /\ SafeAt(call.price)
    /\ \A price \in {call.seen.price, feed.price} : price >= call.price => SafeAt(price)
    /\ vault.state = "open" => call.status \in SoundWords

Trusting == \/ call.op = "trusted" /\ outcome.kind = "price"
            \/ outcome.kind = "healthy" /\ outcome.priced

(* What a trusted price is worth, and one in a healthy verdict: the answer *)
(* it comes from was of a quorum, the node did not call it stale, and if   *)
(* the node said nothing of that, it was not over the threshold the caller *)
(* has set, even by its age at the end of the two requests; and it is what *)
(* the node says now if the node is at rest. If the node does call it      *)
(* fresh, its age counts for nothing (oracle.py:221-267, 331-338).         *)
TrustIsEarned == Trusting =>
    /\ call.seen.quorum /\ call.seen.flag # "stale"
    /\ call.seen.flag = "unsaid" => outcome.age <= threshold
    /\ outcome.age >= call.seen.age
    /\ ~moved => feed = call.seen

(* Which calls survive a node in trouble: is_available never raises; only  *)
(* a missing answer or a ratio of zero ends engine_projection with one;    *)
(* and whatever becomes of the oracle's requests, health_check and report  *)
(* end with an exception only if it was the vault's request that failed    *)
(* (oracle.py:312-325; cdp.py:573-576; pge.py:881-908, 944-960).           *)
TroublesAreContained ==
    /\ call.op = "available" /\ pc = "idle" => outcome.kind \in {"available", "unavailable"}
    /\ call.op = "projection" /\ outcome.kind \in Exceptions =>
          \/ outcome.kind \in Unanswered
          \/ outcome.kind = "DivisionByZero" /\ call.ratio = 0
    /\ call.op \in {"check", "report"} /\ outcome.kind \in Exceptions => call.seen = NoFeed

(* A call that has begun comes back, with an answer or an exception.       *)
CallsEnd == pc # "idle" ~> pc = "idle"

-----------------------------------------------------------------------------
(* Why these invariants hold: the inductive invariant behind them          *)

Outcomes == [kind : {"none"} \cup Exceptions \cup Answers,
             amount : Int, ratio : Int, age : Nat, priced : BOOLEAN]

HistoriesTyped ==
    outcome \in Outcomes /\ mints \in Seq(Mint) /\ burns \in Seq(Nat)

(* The requests that the calls of an operation send. *)
Requests(op) ==
    CASE op = "mint"                    -> {"sizing", "pricing", "minting"}
      [] op = "dry"                     -> {"sizing"}
      [] op = "redeem"                  -> {"redeeming"}
      [] op = "status"                  -> {"position"}
      [] op \in {"check", "report"}     -> {"position", "feed", "chain"}
      [] op \in {"trusted", "usd"}      -> {"feed", "chain"}
      [] op = "health"                  -> {"feed", "chain", "stats"}
      [] op = "network"                 -> {"network", "chain"}
      [] op \in {"available", "balance"} -> {op}
      [] op = "projection"              -> {"quoting"}
      [] op \in {"none", "threshold"}   -> {}

(* A call under way has no outcome yet, and is at a request of its own. *)
AtWork == pc # "idle" => outcome = Outcome("none") /\ pc \in Requests(call.op)

(* What has been checked of the arguments. *)
ArgumentsChecked ==
    /\ pc \in {"sizing", "pricing", "minting"} =>
          call.collateral > 0 /\ call.ratio >= MinimumRatio
    /\ pc = "sizing" => call.asked = Unasked
    /\ pc \in {"pricing", "minting", "redeeming"} => call.amount > 0

(* What mint has sized keeps the ratio at the price of the sizing. *)
SizedKeepsRatio == pc \in {"pricing", "minting"} /\ call.asked = Unasked =>
    call.ratio * (call.amount * Cent) <= call.collateral * call.sized * 100

(* The vault owes nothing that is not covered by collateral: no ratio is a *)
(* division by zero.                                                       *)
DebtIsCovered == vault.debt > 0 => vault.collateral > 0

(* Whatever the node has done, it has done for one call at a time. *)
OneActEach ==
    /\ \A i \in DOMAIN mints : mints[i].call <= calls
    /\ \A i \in DOMAIN burns : burns[i] <= calls
    /\ \A i, j \in MintsNow : i = j
    /\ \A i, j \in BurnsNow : i = j
    /\ MintsNow = {} \/ BurnsNow = {}

(* What a check has seen of the vault was so at the price it was seen at;  *)
(* what it has seen of the oracle holds while the node is at rest; before  *)
(* it has asked the oracle it has seen nothing of it.                      *)
Observed ==
    /\ pc = "position" => call.seen = NoFeed
    /\ pc = "chain" /\ call.op # "network" /\ ~moved => feed = call.seen
    /\ pc \in {"feed", "chain"} /\ call.op \in {"check", "report"} /\ call.troubles = {}
       => /\ vault.debt > 0 /\ SafeAt(call.price)
          /\ vault.state = "open" => call.status \in SoundWords

(* What is known at each request of a call, and the promises above: every  *)
(* step of the client, an answer, a failure or a lost answer, and every    *)
(* move of the node between two requests keeps all of it (cdp.py:437-501,  *)
(* 509-545; pge.py:879-908).                                               *)
VaultInv ==
    /\ TypeOK /\ HistoriesTyped
    /\ AtWork /\ ArgumentsChecked /\ SizedKeepsRatio /\ DebtIsCovered
    /\ OneActEach /\ Observed
    /\ AutoMintsKeepRatio /\ MintResultIsTrue /\ OnlyLostAnswersLeaveDoubt
    /\ HealthyIsSafe /\ TrustIsEarned /\ TroublesAreContained

-----------------------------------------------------------------------------
(* What the documentation says and the code does not keep                  *)

(* A check that ends with "healthy" has a healthy snapshot of the vault in *)
(* its result: pge.py:283-284 says of which a snapshot is, and a position  *)
(* that was liquidated (cdp.py:93) is not one.                             *)
HealthyHasHealthySnapshot == outcome.kind = "healthy" =>
    call.status \in SoundWords /\ call.troubles = {}
=============================================================================
