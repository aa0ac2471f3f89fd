----------------------------- MODULE VaultProofs -----------------------------
(***************************************************************************)
(* Proofs about VaultClient for any arguments, prices, thresholds, faults  *)
(* and bounds: VaultInv is inductive, and with it every safety property of *)
(* VaultSafety holds always.                                               *)
(***************************************************************************)
EXTENDS VaultSafety, FiniteSetTheorems, TLAPS

USE DEF clientVars, marketVars, chainVars

-----------------------------------------------------------------------------
(* Integer division *)

(* The quotient, multiplied back, is the dividend but for a remainder.     *)
LEMMA Division ==
  ASSUME NEW a \in Int, NEW b \in Nat \ {0}
  PROVE  a \div b \in Int /\ (a \div b) * b <= a /\ a < (a \div b) * b + b
OBVIOUS

(* Products keep an order. *)
LEMMA TimesMonotonic ==
  ASSUME NEW a \in Int, NEW b \in Int, NEW c \in Nat, a <= b
  PROVE  a * c <= b * c
OBVIOUS

(* The quotient is the largest number that, multiplied back, is not above. *)
LEMMA DivisionLargest ==
  ASSUME NEW a \in Int, NEW b \in Nat \ {0}, NEW q \in Int, q * b <= a
  PROVE  q <= a \div b
<1> DEFINE d == a \div b
<1>1. d \in Int /\ a < (d + 1) * b
  BY Division
<1>2. CASE q >= d + 1
  <2>1. (d + 1) * b <= q * b
    BY <1>1, <1>2, TimesMonotonic
  <2> QED BY <2>1, <1>1
<1> QED BY <1>1, <1>2

(* Of something natural, the quotient is natural, too. *)
LEMMA DivisionNat ==
  ASSUME NEW a \in Nat, NEW b \in Nat \ {0}
  PROVE  a \div b \in Nat
<1>1. 0 * b <= a
  OBVIOUS
<1> QED BY <1>1, Division, DivisionLargest

-----------------------------------------------------------------------------
(* Types *)

(* The fields of what the oracle answers. *)
LEMMA FeedFields ==
  ASSUME NEW f \in Feed \cup {NoFeed}
  PROVE  /\ f.price \in Nat /\ f.age \in Nat
         /\ f.flag \in {"fresh", "stale", "unsaid"} /\ f.quorum \in BOOLEAN
<1>1. CASE f = NoFeed
  BY <1>1 DEF NoFeed
<1>2. CASE f \in Feed
  <2>1. f.price \in Prices /\ f.age \in Ages
    BY <1>2 DEF Feed
  <2> QED BY <1>2, <2>1, PricesAssumption, ConfigAssumption DEF Feed
<1> QED BY <1>1, <1>2

(* A call that has not been made, and every first state of one. *)
LEMMA NoCallType == NoCall \in Call /\ NoCall.seen = NoFeed
<1>1. Unasked \in SUBSET Int /\ NoFeed \in Feed \cup {NoFeed}
  BY DEF Unasked
<1>2. NoCall.seen = NoFeed
  BY DEF NoCall
<1>3. {} \in SUBSET {"critical", "low", "status", "near", "unfunded"}
  OBVIOUS
<1> HIDE DEF NoFeed, Unasked
<1> QED BY <1>1, <1>2, <1>3 DEF NoCall, Call

(* An outcome is one, whatever kind it is of. *)
LEMMA OutcomeType ==
  ASSUME NEW k \in {"none"} \cup Exceptions \cup Answers
  PROVE  Outcome(k) \in Outcomes /\ Outcome(k).kind = k
BY DEF Outcome, Outcomes

(* While a call is under way it has done nothing yet. *)
LEMMA NothingDoneYet ==
  ASSUME VaultInv, pc # "idle"
  PROVE  MintsNow = {} /\ BurnsNow = {} /\ outcome.kind = "none"
<1>1. outcome.kind = "none"
  BY DEF VaultInv, AtWork, Outcome
<1>2. "none" \notin {"minted", "redeemed"} \cup Unanswered
  BY DEF Unanswered
<1> QED BY <1>1, <1>2 DEF VaultInv, OnlyLostAnswersLeaveDoubt

(* Of two sets, one of them empty and the other with one element at most.  *)
LEMMA OneAtMost ==
  ASSUME NEW S, NEW T, \A i, j \in S : i = j, \A i, j \in T : i = j, S = {} \/ T = {}
  PROVE  Cardinality(S) + Cardinality(T) <= 1
<1>1. Cardinality({}) = 0
  BY FS_EmptySet
<1>2. ASSUME NEW U, \A i, j \in U : i = j
      PROVE  Cardinality(U) \in {0, 1}
  <2>1. CASE U = {}
    BY <2>1, <1>1
  <2>2. CASE U # {}
    <3>1. PICK i \in U : U = {i}
      BY <2>2, <1>2
    <3> QED BY <3>1, FS_Singleton
  <2> QED BY <2>1, <2>2
<1>3. Cardinality(S) \in {0, 1} /\ Cardinality(T) \in {0, 1}
  BY <1>2
<1> QED BY <1>1, <1>3

(* The entries of the histories have their types, and are of calls begun.  *)
LEMMA HistoryTypes ==
  ASSUME VaultInv
  PROVE  /\ \A i \in DOMAIN mints : mints[i] \in Mint /\ mints[i].call <= calls
         /\ \A i \in DOMAIN burns : burns[i] \in Nat /\ burns[i] <= calls
BY DEF VaultInv, HistoriesTyped, OneActEach

(* The conjuncts that are about the node and its histories outlive every   *)
(* step that leaves these alone.                                           *)
LEMMA RestKept ==
  ASSUME VaultInv, UNCHANGED <<marketVars, chainVars, moves>>,
         threshold' \in Nat \ {0}, moved' \in BOOLEAN, pc' \in Locations,
         call' \in Call, outcome' \in Outcomes, calls' \in 0 .. MaxCalls
  PROVE  TypeOK' /\ HistoriesTyped' /\ DebtIsCovered' /\ AutoMintsKeepRatio'
<1>1. /\ feed \in Feed /\ blocked \in BOOLEAN /\ locked \in BOOLEAN
      /\ vault \in Vault /\ dgb \in Nat /\ moves \in 0 .. MaxMoves
  BY DEF VaultInv, TypeOK
<1>2. outcome'.kind \in {"none"} \cup Exceptions \cup Answers
  BY DEF Outcomes
<1>3. TypeOK'
  BY <1>1, <1>2 DEF TypeOK
<1>4. HistoriesTyped'
  BY DEF VaultInv, HistoriesTyped
<1>5. DebtIsCovered' /\ AutoMintsKeepRatio'
  BY DEF VaultInv, DebtIsCovered, AutoMintsKeepRatio
<1> QED BY <1>3, <1>4, <1>5

(* For a call that begins nothing has been done. *)
LEMMA NewCall ==
  ASSUME VaultInv, calls' = calls + 1, UNCHANGED <<mints, burns>>
  PROVE  MintsNow' = {} /\ BurnsNow' = {} /\ OneActEach'
<1>1. calls \in Nat
  BY DEF VaultInv, TypeOK
<1>2. \A i \in DOMAIN mints : mints[i].call # calls + 1 /\ mints[i].call <= calls + 1
  BY <1>1, HistoryTypes DEF Mint
<1>3. \A i \in DOMAIN burns : burns[i] # calls + 1 /\ burns[i] <= calls + 1
  BY <1>1, HistoryTypes
<1>4. MintsNow' = {} /\ BurnsNow' = {}
  BY <1>2, <1>3 DEF MintsNow, BurnsNow
<1> QED BY <1>2, <1>3, <1>4 DEF OneActEach

(* And within a call nothing is forgotten. *)
LEMMA SameCall ==
  ASSUME VaultInv, UNCHANGED <<calls, mints, burns>>
  PROVE  MintsNow' = MintsNow /\ BurnsNow' = BurnsNow /\ OneActEach'
<1>1. MintsNow' = MintsNow /\ BurnsNow' = BurnsNow
  BY DEF MintsNow, BurnsNow
<1> QED BY <1>1 DEF VaultInv, OneActEach

-----------------------------------------------------------------------------
(* Steps of the client that touch nothing of the node *)

(* A call begins, and its first request waits to be sent. *)
LEMMA BeginStep ==
  ASSUME VaultInv, NEW c \in Call, NEW first \in Requests(c.op), Begin(c, first),
         c.seen = NoFeed,
         first \in {"sizing", "pricing"} => c.collateral > 0 /\ c.ratio >= MinimumRatio,
         first = "sizing" => c.asked = Unasked,
         first = "pricing" => c.asked # Unasked,
         first \in {"pricing", "redeeming"} => c.amount > 0,
         first \notin {"idle", "minting", "chain"},
         c.op \in {"check", "report"} => first = "position"
  PROVE  VaultInv'
<1> USE DEF Begin
<1>1. calls \in Nat /\ calls' = calls + 1 /\ calls' \in 0 .. MaxCalls
  BY BoundsAssumption DEF VaultInv, TypeOK
<1>2. outcome' \in Outcomes /\ outcome'.kind = "none" /\ pc' = first /\ call' = c
  BY OutcomeType
<1>3. first \in Locations
  BY DEF Requests, Call, Locations
<1>4. TypeOK' /\ HistoriesTyped' /\ DebtIsCovered' /\ AutoMintsKeepRatio'
  <2>1. threshold' \in Nat \ {0} /\ moved' \in BOOLEAN
    BY DEF VaultInv, TypeOK
  <2> QED BY <1>1, <1>2, <1>3, <2>1, RestKept
<1>5. AtWork' /\ ArgumentsChecked' /\ SizedKeepsRatio'
  BY DEF AtWork, ArgumentsChecked, SizedKeepsRatio
<1>6. MintsNow' = {} /\ BurnsNow' = {} /\ OneActEach'
  BY <1>1, NewCall
<1>7. Observed'
  BY DEF Observed
<1>8. OnlyLostAnswersLeaveDoubt'
  BY <1>6, OneAtMost DEF OnlyLostAnswersLeaveDoubt
<1>9. MintResultIsTrue' /\ HealthyIsSafe' /\ TrustIsEarned' /\ TroublesAreContained'
  BY <1>2 DEF MintResultIsTrue, HealthyIsSafe, TrustIsEarned, Trusting,
              TroublesAreContained, Exceptions, Unanswered
<1> QED BY <1>4, <1>5, <1>6, <1>7, <1>8, <1>9 DEF VaultInv

(* A call that sends nothing leaves a result or an exception, and nothing  *)
(* else behind: a refusal, or a new threshold.                             *)
LEMMA ShortCallStep ==
  ASSUME VaultInv, pc = "idle", calls < MaxCalls, calls' = calls + 1, moved' = FALSE,
         call' \in Call, call'.op \notin {"available", "projection", "check", "report"},
         NEW k \in Exceptions \cup {"set"}, outcome' = Outcome(k),
         threshold' \in Nat \ {0}, UNCHANGED <<pc, marketVars, chainVars, moves>>
  PROVE  VaultInv'
<1>1. calls' \in 0 .. MaxCalls
  BY BoundsAssumption DEF VaultInv, TypeOK
<1>2. outcome' \in Outcomes /\ outcome'.kind = k
  BY OutcomeType DEF Answers
<1>3. k \notin {"minted", "redeemed", "healthy", "price"}
  BY DEF Exceptions, Unanswered
<1>4. TypeOK' /\ HistoriesTyped' /\ DebtIsCovered' /\ AutoMintsKeepRatio'
  BY <1>1, <1>2, RestKept DEF Locations
<1>5. AtWork' /\ ArgumentsChecked' /\ SizedKeepsRatio' /\ Observed'
  BY DEF AtWork, ArgumentsChecked, SizedKeepsRatio, Observed
<1>6. MintsNow' = {} /\ BurnsNow' = {} /\ OneActEach'
  BY NewCall
<1>7. OnlyLostAnswersLeaveDoubt'
  BY <1>6, OneAtMost DEF OnlyLostAnswersLeaveDoubt
<1>8. MintResultIsTrue' /\ HealthyIsSafe' /\ TrustIsEarned' /\ TroublesAreContained'
  BY <1>2, <1>3 DEF MintResultIsTrue, HealthyIsSafe, TrustIsEarned, Trusting,
                    TroublesAreContained
<1> QED BY <1>4, <1>5, <1>6, <1>7, <1>8 DEF VaultInv

(* Within a call, from one request to the next. *)
LEMMA GoStep ==
  ASSUME VaultInv, pc # "idle", NEW c \in Call, NEW next \in Requests(c.op),
         c.op = call.op, Go(next, c), Reading,
         ArgumentsChecked', SizedKeepsRatio', Observed'
  PROVE  VaultInv'
<1> USE DEF Go, Reading
<1>1. next \in Locations \ {"idle"}
  BY DEF Requests, Call, Locations
<1>2. outcome \in Outcomes /\ outcome.kind = "none" /\ outcome = Outcome("none")
  BY NothingDoneYet DEF VaultInv, HistoriesTyped, AtWork
<1>3. TypeOK' /\ HistoriesTyped' /\ DebtIsCovered' /\ AutoMintsKeepRatio'
  <2>1. threshold \in Nat \ {0} /\ moved \in BOOLEAN /\ calls \in 0 .. MaxCalls
    BY DEF VaultInv, TypeOK
  <2> QED BY <1>1, <1>2, <2>1, RestKept
<1>4. AtWork'
  BY <1>2 DEF AtWork
<1>5. MintsNow' = {} /\ BurnsNow' = {} /\ OneActEach'
  BY SameCall, NothingDoneYet
<1>6. OnlyLostAnswersLeaveDoubt'
  BY <1>5, OneAtMost DEF OnlyLostAnswersLeaveDoubt
<1>7. MintResultIsTrue' /\ HealthyIsSafe' /\ TrustIsEarned' /\ TroublesAreContained'
  BY <1>1, <1>2 DEF MintResultIsTrue, HealthyIsSafe, TrustIsEarned, Trusting,
                    TroublesAreContained, Exceptions, Unanswered
<1> QED BY <1>3, <1>4, <1>5, <1>6, <1>7 DEF VaultInv

(* A call that has only read ends: what is left to show is what its        *)
(* outcome is worth.                                                       *)
LEMMA EndStep ==
  ASSUME VaultInv, pc # "idle", NEW o \in Outcomes, End(o), Reading,
         o.kind # "minted", HealthyIsSafe', TrustIsEarned', TroublesAreContained'
  PROVE  VaultInv'
<1> USE DEF End, Reading
<1>1. TypeOK' /\ HistoriesTyped' /\ DebtIsCovered' /\ AutoMintsKeepRatio'
  <2>1. /\ threshold \in Nat \ {0} /\ moved \in BOOLEAN /\ calls \in 0 .. MaxCalls
        /\ call \in Call /\ pc' \in Locations
    BY DEF VaultInv, TypeOK, Locations
  <2> QED BY <2>1, RestKept
<1>2. AtWork' /\ ArgumentsChecked' /\ SizedKeepsRatio' /\ Observed'
  BY DEF AtWork, ArgumentsChecked, SizedKeepsRatio, Observed
<1>3. MintsNow' = {} /\ BurnsNow' = {} /\ OneActEach'
  BY SameCall, NothingDoneYet
<1>4. OnlyLostAnswersLeaveDoubt'
  BY <1>3, OneAtMost DEF OnlyLostAnswersLeaveDoubt
<1>5. MintResultIsTrue'
  BY DEF MintResultIsTrue
<1> QED BY <1>1, <1>2, <1>3, <1>4, <1>5 DEF VaultInv

(* Of most outcomes nothing is promised but that they are raised where     *)
(* they may be.                                                            *)
LEMMA PlainEndStep ==
  ASSUME VaultInv, pc # "idle", NEW o \in Outcomes, End(o), Reading,
         o.kind \notin {"minted", "healthy", "price"},
         call.op = "available" => o.kind \in {"available", "unavailable"},
         call.op = "projection" /\ o.kind \in Exceptions =>
            o.kind \in Unanswered \/ (o.kind = "DivisionByZero" /\ call.ratio = 0),
         call.op \in {"check", "report"} /\ o.kind \in Exceptions => call.seen = NoFeed
  PROVE  VaultInv'
<1>1. call' = call /\ outcome' = o
  BY DEF End
<1>2. HealthyIsSafe' /\ TrustIsEarned'
  BY <1>1 DEF HealthyIsSafe, TrustIsEarned, Trusting
<1>3. TroublesAreContained'
  BY <1>1 DEF TroublesAreContained
<1> QED BY <1>2, <1>3, EndStep

-----------------------------------------------------------------------------
(* Calls begin *)

(* The arguments of mint, as the client keeps them. *)
LEMMA MintCallType ==
  ASSUME NEW op \in {"mint", "dry"}, NEW c \in Collaterals, NEW r \in Ratios,
         NEW asked \in Asked
  PROVE  LET m == MintCall(op, c, r, asked) IN
         /\ m \in Call /\ m.op = op /\ m.collateral = c /\ m.ratio = r /\ m.asked = asked
         /\ m.seen = NoFeed
         /\ asked # Unasked => m.amount \in asked
<1> DEFINE a == IF asked = Unasked THEN 0 ELSE CHOOSE x \in asked : TRUE
<1>1. /\ asked \in SUBSET Int
      /\ asked # Unasked => a \in asked /\ a = CHOOSE x \in asked : TRUE
      /\ asked = Unasked => a = 0
  BY ArgumentsAssumption DEF Asked, Unasked
<1> HIDE DEF a
<1>2. a \in Int /\ c \in Int /\ r \in Int
  <2>1. a \in Int
    <3>1. CASE asked = Unasked
      BY <1>1, <3>1
    <3>2. CASE asked # Unasked
      BY <1>1, <3>2
    <3> QED BY <3>1, <3>2
  <2> QED BY <2>1, ArgumentsAssumption
<1>3. MintCall(op, c, r, asked) = [NoCall EXCEPT !.op = op, !.collateral = c,
                                   !.ratio = r, !.asked = asked, !.amount = a]
  BY DEF MintCall, a
<1>4. NoCall \in Call
  BY NoCallType
<1>5. NoCall.seen = NoFeed
  BY NoCallType
<1> QED BY <1>1, <1>2, <1>3, <1>4, <1>5 DEF Call

LEMMA MintBeginsStep ==
  ASSUME VaultInv, NEW op \in {"mint", "dry"}, NEW c \in Collaterals, NEW r \in Ratios,
         NEW asked \in Asked, op = "dry" => asked = Unasked,
         MintBegins(op, c, r, asked)
  PROVE  VaultInv'
<1> DEFINE m     == MintCall(op, c, r, asked)
           first == IF asked = Unasked THEN "sizing" ELSE "pricing"
<1>1. /\ m \in Call /\ m.op = op /\ m.collateral = c /\ m.ratio = r /\ m.asked = asked
      /\ m.seen = NoFeed
      /\ asked # Unasked => m.amount \in asked
  BY MintCallType
<1>2. c > 0 /\ r >= MinimumRatio /\ (\A a \in asked : a > 0) /\ Begin(m, first)
  BY DEF MintBegins
<1> HIDE DEF m
<1>3. first \in Requests(m.op)
  BY <1>1 DEF Requests
<1> QED BY <1>1, <1>2, <1>3, BeginStep

LEMMA MintRefusedStep ==
  ASSUME VaultInv, NEW op \in {"mint", "dry"}, NEW c \in Collaterals, NEW r \in Ratios,
         NEW asked \in Asked, MintRefused(op, c, r, asked)
  PROVE  VaultInv'
<1> DEFINE m == MintCall(op, c, r, asked)
<1>1. m \in Call /\ m.op = op
  BY MintCallType
<1>2. PICK x \in {"ValidationError", "CDPRatioTooLowError"} : Reject(m, x)
  BY DEF MintRefused
<1>3. x \in Exceptions
  BY DEF Exceptions
<1>4. threshold \in Nat \ {0}
  BY DEF VaultInv, TypeOK
<1> HIDE DEF m
<1> QED BY <1>1, <1>2, <1>3, <1>4, ShortCallStep DEF Reject

LEMMA RedeemBeginsStep ==
  ASSUME VaultInv, NEW a \in Amounts, RedeemBegins(a) \/ RedeemRefused(a)
  PROVE  VaultInv'
<1> DEFINE m == RedeemCall(a)
<1>1. m \in Call /\ m.op = "redeem" /\ m.seen = NoFeed /\ m.amount = a
  BY NoCallType, ArgumentsAssumption DEF RedeemCall, Call
<1> HIDE DEF m
<1>2. CASE a > 0 /\ Begin(m, "redeeming")
  <2>1. "redeeming" \in Requests(m.op)
    BY <1>1 DEF Requests
  <2> QED BY <1>1, <1>2, <2>1, BeginStep
<1>3. CASE Reject(m, "ValidationError")
  <2>1. "ValidationError" \in Exceptions /\ threshold \in Nat \ {0}
    BY DEF Exceptions, VaultInv, TypeOK
  <2> QED BY <1>1, <1>3, <2>1, ShortCallStep DEF Reject
<1> QED BY <1>2, <1>3 DEF RedeemBegins, RedeemRefused, m

(* The operations that are queries, but for the projection. *)
Queries == {"status", "check", "report", "trusted", "usd", "network", "available",
            "health", "balance"}

LEMMA QueryType ==
  ASSUME NEW op \in Queries \cup {"projection", "threshold"},
         NEW causes \in {"none", "valid", "off"}
  PROVE  LET q == Query(op, causes) IN
         q \in Call /\ q.op = op /\ q.seen = NoFeed
<1>1. NoCall \in Call /\ NoCall.seen = NoFeed
  BY NoCallType
<1> QED BY <1>1 DEF Query, Call, Queries

LEMMA QueryBeginsStep ==
  ASSUME VaultInv, NEW op \in Queries, NEW causes \in {"none", "valid", "off"},
         QueryBegins(op, causes)
  PROVE  VaultInv'
<1> DEFINE q     == Query(op, causes)
           first == FirstRequest(op)
<1>1. q \in Call /\ q.op = op /\ q.seen = NoFeed
  BY QueryType
<1>2. /\ first \in Requests(op)
      /\ first \in {"position", "feed", "network", "available", "balance"}
      /\ op \in {"check", "report"} => first = "position"
  BY DEF FirstRequest, Requests, Queries
<1>3. Begin(q, first)
  BY DEF QueryBegins
<1> HIDE DEF q, first
<1> QED BY <1>1, <1>2, <1>3, BeginStep

LEMMA ProjectionBeginsStep ==
  ASSUME VaultInv, NEW r \in Ratios \cup {0}, ProjectionBegins(r)
  PROVE  VaultInv'
<1> DEFINE q == [Query("projection", "none") EXCEPT !.ratio = r]
<1>1. Query("projection", "none") \in Call /\ Query("projection", "none").op = "projection"
      /\ Query("projection", "none").seen = NoFeed
  BY QueryType
<1>2. q \in Call /\ q.op = "projection" /\ q.seen = NoFeed
  BY <1>1, ArgumentsAssumption DEF Call
<1>3. Begin(q, "quoting")
  BY DEF ProjectionBegins
<1> HIDE DEF q
<1>4. "quoting" \in Requests(q.op)
  BY <1>2 DEF Requests
<1> QED BY <1>2, <1>3, <1>4, BeginStep

LEMMA SetThresholdStep ==
  ASSUME VaultInv, NEW seconds \in Thresholds, SetThreshold(seconds)
  PROVE  VaultInv'
<1> DEFINE q == Query("threshold", "none")
<1>1. q \in Call /\ q.op = "threshold"
  BY QueryType
<1>2. threshold \in Nat \ {0} /\ seconds \in Int /\ "ValueError" \in Exceptions
  BY ConfigAssumption DEF VaultInv, TypeOK, Exceptions
<1>3. PICK k \in Exceptions \cup {"set"} :
        /\ pc = "idle" /\ calls < MaxCalls /\ calls' = calls + 1 /\ moved' = FALSE
        /\ call' = q /\ outcome' = Outcome(k) /\ threshold' \in Nat \ {0}
        /\ UNCHANGED <<pc, marketVars, chainVars, moves>>
  BY <1>2 DEF SetThreshold, Reject
<1> HIDE DEF q
<1> QED BY <1>1, <1>3, ShortCallStep

-----------------------------------------------------------------------------
(* Minting *)

(* An amount that is sized by the client keeps the ratio. *)
LEMMA MintableKeepsRatio ==
  ASSUME NEW c \in Nat, NEW r \in Nat \ {0}, NEW p \in Nat
  PROVE  /\ Mintable(c, r, p) \in Nat
         /\ r * (Mintable(c, r, p) * Cent) <= c * p * 100
<1> DEFINE n == c * p * 100
           d == r * Cent
           a == n \div d
<1>1. n \in Nat /\ d \in Nat \ {0} /\ Cent \in Nat
  BY PricesAssumption
<1>2. Mintable(c, r, p) = a
  BY DEF Mintable
<1> HIDE DEF n, d
<1>3. a \in Nat /\ a * d <= n
  BY <1>1, Division, DivisionNat
<1> HIDE DEF a
<1>4. a * d = r * (a * Cent)
  BY <1>1, <1>3 DEF d
<1> QED BY <1>2, <1>3, <1>4 DEF n

LEMMA SizeStep ==
  ASSUME VaultInv, Size
  PROVE  VaultInv'
<1> DEFINE a == Mintable(call.collateral, call.ratio, feed.price)
<1>1. /\ pc = "sizing" /\ call \in Call /\ call.asked = Unasked
      /\ call.collateral > 0 /\ call.ratio >= MinimumRatio
      /\ call.op \in {"mint", "dry"}
  BY DEF Size, VaultInv, TypeOK, ArgumentsChecked, AtWork, Requests, Call
<1>2. call.collateral \in Nat /\ call.ratio \in Nat \ {0} /\ feed.price \in Nat
  BY <1>1, FeedFields DEF VaultInv, TypeOK, Call, MinimumRatio
<1>3. a \in Nat /\ call.ratio * (a * Cent) <= call.collateral * feed.price * 100
  BY <1>2, MintableKeepsRatio
<1>4. Reading /\ feed.flag # "stale"
  BY DEF Size
<1>5. CASE call.op = "dry"
  <2> DEFINE o == [Outcome("simulated") EXCEPT !.amount = a, !.ratio = 10 * call.ratio]
  <2>1. End(o)
    BY <1>5 DEF Size
  <2>2. Outcome("simulated") \in Outcomes /\ Outcome("simulated").kind = "simulated"
    BY OutcomeType DEF Answers
  <2> HIDE DEF a
  <2>3. o \in Outcomes /\ o.kind = "simulated"
    <3>1. [Outcome("simulated") EXCEPT !.amount = a] \in Outcomes
      BY <2>2, <1>3 DEF Outcomes
    <3>2. 10 * call.ratio \in Int
      BY <1>2
    <3> QED BY <2>2, <3>1, <3>2 DEF Outcomes
  <2> HIDE DEF o
  <2> QED BY <1>1, <1>4, <1>5, <2>1, <2>3, PlainEndStep
<1>6. CASE call.op # "dry" /\ a <= 0
  <2>1. End(Outcome("ValidationError"))
    BY <1>6, <1>3 DEF Size
  <2>2. Outcome("ValidationError") \in Outcomes
        /\ Outcome("ValidationError").kind = "ValidationError"
    BY OutcomeType DEF Exceptions
  <2> QED BY <1>1, <1>4, <1>6, <2>1, <2>2, PlainEndStep
<1>7. CASE call.op # "dry" /\ a > 0
  <2> DEFINE c == [call EXCEPT !.amount = a, !.sized = feed.price]
  <2>1. Go("pricing", c)
    BY <1>7, <1>3 DEF Size
  <2> HIDE DEF a
  <2>2. /\ c \in Call /\ c.op = "mint" /\ c.amount = a /\ c.sized = feed.price
        /\ c.collateral = call.collateral /\ c.ratio = call.ratio
    <3>1. call.op = "mint"
      BY <1>1, <1>7
    <3>2. [call EXCEPT !.amount = a] \in Call
      BY <1>1, <1>3 DEF Call
    <3> QED BY <1>1, <1>2, <3>1, <3>2 DEF Call
  <2> HIDE DEF c
  <2>3. pc' = "pricing" /\ call' = c
    BY <2>1 DEF Go
  <2>4. "pricing" \in Requests(c.op)
    BY <2>2 DEF Requests
  <2>5. ArgumentsChecked' /\ SizedKeepsRatio' /\ Observed'
    BY <1>1, <1>3, <1>7, <2>2, <2>3 DEF ArgumentsChecked, SizedKeepsRatio, Observed
  <2> QED BY <1>1, <1>4, <1>7, <2>1, <2>2, <2>4, <2>5, GoStep
<1> QED BY <1>3, <1>5, <1>6, <1>7

LEMMA PriceStep ==
  ASSUME VaultInv, Price
  PROVE  VaultInv'
<1> DEFINE c == [call EXCEPT !.price = feed.price]
<1>1. /\ pc = "pricing" /\ call \in Call /\ call.op = "mint" /\ call.amount > 0
      /\ call.collateral > 0 /\ call.ratio >= MinimumRatio
  BY DEF Price, VaultInv, TypeOK, ArgumentsChecked, AtWork, Requests, Call
<1>2. feed.price \in Nat
  BY FeedFields DEF VaultInv, TypeOK
<1>3. Reading /\ Go("minting", c)
  BY DEF Price
<1>4. /\ c \in Call /\ c.op = call.op /\ c.amount = call.amount /\ c.sized = call.sized
      /\ c.collateral = call.collateral /\ c.ratio = call.ratio /\ c.asked = call.asked
  BY <1>1, <1>2 DEF Call
<1> HIDE DEF c
<1>5. pc' = "minting" /\ call' = c
  BY <1>3 DEF Go
<1>6. "minting" \in Requests(c.op)
  BY <1>1, <1>4 DEF Requests
<1>7. ArgumentsChecked' /\ SizedKeepsRatio' /\ Observed'
  BY <1>1, <1>4, <1>5 DEF VaultInv, ArgumentsChecked, SizedKeepsRatio, Observed
<1> QED BY <1>1, <1>3, <1>4, <1>6, <1>7, GoStep

(* An exception of a call that only mints, redeems or reads. *)
LEMMA RaiseStep ==
  ASSUME VaultInv, pc # "idle", NEW x \in Exceptions, Raise(x), call.op # "available",
         call.op = "projection" => x \in Unanswered,
         call.op \in {"check", "report"} => call.seen = NoFeed
  PROVE  VaultInv'
<1>1. Outcome(x) \in Outcomes /\ Outcome(x).kind = x
  BY OutcomeType
<1>2. End(Outcome(x)) /\ Reading
  BY DEF Raise
<1>3. x \notin {"minted", "healthy", "price"}
  BY DEF Exceptions, Unanswered
<1> DEFINE o == Outcome(x)
<1> HIDE DEF o
<1>4. o \in Outcomes /\ o.kind = x /\ End(o)
  BY <1>1, <1>2 DEF o
<1>5. /\ o.kind \notin {"minted", "healthy", "price"}
      /\ call.op = "available" => o.kind \in {"available", "unavailable"}
      /\ call.op = "projection" /\ o.kind \in Exceptions =>
            o.kind \in Unanswered \/ (o.kind = "DivisionByZero" /\ call.ratio = 0)
      /\ call.op \in {"check", "report"} /\ o.kind \in Exceptions => call.seen = NoFeed
  BY <1>3, <1>4
<1> QED BY <1>2, <1>4, <1>5, PlainEndStep

LEMMA RefusalStep ==
  ASSUME VaultInv, PriceStale \/ MintFails \/ RedeemFails
  PROVE  VaultInv'
<1>1. PICK x \in Exceptions : Raise(x)
  BY DEF PriceStale, MintFails, RedeemFails, Exceptions
<1>2. pc \in {"sizing", "pricing", "minting", "redeeming"}
  BY DEF PriceStale, MintFails, RedeemFails
<1>3. call.op \in {"mint", "dry", "redeem"}
  BY <1>2 DEF VaultInv, TypeOK, Call, AtWork, Requests
<1> QED BY <1>1, <1>2, <1>3, RaiseStep

LEMMA ActualRatioType ==
  ASSUME NEW c \in Nat, NEW a \in Nat \ {0}, NEW read \in Nat
  PROVE  ActualRatio(c, a, read) \in Int
<1> DEFINE n == c * read * 1000
           d == a * Cent
<1>1. n \in Nat /\ d \in Nat \ {0}
  BY PricesAssumption
<1>2. ActualRatio(c, a, read) = n \div d
  BY DEF ActualRatio
<1> HIDE DEF n, d
<1> QED BY <1>1, <1>2, Division

(* What the client tells of a mint: the ratio at the price of its reading, *)
(* rounded down. A price that is not lower leaves it true.                 *)
LEMMA ActualRatioNotAbove ==
  ASSUME NEW c \in Nat, NEW a \in Nat \ {0}, NEW read \in Nat, NEW p \in Nat, p >= read
  PROVE  ActualRatio(c, a, read) * a * Cent <= c * p * 1000
<1> DEFINE n == c * read * 1000
           d == a * Cent
           q == n \div d
<1>1. n \in Nat /\ d \in Nat \ {0} /\ Cent \in Nat
  BY PricesAssumption
<1>2. ActualRatio(c, a, read) = q
  BY DEF ActualRatio
<1> HIDE DEF n, d
<1>3. q \in Int /\ q * d <= n
  BY <1>1, Division
<1> HIDE DEF q
<1>4. read * c <= p * c
  BY TimesMonotonic
<1>5. n <= c * p * 1000
  BY <1>4 DEF n
<1>6. q * a * Cent = q * d
  BY <1>1, <1>3 DEF d
<1> QED BY <1>1, <1>2, <1>3, <1>5, <1>6

(* And what was sized at a price that is not higher does not fall below    *)
(* its ratio.                                                              *)
LEMMA ActualRatioNotBelow ==
  ASSUME NEW c \in Nat, NEW r \in Nat, NEW a \in Nat \ {0}, NEW read \in Nat,
         NEW s \in Nat, read >= s, r * (a * Cent) <= c * s * 100
  PROVE  ActualRatio(c, a, read) >= 10 * r
<1> DEFINE n == c * read * 1000
           d == a * Cent
<1>1. n \in Nat /\ d \in Nat \ {0} /\ Cent \in Nat
  BY PricesAssumption
<1>2. ActualRatio(c, a, read) = n \div d
  BY DEF ActualRatio
<1> HIDE DEF n, d
<1>3. s * c <= read * c
  BY TimesMonotonic
<1>4. r * d <= c * s * 100 /\ (10 * r) * d = 10 * (r * d)
  BY <1>1 DEF d
<1>5. (10 * r) * d <= n
  BY <1>1, <1>3, <1>4 DEF n
<1>6. 10 * r <= n \div d
  BY <1>1, <1>5, DivisionLargest
<1> QED BY <1>1, <1>2, <1>6, Division

(* What has been sized at one price keeps the ratio at a higher one. *)
LEMMA SizedKeepsRatioLater ==
  ASSUME NEW c \in Nat, NEW r \in Nat, NEW a \in Nat, NEW s \in Nat, NEW p \in Nat,
         p >= s, r * (a * Cent) <= c * s * 100
  PROVE  c * p * 100 >= r * a * Cent
<1>1. s * c <= p * c
  BY TimesMonotonic
<1>2. Cent \in Nat /\ r * (a * Cent) = r * a * Cent
  BY PricesAssumption
<1> QED BY <1>1, <1>2

(* The node executes the mint; the answer arrives or it does not. *)
LEMMA MintStep ==
  ASSUME VaultInv, pc = "minting", Lock, NEW o \in Outcomes, End(o),
         \/ o.kind \in Unanswered
         \/ /\ o.kind = "minted" /\ o.amount = call.amount
            /\ o.ratio = ActualRatio(call.collateral, call.amount, call.price)
  PROVE  VaultInv'
<1> DEFINE m == [call |-> calls, asked |-> call.asked, collateral |-> call.collateral,
                 ratio |-> call.ratio, amount |-> call.amount, sized |-> call.sized,
                 read |-> call.price, price |-> feed.price]
<1>1. /\ call \in Call /\ call.op = "mint" /\ call.amount > 0
      /\ call.collateral > 0 /\ call.ratio >= MinimumRatio
      /\ call.asked = Unasked
           => call.ratio * (call.amount * Cent) <= call.collateral * call.sized * 100
  BY DEF VaultInv, TypeOK, ArgumentsChecked, SizedKeepsRatio, AtWork, Requests, Call
<1>2. /\ feed.price \in Nat /\ calls \in Nat /\ dgb \in Nat /\ vault \in Vault
      /\ mints \in Seq(Mint) /\ burns \in Seq(Nat)
  BY FeedFields DEF VaultInv, TypeOK, HistoriesTyped
<1>3. /\ call.collateral \in Nat \ {0} /\ call.amount \in Nat \ {0}
      /\ call.ratio \in Nat \ {0} /\ call.sized \in Nat /\ call.price \in Nat
      /\ call.asked \in SUBSET Int
  BY <1>1 DEF Call, MinimumRatio
<1>4. m \in Mint
  BY <1>2, <1>3 DEF Mint
<1>5. /\ mints' = Append(mints, m) /\ dgb' \in Nat /\ call' = call /\ outcome' = o
      /\ pc' = "idle"
      /\ UNCHANGED <<calls, threshold, marketVars, burns, moved, moves>>
      /\ vault' = [collateral |-> Standing.collateral + call.collateral,
                   debt       |-> Standing.debt + call.amount, state |-> "open"]
  BY <1>2, <1>3 DEF Lock, End
<1>6. o.kind \in {"minted"} \cup Unanswered
  OBVIOUS
<1>7. vault' \in Vault /\ vault'.collateral > 0
  <2>1. Standing \in Vault
    BY <1>2 DEF Standing, NoVault, Vault
  <2> QED BY <1>3, <1>5, <2>1 DEF Vault
<1>8. TypeOK'
  <2>1. o.kind \in {"none"} \cup Exceptions \cup Answers
    BY DEF Outcomes
  <2> QED BY <1>1, <1>5, <1>7, <2>1 DEF VaultInv, TypeOK, Locations
<1> HIDE DEF m
<1>9. HistoriesTyped'
  BY <1>2, <1>4, <1>5 DEF HistoriesTyped
<1>10. DebtIsCovered'
  BY <1>7 DEF DebtIsCovered
<1>11. AtWork' /\ ArgumentsChecked' /\ SizedKeepsRatio' /\ Observed'
  BY <1>5 DEF AtWork, ArgumentsChecked, SizedKeepsRatio, Observed
<1>12. /\ DOMAIN mints' = 1 .. Len(mints) + 1 /\ Len(mints) \in Nat
       /\ mints'[Len(mints) + 1] = m
       /\ \A i \in 1 .. Len(mints) : mints'[i] = mints[i]
  BY <1>2, <1>4, <1>5
<1>13. m.call = calls
  BY DEF m
<1>14. MintsNow' = {Len(mints) + 1} /\ BurnsNow' = {}
  <2>1. \A i \in 1 .. Len(mints) : mints'[i].call # calls
    BY <1>2, <1>12, NothingDoneYet DEF MintsNow
  <2>2. BurnsNow' = {}
    BY <1>5, NothingDoneYet DEF BurnsNow
  <2>3. MintsNow' = {Len(mints) + 1}
    BY <1>5, <1>12, <1>13, <2>1 DEF MintsNow
  <2> QED BY <2>2, <2>3
<1>15. OneActEach'
  <2>1. \A i \in DOMAIN mints' : mints'[i].call <= calls'
    BY <1>2, <1>5, <1>12, <1>13, HistoryTypes
  <2>2. \A i \in DOMAIN burns' : burns'[i] <= calls'
    BY <1>5, HistoryTypes
  <2> QED BY <1>14, <2>1, <2>2 DEF OneActEach
<1>16. OnlyLostAnswersLeaveDoubt'
  <2>1. Cardinality(MintsNow') + Cardinality(BurnsNow') <= 1
    BY <1>14, OneAtMost
  <2> QED BY <1>1, <1>5, <1>6, <1>14, <2>1 DEF OnlyLostAnswersLeaveDoubt
<1>17. AutoMintsKeepRatio'
  <2>1. SUFFICES ASSUME NEW i \in DOMAIN mints', mints'[i].asked = Unasked,
                        mints'[i].price >= mints'[i].sized
                 PROVE  LET n == mints'[i] IN
                        /\ n.ratio >= MinimumRatio
                        /\ n.collateral * n.price * 100 >= n.ratio * n.amount * Cent
    BY DEF AutoMintsKeepRatio
  <2>2. CASE i \in DOMAIN mints
    BY <1>2, <1>12, <2>1, <2>2 DEF VaultInv, AutoMintsKeepRatio
  <2>3. CASE i = Len(mints) + 1
    <3>1. /\ mints'[i] = m /\ call.asked = Unasked /\ feed.price >= call.sized
      BY <1>12, <2>1, <2>3 DEF m
    <3>2. call.collateral * feed.price * 100 >= call.ratio * call.amount * Cent
      <4> DEFINE c == call.collateral
                 r == call.ratio
                 a == call.amount
                 s == call.sized
                 p == feed.price
      <4>1. /\ c \in Nat /\ r \in Nat /\ a \in Nat /\ s \in Nat /\ p \in Nat
            /\ p >= s /\ r * (a * Cent) <= c * s * 100
        BY <1>1, <1>2, <1>3, <3>1
      <4> HIDE DEF c, r, a, s, p
      <4>2. c * p * 100 >= r * a * Cent
        BY <4>1, SizedKeepsRatioLater
      <4> QED BY <4>2 DEF c, r, a, p
    <3> QED BY <1>1, <3>1, <3>2 DEF m
  <2> QED BY <1>2, <1>12, <2>1, <2>2, <2>3
<1>18. MintResultIsTrue'
  <2>1. SUFFICES ASSUME o.kind = "minted"
                 PROVE  /\ m.collateral = call.collateral /\ m.amount = o.amount
                        /\ m.price >= m.read =>
                             o.ratio * m.amount * Cent <= m.collateral * m.price * 1000
                        /\ m.asked = Unasked /\ m.read >= m.sized => o.ratio >= 10 * m.ratio
    BY <1>5, <1>12, <1>14 DEF MintResultIsTrue
  <2>2. /\ o.amount = call.amount
        /\ o.ratio = ActualRatio(call.collateral, call.amount, call.price)
    BY <2>1 DEF Unanswered
  <2>3. /\ m.collateral = call.collateral /\ m.amount = call.amount
        /\ m.ratio = call.ratio /\ m.asked = call.asked /\ m.sized = call.sized
        /\ m.read = call.price /\ m.price = feed.price
    BY DEF m
  <2> DEFINE c == call.collateral
             r == call.ratio
             a == call.amount
             read == call.price
             p == feed.price
             s == call.sized
             q == ActualRatio(c, a, read)
  <2>4. /\ c \in Nat /\ r \in Nat /\ a \in Nat \ {0} /\ read \in Nat /\ p \in Nat
        /\ s \in Nat /\ o.ratio = q
        /\ call.asked = Unasked => r * (a * Cent) <= c * s * 100
    BY <1>1, <1>2, <1>3, <2>2
  <2> HIDE DEF c, r, a, read, p, s
  <2>5. p >= read => q * a * Cent <= c * p * 1000
    BY <2>4, ActualRatioNotAbove
  <2>6. read >= s /\ r * (a * Cent) <= c * s * 100 => q >= 10 * r
    BY <2>4, ActualRatioNotBelow
  <2> HIDE DEF q
  <2>7. /\ p >= read => o.ratio * a * Cent <= c * p * 1000
        /\ call.asked = Unasked /\ read >= s => o.ratio >= 10 * r
    BY <2>4, <2>5, <2>6
  <2> QED BY <2>2, <2>3, <2>7 DEF c, r, a, read, p, s
<1>19. HealthyIsSafe' /\ TrustIsEarned' /\ TroublesAreContained'
  BY <1>1, <1>5, <1>6 DEF HealthyIsSafe, TrustIsEarned, Trusting, TroublesAreContained,
                          Unanswered
<1> QED BY <1>8, <1>9, <1>10, <1>11, <1>15, <1>16, <1>17, <1>18, <1>19 DEF VaultInv

LEMMA MintedStep ==
  ASSUME VaultInv, Minted \/ MintReplyLost
  PROVE  VaultInv'
<1>1. CASE Minted
  <2> DEFINE r == ActualRatio(call.collateral, call.amount, call.price)
             o == [Outcome("minted") EXCEPT !.amount = call.amount, !.ratio = r]
  <2>1. pc = "minting" /\ Lock /\ End(o)
    BY <1>1 DEF Minted
  <2>2. /\ call.amount \in Nat \ {0} /\ call.collateral \in Nat /\ call.price \in Nat
    BY <2>1 DEF VaultInv, TypeOK, Call, ArgumentsChecked
  <2>3. r \in Int
    BY <2>2, ActualRatioType
  <2> HIDE DEF r
  <2>4. o \in Outcomes /\ o.kind = "minted" /\ o.amount = call.amount /\ o.ratio = r
    <3>1. Outcome("minted") \in Outcomes /\ Outcome("minted").kind = "minted"
      BY OutcomeType DEF Answers
    <3>2. [Outcome("minted") EXCEPT !.amount = call.amount] \in Outcomes
      BY <2>2, <3>1 DEF Outcomes
    <3> QED BY <2>3, <3>1, <3>2 DEF Outcomes
  <2> HIDE DEF o
  <2> QED BY <2>1, <2>4, MintStep DEF r
<1>2. CASE MintReplyLost
  <2>1. pc = "minting" /\ Lock
    BY <1>2 DEF MintReplyLost
  <2>2. PICK x \in Unanswered : End(Outcome(x))
    BY <1>2 DEF MintReplyLost
  <2>3. Outcome(x) \in Outcomes /\ Outcome(x).kind = x
    BY OutcomeType DEF Exceptions
  <2> QED BY <2>1, <2>2, <2>3, MintStep
<1> QED BY <1>1, <1>2

-----------------------------------------------------------------------------
(* Redeeming *)

(* The part of the collateral that comes back for a part of the debt: less *)
(* than all of it, unless all of the debt is paid.                         *)
LEMMA PartComesBack ==
  ASSUME NEW c \in Nat, NEW a \in Nat, NEW d \in Nat \ {0}, a <= d
  PROVE  /\ (c * a) \div d \in Nat /\ (c * a) \div d <= c
         /\ c > 0 /\ a < d => (c * a) \div d < c
<1> DEFINE n == c * a
           b == n \div d
<1>1. n \in Nat /\ n <= c * d
  <2>1. a * c <= d * c
    BY TimesMonotonic
  <2> QED BY <2>1
<1>2. n = a * c
  OBVIOUS
<1> HIDE DEF n
<1>3. b \in Nat /\ b * d <= n
  BY <1>1, Division, DivisionNat
<1> HIDE DEF b
<1>4. ASSUME b >= c + 1
      PROVE  FALSE
  <2>1. (c + 1) * d <= b * d
    BY <1>3, <1>4, TimesMonotonic
  <2> QED BY <1>1, <1>3, <2>1
<1>5. ASSUME c > 0, a < d, b >= c
      PROVE  FALSE
  <2>1. c * d <= b * d
    BY <1>3, <1>5, TimesMonotonic
  <2>2. (a + 1) * c <= d * c
    BY <1>5, TimesMonotonic
  <2> QED BY <1>2, <1>3, <1>5, <2>1, <2>2
<1> QED BY <1>3, <1>4, <1>5 DEF b, n

(* The node executes the redemption; the answer arrives or it does not. *)
LEMMA RedeemStep ==
  ASSUME VaultInv, pc = "redeeming", Unlock, NEW o \in Outcomes, End(o),
         o.kind \in {"redeemed"} \cup Unanswered
  PROVE  VaultInv'
<1>1. call \in Call /\ call.op = "redeem" /\ call.amount \in Nat \ {0}
  BY DEF VaultInv, TypeOK, ArgumentsChecked, AtWork, Requests, Call
<1>2. /\ calls \in Nat /\ dgb \in Nat /\ vault \in Vault
      /\ mints \in Seq(Mint) /\ burns \in Seq(Nat)
  BY DEF VaultInv, TypeOK, HistoriesTyped
<1>3. /\ vault.collateral \in Nat /\ vault.debt \in Nat /\ call.amount <= vault.debt
      /\ vault.debt > 0 => vault.collateral > 0
  BY <1>2 DEF Vault, Unlock, VaultInv, DebtIsCovered
<1> DEFINE back == (vault.collateral * call.amount) \div vault.debt
<1>4. /\ burns' = Append(burns, calls) /\ call' = call /\ outcome' = o /\ pc' = "idle"
      /\ UNCHANGED <<calls, threshold, marketVars, mints, moved, moves>>
      /\ vault' = [collateral |-> vault.collateral - back,
                   debt       |-> vault.debt - call.amount, state |-> "open"]
      /\ dgb' = dgb + back
  BY DEF Unlock, End
<1>5. /\ back \in Nat /\ back <= vault.collateral
      /\ vault.collateral > 0 /\ call.amount < vault.debt => back < vault.collateral
  <2> DEFINE c == vault.collateral
             a == call.amount
             d == vault.debt
  <2>1. c \in Nat /\ a \in Nat /\ d \in Nat \ {0} /\ a <= d
    BY <1>1, <1>3
  <2> HIDE DEF c, a, d
  <2>2. /\ (c * a) \div d \in Nat /\ (c * a) \div d <= c
        /\ c > 0 /\ a < d => (c * a) \div d < c
    BY <2>1, PartComesBack
  <2> QED BY <2>2 DEF c, a, d
<1> HIDE DEF back
<1>6. vault' \in Vault /\ dgb' \in Nat /\ DebtIsCovered'
  BY <1>1, <1>2, <1>3, <1>4, <1>5 DEF Vault, DebtIsCovered
<1>7. TypeOK'
  <2>1. o.kind \in {"none"} \cup Exceptions \cup Answers
    BY DEF Outcomes
  <2> QED BY <1>1, <1>4, <1>6, <2>1 DEF VaultInv, TypeOK, Locations
<1>8. HistoriesTyped'
  BY <1>2, <1>4 DEF HistoriesTyped
<1>9. AtWork' /\ ArgumentsChecked' /\ SizedKeepsRatio' /\ Observed'
  BY <1>4 DEF AtWork, ArgumentsChecked, SizedKeepsRatio, Observed
<1>10. /\ DOMAIN burns' = 1 .. Len(burns) + 1 /\ Len(burns) \in Nat
       /\ burns'[Len(burns) + 1] = calls
       /\ \A i \in 1 .. Len(burns) : burns'[i] = burns[i]
  BY <1>2, <1>4
<1>11. BurnsNow' = {Len(burns) + 1} /\ MintsNow' = {}
  <2>1. \A i \in 1 .. Len(burns) : burns'[i] # calls
    BY <1>2, <1>10, NothingDoneYet DEF BurnsNow
  <2>2. MintsNow' = {}
    BY <1>4, NothingDoneYet DEF MintsNow
  <2>3. BurnsNow' = {Len(burns) + 1}
    BY <1>4, <1>10, <2>1 DEF BurnsNow
  <2> QED BY <2>2, <2>3
<1>12. OneActEach'
  <2>1. \A i \in DOMAIN burns' : burns'[i] <= calls'
    BY <1>2, <1>4, <1>10, HistoryTypes
  <2>2. \A i \in DOMAIN mints' : mints'[i].call <= calls'
    BY <1>4, HistoryTypes
  <2> QED BY <1>11, <2>1, <2>2 DEF OneActEach
<1>13. OnlyLostAnswersLeaveDoubt'
  <2>1. Cardinality(MintsNow') + Cardinality(BurnsNow') <= 1
    BY <1>11, OneAtMost
  <2> QED BY <1>1, <1>4, <1>11, <2>1 DEF OnlyLostAnswersLeaveDoubt
<1>14. AutoMintsKeepRatio'
  BY <1>4 DEF VaultInv, AutoMintsKeepRatio
<1>15. /\ MintResultIsTrue' /\ HealthyIsSafe' /\ TrustIsEarned'
       /\ TroublesAreContained'
  BY <1>1, <1>4 DEF MintResultIsTrue, HealthyIsSafe, TrustIsEarned, Trusting,
                    TroublesAreContained, Unanswered
<1> QED BY <1>6, <1>7, <1>8, <1>9, <1>12, <1>13, <1>14, <1>15 DEF VaultInv

LEMMA RedeemedStep ==
  ASSUME VaultInv, Redeemed \/ RedeemReplyLost
  PROVE  VaultInv'
<1>1. CASE Redeemed
  <2> DEFINE o == [Outcome("redeemed") EXCEPT !.amount = call.amount]
  <2>1. pc = "redeeming" /\ Unlock /\ End(o)
    BY <1>1 DEF Redeemed
  <2>2. o \in Outcomes /\ o.kind = "redeemed"
    <3>1. Outcome("redeemed") \in Outcomes /\ Outcome("redeemed").kind = "redeemed"
      BY OutcomeType DEF Answers
    <3>2. call.amount \in Int
      BY DEF VaultInv, TypeOK, Call
    <3> QED BY <3>1, <3>2 DEF Outcomes
  <2> HIDE DEF o
  <2> QED BY <2>1, <2>2, RedeemStep
<1>2. CASE RedeemReplyLost
  <2>1. pc = "redeeming" /\ Unlock
    BY <1>2 DEF RedeemReplyLost
  <2>2. PICK x \in Unanswered : End(Outcome(x))
    BY <1>2 DEF RedeemReplyLost
  <2>3. Outcome(x) \in Outcomes /\ Outcome(x).kind = x
    BY OutcomeType DEF Exceptions
  <2> QED BY <2>1, <2>2, <2>3, RedeemStep
<1> QED BY <1>1, <1>2

-----------------------------------------------------------------------------
(* Queries *)

(* Which calls a request may be of. *)
LEMMA RequestIsOf ==
  ASSUME VaultInv, pc # "idle"
  PROVE  /\ call.op = "available" <=> pc = "available"
         /\ call.op = "projection" <=> pc = "quoting"
         /\ pc \in {"sizing", "pricing", "minting", "redeeming"} =>
               call.op \in {"mint", "dry", "redeem"}
         /\ pc = "position" => call.op \in {"status", "check", "report"}
         /\ pc = "feed" => call.op \in {"check", "report", "trusted", "usd", "health"}
         /\ pc = "chain" =>
               call.op \in {"check", "report", "trusted", "usd", "health", "network"}
         /\ pc = "stats" => call.op = "health"
         /\ pc = "network" => call.op = "network"
         /\ pc = "balance" => call.op = "balance"
BY DEF VaultInv, TypeOK, Call, AtWork, Requests

(* At a higher price a ratio is not lower. *)
LEMMA RatioRises ==
  ASSUME NEW c \in Nat, NEW d \in Nat \ {0}, NEW p \in Nat, NEW q \in Nat, p <= q
  PROVE  /\ RatioOf(c, d, p) \in Int /\ RatioOf(c, d, q) \in Int
         /\ RatioOf(c, d, p) <= RatioOf(c, d, q)
<1> DEFINE m == c * p * 100
           n == c * q * 100
           b == d * Cent
           r == m \div b
<1>1. m \in Nat /\ n \in Nat /\ b \in Nat \ {0}
  BY PricesAssumption
<1>2. m <= n
  <2>1. p * c <= q * c
    BY TimesMonotonic
  <2> QED BY <2>1
<1>3. RatioOf(c, d, p) = r /\ RatioOf(c, d, q) = n \div b
  BY DEF RatioOf
<1> HIDE DEF m, n, b
<1>4. r \in Int /\ r * b <= m /\ n \div b \in Int
  BY <1>1, Division
<1> HIDE DEF r
<1>5. r <= n \div b
  <2>1. r * b \in Int /\ r * b <= n
    BY <1>1, <1>2, <1>4
  <2> QED BY <1>1, <1>4, <2>1, DivisionLargest
<1> QED BY <1>3, <1>4, <1>5

(* What a position says of a vault in debt are numbers. *)
LEMMA PositionNumbers ==
  ASSUME VaultInv, vault.debt > 0
  PROVE  /\ vault.collateral \in Nat \ {0} /\ vault.debt \in Nat \ {0}
         /\ LiquidationPrice \in Int
<1> DEFINE k == MinimumRatio * vault.debt * Cent
           l == 100 * vault.collateral
<1>1. /\ vault.collateral \in Nat \ {0} /\ vault.debt \in Nat \ {0} /\ Cent \in Nat
  BY PricesAssumption DEF VaultInv, TypeOK, Vault, DebtIsCovered
<1>2. k \in Nat /\ l \in Nat \ {0}
  BY <1>1 DEF MinimumRatio
<1>3. LiquidationPrice = k \div l
  BY DEF LiquidationPrice
<1> HIDE DEF k, l
<1> QED BY <1>1, <1>2, <1>3, Division

(* A vault that is safe at a price is safe at any higher one. *)
LEMMA SafeAbove ==
  ASSUME VaultInv, vault.debt > 0, NEW p \in Nat, NEW q \in Nat, p <= q, SafeAt(p)
  PROVE  SafeAt(q)
<1> DEFINE r == RatioOf(vault.collateral, vault.debt, p)
           t == RatioOf(vault.collateral, vault.debt, q)
<1>1. r \in Int /\ t \in Int /\ r <= t /\ LiquidationPrice \in Int
  BY PositionNumbers, RatioRises
<1>2. r >= Warn /\ r >= Critical /\ p - LiquidationPrice >= Near
  BY DEF SafeAt
<1> HIDE DEF r, t
<1>3. t >= Warn /\ t >= Critical /\ q - LiquidationPrice >= Near
  BY <1>1, <1>2, ConfigAssumption
<1> QED BY <1>3 DEF SafeAt, t

LEMMA PositionStep ==
  ASSUME VaultInv, Position \/ PositionMissing
  PROVE  VaultInv'
<1>1. /\ pc = "position" /\ Reading /\ call \in Call /\ call.seen = NoFeed
      /\ call.op \in {"status", "check", "report"}
  BY RequestIsOf DEF Position, PositionMissing, VaultInv, TypeOK, Observed
<1>2. CASE call.op = "status"
  <2>1. PICK x \in {"snapshot", "PGEVaultNotFoundError"} : End(Outcome(x))
    BY <1>2 DEF Position, PositionMissing
  <2>2. Outcome(x) \in Outcomes /\ Outcome(x).kind = x
    BY OutcomeType DEF Answers, Exceptions
  <2> QED BY <1>1, <1>2, <2>1, <2>2, PlainEndStep
<1>3. CASE call.op # "status" /\ PositionMissing
  <2> DEFINE c == [call EXCEPT !.troubles = {"unfunded"}]
  <2>1. c \in Call /\ c.op = call.op /\ c.troubles # {}
    BY <1>1 DEF Call
  <2>2. Go("feed", c)
    BY <1>3 DEF PositionMissing
  <2> HIDE DEF c
  <2>3. "feed" \in Requests(c.op)
    BY <1>1, <1>3, <2>1 DEF Requests
  <2>4. ArgumentsChecked' /\ SizedKeepsRatio' /\ Observed'
    BY <2>1, <2>2 DEF Go, ArgumentsChecked, SizedKeepsRatio, Observed
  <2> QED BY <1>1, <2>1, <2>2, <2>3, <2>4, GoStep
<1>4. CASE call.op # "status" /\ Position
  <2> DEFINE r == RatioOf(vault.collateral, vault.debt, feed.price)
  <2>1. vault.debt > 0 /\ feed.price \in Nat
    BY <1>4, FeedFields DEF Position, VaultInv, TypeOK
  <2>2. PICK status \in Statuses(r) :
          Go("feed", [call EXCEPT !.price = feed.price, !.status = status,
                                  !.troubles = Warnings(r, status)])
    BY <1>4 DEF Position
  <2>3. /\ r \in Int /\ LiquidationPrice \in Int
    BY <2>1, PositionNumbers, RatioRises
  <2> HIDE DEF r
  <2> DEFINE found == Warnings(r, status)
             c     == [call EXCEPT !.price = feed.price, !.status = status,
                                   !.troubles = found]
  <2>4. /\ status \in {"healthy", "marginal", "at_risk", "critical", "liquidated"}
        /\ vault.state = "open" => status # "liquidated"
    <3>1. Band(r) \in {"healthy", "marginal", "at_risk", "critical"}
      BY DEF Band
    <3> QED BY <2>2, <3>1 DEF Statuses
  <2>5. found \in SUBSET {"critical", "low", "status", "near", "unfunded"}
    BY DEF Warnings
  <2>6. found = {} => /\ SafeAt(feed.price)
                      /\ vault.state = "open" => status \in SoundWords
    <3>1. SUFFICES ASSUME found = {}
                   PROVE  /\ SafeAt(feed.price)
                          /\ vault.state = "open" => status \in SoundWords
      OBVIOUS
    <3>2. /\ ~(r < Critical) /\ ~(r < Warn /\ r >= Critical)
          /\ status \notin {"critical", "at_risk"}
          /\ ~(feed.price - LiquidationPrice < Near)
      BY <3>1 DEF Warnings
    <3>3. r >= Warn /\ r >= Critical /\ feed.price - LiquidationPrice >= Near
      BY <2>1, <2>3, <3>2, ConfigAssumption
    <3>4. SafeAt(feed.price)
      BY <3>3 DEF SafeAt, r
    <3> QED BY <2>4, <3>2, <3>4 DEF SoundWords
  <2>7. Go("feed", c)
    BY <2>2
  <2> HIDE DEF found
  <2>8. /\ c \in Call /\ c.op = call.op /\ c.troubles = found
        /\ c.price = feed.price /\ c.status = status
    <3>1. [call EXCEPT !.price = feed.price, !.status = status] \in Call
      BY <1>1, <2>1, <2>4 DEF Call
    <3> QED BY <1>1, <2>5, <3>1 DEF Call
  <2> HIDE DEF c
  <2>9. pc' = "feed" /\ call' = c /\ UNCHANGED <<vault, feed, moved>>
    BY <1>1, <2>7 DEF Go, Reading
  <2>10. "feed" \in Requests(c.op)
    BY <1>1, <1>4, <2>8 DEF Requests
  <2>11. Observed'
    BY <2>1, <2>6, <2>8, <2>9 DEF Observed, SafeAt, LiquidationPrice
  <2>12. ArgumentsChecked' /\ SizedKeepsRatio'
    BY <2>9 DEF ArgumentsChecked, SizedKeepsRatio
  <2> QED BY <1>1, <2>7, <2>8, <2>10, <2>11, <2>12, GoStep
<1> QED BY <1>2, <1>3, <1>4

LEMMA ReadFeedStep ==
  ASSUME VaultInv, ReadFeed
  PROVE  VaultInv'
<1> DEFINE c == [call EXCEPT !.seen = feed]
<1>1. /\ pc = "feed" /\ Reading /\ Go("chain", c) /\ call \in Call /\ feed \in Feed
      /\ call.op \in {"check", "report", "trusted", "usd", "health"}
  BY RequestIsOf DEF ReadFeed, VaultInv, TypeOK
<1>2. /\ c \in Call /\ c.op = call.op /\ c.troubles = call.troubles /\ c.seen = feed
      /\ c.price = call.price /\ c.status = call.status
  BY <1>1 DEF Call
<1> HIDE DEF c
<1>3. pc' = "chain" /\ call' = c /\ UNCHANGED <<vault, feed, moved>>
  BY <1>1 DEF Go, Reading
<1>4. "chain" \in Requests(c.op)
  BY <1>1, <1>2 DEF Requests
<1>5. Observed'
  BY <1>1, <1>2, <1>3 DEF VaultInv, Observed, SafeAt, LiquidationPrice
<1>6. ArgumentsChecked' /\ SizedKeepsRatio'
  BY <1>3 DEF ArgumentsChecked, SizedKeepsRatio
<1> QED BY <1>1, <1>2, <1>4, <1>5, <1>6, GoStep

(* The verdict of health_check and report: it may be "healthy" only if the *)
(* troubles found in the vault are among those it is given, and if it has  *)
(* a price, only if that can be trusted.                                   *)
LEMMA VerdictStep ==
  ASSUME VaultInv, Catching, NEW troubles, NEW priced \in BOOLEAN, NEW age \in Nat,
         Verdict(troubles, priced, age), Reading, call.troubles \subseteq troubles,
         priced /\ troubles = {} =>
            /\ pc = "chain" /\ call.seen.quorum /\ call.seen.flag # "stale"
            /\ call.seen.flag = "unsaid" => age <= threshold
            /\ age >= call.seen.age
  PROVE  VaultInv'
<1> DEFINE k == IF call.op = "report" THEN "report"
                ELSE IF troubles = {} /\ call.causes # "off" THEN "healthy"
                ELSE "unhealthy"
           o == [Outcome(k) EXCEPT !.priced = priced, !.age = age]
<1>1. /\ call \in Call /\ call.op \in {"check", "report"} /\ pc \in {"feed", "chain"}
      /\ threshold \in Nat \ {0}
  BY DEF Catching, VaultInv, TypeOK
<1>2. End(o)
  BY DEF Verdict
<1>3. k \in Answers /\ (k = "healthy" => troubles = {}) /\ k # "minted" /\ k \notin Exceptions
  BY DEF Answers, Exceptions, Unanswered
<1> HIDE DEF k
<1>4. o \in Outcomes /\ o.kind = k /\ o.priced = priced /\ o.age = age
  <2>1. Outcome(k) \in Outcomes /\ Outcome(k).kind = k
    BY <1>3, OutcomeType
  <2>2. [Outcome(k) EXCEPT !.priced = priced] \in Outcomes
    BY <2>1 DEF Outcomes
  <2> QED BY <2>1, <2>2 DEF Outcomes
<1> HIDE DEF o
<1>5. /\ outcome' = o /\ call' = call /\ pc' = "idle"
      /\ UNCHANGED <<threshold, vault, feed, moved>>
  BY <1>2 DEF End, Reading
<1>6. HealthyIsSafe'
  <2>1. SUFFICES ASSUME k = "healthy"
                 PROVE  /\ vault.debt > 0
                        /\ SafeAt(call.price)
                        /\ \A price \in {call.seen.price, feed.price} :
                             price >= call.price => SafeAt(price)
                        /\ vault.state = "open" => call.status \in SoundWords
    BY <1>4, <1>5 DEF HealthyIsSafe, SafeAt, LiquidationPrice
  <2>2. call.troubles = {}
    BY <1>3, <2>1
  <2>3. /\ vault.debt > 0 /\ SafeAt(call.price)
        /\ vault.state = "open" => call.status \in SoundWords
    BY <1>1, <2>2 DEF VaultInv, Observed
  <2>4. call.price \in Nat /\ call.seen.price \in Nat /\ feed.price \in Nat
    BY <1>1, FeedFields DEF Call, VaultInv, TypeOK
  <2>5. ASSUME NEW price \in {call.seen.price, feed.price}, price >= call.price
        PROVE  SafeAt(price)
    <3>1. price \in Nat /\ call.price <= price
      BY <2>4, <2>5
    <3> QED BY <2>3, <2>4, <3>1, SafeAbove
  <2> QED BY <2>3, <2>5
<1>7. TrustIsEarned'
  <2>1. SUFFICES ASSUME k = "healthy", priced
                 PROVE  /\ call.seen.quorum /\ call.seen.flag # "stale"
                        /\ call.seen.flag = "unsaid" => age <= threshold
                        /\ age >= call.seen.age
                        /\ ~moved => feed = call.seen
    BY <1>1, <1>4, <1>5 DEF TrustIsEarned, Trusting
  <2>2. troubles = {}
    BY <1>3, <2>1
  <2> QED BY <1>1, <2>1, <2>2 DEF VaultInv, Observed
<1>8. TroublesAreContained'
  BY <1>1, <1>3, <1>4, <1>5 DEF TroublesAreContained
<1> QED BY <1>1, <1>2, <1>3, <1>4, <1>6, <1>7, <1>8, EndStep DEF Catching

LEMMA ReadChainStep ==
  ASSUME VaultInv, ReadChain
  PROVE  VaultInv'
<1>1. /\ pc = "chain" /\ Reading /\ call \in Call
      /\ call.op \in {"check", "report", "trusted", "usd", "health", "network"}
      /\ threshold \in Nat \ {0}
  BY RequestIsOf DEF ReadChain, VaultInv, TypeOK
<1>2. call.seen.age \in Nat /\ call.seen.quorum \in BOOLEAN
      /\ call.seen.flag \in {"fresh", "stale", "unsaid"}
  BY <1>1, FeedFields DEF Call
<1>3. PICK age \in Ages :
        /\ age >= call.seen.age
        /\ \/ call.op = "health" /\ Go("stats", call)
           \/ call.op = "network" /\ End(Outcome("network"))
           \/ call.op = "usd" /\ Priced(age)
           \/ call.op = "trusted" /\ \E x \in {"OraclePriceStaleError", "OracleQuorumError"} :
                End(Outcome(x))
           \/ call.op = "trusted" /\ ~Untrusted(call.seen, age) /\ Priced(age)
           \/ call.op \in {"check", "report"}
              /\ Verdict(call.troubles \cup
                   (IF Untrusted(call.seen, age) THEN {"oracle"} ELSE {}), TRUE, age)
  BY DEF ReadChain
<1>4. age \in Nat
  BY ConfigAssumption
<1>5. ~Untrusted(call.seen, age) =>
         /\ call.seen.quorum /\ call.seen.flag # "stale"
         /\ call.seen.flag = "unsaid" => age <= threshold
  BY <1>1, <1>2, <1>3, <1>4 DEF Untrusted, Stale
<1>6. CASE call.op = "health" /\ Go("stats", call)
  <2>1. pc' = "stats" /\ call' = call
    BY <1>6 DEF Go
  <2>2. "stats" \in Requests(call.op)
    BY <1>6 DEF Requests
  <2>3. ArgumentsChecked' /\ SizedKeepsRatio' /\ Observed'
    BY <2>1 DEF ArgumentsChecked, SizedKeepsRatio, Observed
  <2> QED BY <1>1, <1>6, <2>2, <2>3, GoStep
<1>7. CASE \E x \in {"network", "OraclePriceStaleError", "OracleQuorumError"} :
             call.op \in {"network", "trusted"} /\ End(Outcome(x))
  <2>1. PICK x \in {"network", "OraclePriceStaleError", "OracleQuorumError"} :
          call.op \in {"network", "trusted"} /\ End(Outcome(x))
    BY <1>7
  <2>2. Outcome(x) \in Outcomes /\ Outcome(x).kind = x
    BY OutcomeType DEF Answers, Exceptions
  <2> QED BY <1>1, <2>1, <2>2, PlainEndStep
<1>8. CASE /\ call.op \in {"usd", "trusted"} /\ Priced(age)
           /\ call.op = "trusted" => ~Untrusted(call.seen, age)
  <2> DEFINE o == [Outcome("price") EXCEPT !.age = age]
  <2>1. End(o)
    BY <1>8 DEF Priced
  <2>2. o \in Outcomes /\ o.kind = "price" /\ o.age = age
    <3>1. Outcome("price") \in Outcomes /\ Outcome("price").kind = "price"
      BY OutcomeType DEF Answers
    <3> QED BY <1>4, <3>1 DEF Outcomes
  <2> HIDE DEF o
  <2>3. /\ outcome' = o /\ call' = call /\ UNCHANGED <<threshold, feed, moved>>
    BY <1>1, <2>1 DEF End, Reading
  <2>4. TrustIsEarned'
    BY <1>1, <1>3, <1>5, <1>8, <2>2, <2>3 DEF TrustIsEarned, Trusting, VaultInv, Observed
  <2>5. HealthyIsSafe' /\ TroublesAreContained'
    BY <1>8, <2>2, <2>3 DEF HealthyIsSafe, TroublesAreContained
  <2> QED BY <1>1, <2>1, <2>2, <2>4, <2>5, EndStep
<1>9. CASE call.op \in {"check", "report"} /\ \E troubles :
             /\ Verdict(troubles, TRUE, age) /\ call.troubles \subseteq troubles
             /\ troubles = {} => ~Untrusted(call.seen, age)
  <2>1. PICK troubles : /\ Verdict(troubles, TRUE, age) /\ call.troubles \subseteq troubles
                        /\ troubles = {} => ~Untrusted(call.seen, age)
    BY <1>9
  <2>2. Catching
    BY <1>1, <1>9 DEF Catching
  <2> QED BY <1>1, <1>3, <1>4, <1>5, <2>1, <2>2, VerdictStep
<1> QED BY <1>3, <1>6, <1>7, <1>8, <1>9

(* What engine_projection ends with, a division by zero included. *)
LEMMA ProjectedStep ==
  ASSUME VaultInv, pc # "idle", call.op = "projection", NEW priced \in BOOLEAN,
         End(Projected(priced)), Reading
  PROVE  VaultInv'
<1> DEFINE o == Projected(priced)
<1>1. /\ o \in Outcomes
      /\ \/ o.kind = "DivisionByZero" /\ call.ratio = 0
         \/ o.kind = "projected"
  <2>1. \A k \in {"DivisionByZero", "projected"} :
          Outcome(k) \in Outcomes /\ Outcome(k).kind = k
    BY OutcomeType DEF Answers, Exceptions
  <2> QED BY <2>1 DEF Projected, Outcomes
<1>2. "projected" \notin Exceptions
  BY DEF Exceptions, Unanswered
<1> HIDE DEF o
<1>3. End(o)
  BY DEF o
<1>4. /\ o.kind \notin {"minted", "healthy", "price"}
      /\ call.op \notin {"available", "check", "report"}
      /\ o.kind \in Exceptions => o.kind = "DivisionByZero" /\ call.ratio = 0
  BY <1>1, <1>2
<1> QED BY <1>1, <1>3, <1>4, PlainEndStep

(* is_available turns an error into its answer. *)
LEMMA UnavailableStep ==
  ASSUME VaultInv, pc = "available", Raise("unavailable")
  PROVE  VaultInv'
<1>1. End(Outcome("unavailable")) /\ Reading /\ call.op = "available"
  BY RequestIsOf DEF Raise
<1>2. Outcome("unavailable") \in Outcomes /\ Outcome("unavailable").kind = "unavailable"
  BY OutcomeType DEF Answers
<1> QED BY <1>1, <1>2, PlainEndStep

(* The other answers: nothing is promised of them. *)
LEMMA OtherAnswerStep ==
  ASSUME VaultInv, ReadNetwork \/ ReadAvailable \/ ReadBalance \/ Quote \/ ReadStats
  PROVE  VaultInv'
<1>1. Reading /\ call \in Call /\ pc # "idle"
  BY DEF ReadNetwork, ReadAvailable, ReadBalance, Quote, ReadStats, VaultInv, TypeOK
<1>2. CASE ReadNetwork
  <2>1. pc = "network" /\ Go("chain", call) /\ call.op = "network"
    BY <1>2, RequestIsOf DEF ReadNetwork
  <2>2. "chain" \in Requests(call.op)
    BY <2>1 DEF Requests
  <2>3. ArgumentsChecked' /\ SizedKeepsRatio' /\ Observed'
    BY <2>1 DEF Go, ArgumentsChecked, SizedKeepsRatio, Observed
  <2> QED BY <1>1, <2>1, <2>2, <2>3, GoStep
<1>3. CASE ReadAvailable \/ ReadBalance \/ ReadStats
  <2>1. PICK x \in {"available", "balance", "open", "degraded"} :
          End(Outcome(x)) /\ (pc = "available" => x = "available")
    BY <1>3 DEF ReadAvailable, ReadBalance, ReadStats
  <2>2. Outcome(x) \in Outcomes /\ Outcome(x).kind = x /\ x \notin Exceptions
    BY OutcomeType DEF Answers, Exceptions, Unanswered
  <2>3. pc \in {"available", "balance", "stats"}
    BY <1>3 DEF ReadAvailable, ReadBalance, ReadStats
  <2> QED BY <1>1, <2>1, <2>2, <2>3, RequestIsOf, PlainEndStep
<1>4. CASE Quote
  <2>1. pc = "quoting" /\ call.op = "projection"
    BY <1>4, RequestIsOf DEF Quote
  <2>2. PICK priced \in BOOLEAN : End(Projected(priced))
    BY <1>4 DEF Quote
  <2> QED BY <1>1, <2>1, <2>2, ProjectedStep
<1> QED BY <1>2, <1>3, <1>4

(* A request fails. *)
LEMMA NodeErrorStep ==
  ASSUME VaultInv, NodeError
  PROVE  VaultInv'
<1>1. pc # "idle" /\ call \in Call
  BY DEF NodeError, Catching, VaultInv, TypeOK
<1>2. CASE /\ pc \in {"sizing", "pricing", "balance", "position"}
           /\ \E x \in {"CDPError", "RPCError"} : Raise(x)
  <2>1. PICK x \in {"CDPError", "RPCError"} : Raise(x)
    BY <1>2
  <2>2. x \in Exceptions
    BY DEF Exceptions
  <2>3. /\ call.op \notin {"available", "projection"}
        /\ call.op \in {"check", "report"} => call.seen = NoFeed
    BY <1>2, RequestIsOf DEF VaultInv, Observed
  <2> QED BY <1>1, <2>1, <2>2, <2>3, RaiseStep
<1>3. CASE /\ call.op \in {"health", "trusted", "usd", "network"}
           /\ \E x \in {"CDPError", "OracleError", "OracleUnavailableError"} : Raise(x)
  <2>1. PICK x \in {"CDPError", "OracleError", "OracleUnavailableError"} : Raise(x)
    BY <1>3
  <2>2. x \in Exceptions
    BY DEF Exceptions
  <2> QED BY <1>1, <1>3, <2>1, <2>2, RaiseStep
<1>4. CASE pc = "available" /\ Raise("unavailable")
  BY <1>4, UnavailableStep
<1>5. CASE pc = "quoting" /\ End(Projected(FALSE)) /\ Reading
  <2>1. call.op = "projection"
    BY <1>5, RequestIsOf
  <2> QED BY <1>1, <1>5, <2>1, ProjectedStep
<1>6. CASE Catching /\ Verdict(call.troubles, FALSE, 0) /\ Reading
  BY <1>6, VerdictStep
<1> QED BY <1>2, <1>3, <1>4, <1>5, <1>6 DEF NodeError

LEMMA LinkErrorStep ==
  ASSUME VaultInv, LinkError
  PROVE  VaultInv'
<1>1. CASE /\ pc \notin {"idle", "available"} /\ ~Catching
           /\ \E x \in Unanswered : Raise(x)
  <2>1. PICK x \in Unanswered : Raise(x)
    BY <1>1
  <2>2. x \in Exceptions
    BY DEF Exceptions
  <2>3. /\ call.op # "available"
        /\ call.op \in {"check", "report"} => call.seen = NoFeed
    <3>1. pc \in {"sizing", "pricing", "minting", "redeeming", "position", "feed", "chain",
                  "stats", "network", "balance", "quoting"}
      BY <1>1 DEF VaultInv, TypeOK, Locations
    <3> QED BY <1>1, <3>1, RequestIsOf DEF Catching, VaultInv, Observed
  <2> QED BY <1>1, <2>1, <2>2, <2>3, RaiseStep
<1>2. CASE pc = "available" /\ Raise("unavailable")
  BY <1>2, UnavailableStep
<1>3. CASE Catching /\ Verdict(call.troubles, FALSE, 0) /\ Reading
  BY <1>3, VerdictStep
<1> QED BY <1>1, <1>2, <1>3 DEF LinkError, Unanswered

-----------------------------------------------------------------------------
(* The node moves: what is promised of a node at rest is not promised any  *)
(* more, and everything else is of things that do not move.                *)
LEMMA MoveStep ==
  ASSUME VaultInv, Move
  PROVE  VaultInv'
<1>1. /\ moves' \in 0 .. MaxMoves /\ moved' = TRUE /\ feed' \in Feed
      /\ blocked' \in BOOLEAN /\ locked' \in BOOLEAN
      /\ UNCHANGED <<clientVars, threshold, dgb, mints, burns>>
  <2>1. /\ moves \in 0 .. MaxMoves /\ feed \in Feed
        /\ blocked \in BOOLEAN /\ locked \in BOOLEAN
    BY DEF VaultInv, TypeOK
  <2>2. moves' \in 0 .. MaxMoves /\ moved' = TRUE
    BY <2>1, BoundsAssumption DEF Move
  <2>3. feed' \in Feed
    BY <2>1 DEF Move
  <2>4. blocked' \in BOOLEAN /\ locked' \in BOOLEAN
    BY <2>1, Zenon DEF Move
  <2> QED BY <2>2, <2>3, <2>4 DEF Move
<1>2. /\ vault' \in Vault /\ vault'.collateral = vault.collateral /\ vault'.debt = vault.debt
      /\ vault'.state = "open" => vault.state = "open"
  <2>1. vault \in Vault
    BY DEF VaultInv, TypeOK
  <2>2. CASE UNCHANGED vault
    BY <2>1, <2>2
  <2>3. CASE Liquidate
    BY <2>1, <2>3 DEF Liquidate, Vault
  <2> QED BY <2>2, <2>3 DEF Move
<1>3. TypeOK' /\ HistoriesTyped'
  BY <1>1, <1>2 DEF VaultInv, TypeOK, HistoriesTyped
<1>4. AtWork' /\ ArgumentsChecked' /\ SizedKeepsRatio' /\ DebtIsCovered'
  BY <1>1, <1>2 DEF VaultInv, AtWork, ArgumentsChecked, SizedKeepsRatio, DebtIsCovered
<1>5. MintsNow' = MintsNow /\ BurnsNow' = BurnsNow /\ OneActEach'
  BY <1>1, SameCall
<1>6. Observed'
  <2>1. SafeAt(call.price)' <=> SafeAt(call.price)
    BY <1>1, <1>2 DEF SafeAt, LiquidationPrice
  <2> QED BY <1>1, <1>2, <2>1 DEF VaultInv, Observed
<1>7. HealthyIsSafe'
  <2>1. SUFFICES ASSUME outcome.kind = "healthy"
                 PROVE  /\ vault.debt > 0
                        /\ SafeAt(call.price)
                        /\ \A price \in {call.seen.price, feed'.price} :
                             price >= call.price => SafeAt(price)
                        /\ vault.state = "open" => call.status \in SoundWords
    BY <1>1, <1>2 DEF HealthyIsSafe, SafeAt, LiquidationPrice
  <2>2. /\ vault.debt > 0 /\ SafeAt(call.price)
        /\ vault.state = "open" => call.status \in SoundWords
    BY <2>1 DEF VaultInv, HealthyIsSafe
  <2>3. call.price \in Nat /\ call.seen.price \in Nat /\ feed'.price \in Nat
    BY <1>1, FeedFields DEF Call, VaultInv, TypeOK
  <2>4. ASSUME NEW price \in {call.seen.price, feed'.price}, price >= call.price
        PROVE  SafeAt(price)
    <3>1. price \in Nat /\ call.price <= price
      BY <2>3, <2>4
    <3> QED BY <2>2, <2>3, <3>1, SafeAbove
  <2> QED BY <2>2, <2>4
<1>8. AutoMintsKeepRatio' /\ TroublesAreContained'
  BY <1>1 DEF VaultInv, AutoMintsKeepRatio, TroublesAreContained
<1>9. MintResultIsTrue' /\ OnlyLostAnswersLeaveDoubt' /\ TrustIsEarned'
  BY <1>1, <1>5 DEF VaultInv, MintResultIsTrue, OnlyLostAnswersLeaveDoubt,
                    TrustIsEarned, Trusting
<1> QED BY <1>3, <1>4, <1>5, <1>6, <1>7, <1>8, <1>9 DEF VaultInv

LEMMA StutteringStep ==
  ASSUME VaultInv, UNCHANGED vars
  PROVE  VaultInv'
<1> USE DEF vars
<1>1. TypeOK' /\ HistoriesTyped'
  BY DEF VaultInv, TypeOK, HistoriesTyped
<1>2. AtWork' /\ ArgumentsChecked' /\ SizedKeepsRatio' /\ DebtIsCovered'
  BY DEF VaultInv, AtWork, ArgumentsChecked, SizedKeepsRatio, DebtIsCovered
<1>3. MintsNow' = MintsNow /\ BurnsNow' = BurnsNow /\ OneActEach'
  BY SameCall
<1>4. Observed' /\ HealthyIsSafe'
  BY DEF VaultInv, Observed, HealthyIsSafe, SafeAt, LiquidationPrice
<1>5. AutoMintsKeepRatio' /\ TroublesAreContained'
  BY DEF VaultInv, AutoMintsKeepRatio, TroublesAreContained
<1>6. MintResultIsTrue' /\ OnlyLostAnswersLeaveDoubt' /\ TrustIsEarned'
  BY <1>3 DEF VaultInv, MintResultIsTrue, OnlyLostAnswersLeaveDoubt,
              TrustIsEarned, Trusting
<1> QED BY <1>1, <1>2, <1>3, <1>4, <1>5, <1>6 DEF VaultInv

-----------------------------------------------------------------------------
(* VaultInv is inductive *)

LEMMA VaultInit == Init => VaultInv
<1> SUFFICES ASSUME Init
             PROVE  VaultInv
  OBVIOUS
<1> USE DEF Init
<1>1. /\ call \in Call /\ call.op = "none" /\ call = NoCall /\ threshold \in Nat \ {0}
      /\ calls \in 0 .. MaxCalls /\ moves \in 0 .. MaxMoves
  BY NoCallType, BoundsAssumption DEF NoCall, StaleThreshold
<1>2. outcome \in Outcomes /\ outcome.kind = "none"
  BY OutcomeType
<1>3. vault \in Vault /\ vault.debt = 0 /\ dgb \in Nat
  BY ConfigAssumption DEF Vault, NoVault
<1>4. TypeOK /\ HistoriesTyped
  <2>1. outcome.kind \in {"none"} \cup Exceptions \cup Answers
    BY <1>2
  <2>2. pc \in Locations /\ locked \in BOOLEAN /\ moved \in BOOLEAN
    BY DEF Locations
  <2>3. feed \in Feed /\ blocked \in BOOLEAN
    OBVIOUS
  <2> QED BY <1>1, <1>2, <1>3, <2>1, <2>2, <2>3 DEF TypeOK, HistoriesTyped
<1>5. AtWork /\ ArgumentsChecked /\ SizedKeepsRatio /\ DebtIsCovered /\ Observed
  BY <1>3 DEF AtWork, ArgumentsChecked, SizedKeepsRatio, DebtIsCovered, Observed
<1>6. MintsNow = {} /\ BurnsNow = {} /\ OneActEach
  BY DEF MintsNow, BurnsNow, OneActEach
<1>7. OnlyLostAnswersLeaveDoubt
  BY <1>6, OneAtMost DEF OnlyLostAnswersLeaveDoubt
<1>8. AutoMintsKeepRatio /\ MintResultIsTrue /\ HealthyIsSafe /\ TrustIsEarned
      /\ TroublesAreContained
  BY <1>1, <1>2 DEF AutoMintsKeepRatio, MintResultIsTrue, HealthyIsSafe, TrustIsEarned,
                    Trusting, TroublesAreContained
<1> QED BY <1>4, <1>5, <1>6, <1>7, <1>8 DEF VaultInv

LEMMA VaultStep == VaultInv /\ [Next]_vars => VaultInv'
<1> SUFFICES ASSUME VaultInv, [Next]_vars
             PROVE  VaultInv'
  OBVIOUS
<1>1. CASE Move
  BY <1>1, MoveStep
<1>2. ASSUME NEW c \in Collaterals, NEW r \in Ratios, NEW asked \in Asked,
             MintBegins("mint", c, r, asked) \/ MintRefused("mint", c, r, asked)
      PROVE  VaultInv'
  BY <1>2, MintBeginsStep, MintRefusedStep
<1>3. ASSUME NEW c \in Collaterals, NEW r \in Ratios,
             MintBegins("dry", c, r, Unasked) \/ MintRefused("dry", c, r, Unasked)
      PROVE  VaultInv'
  <2>1. Unasked \in Asked
    BY DEF Asked
  <2> QED BY <1>3, <2>1, MintBeginsStep, MintRefusedStep
<1>4. ASSUME NEW a \in Amounts, RedeemBegins(a) \/ RedeemRefused(a)
      PROVE  VaultInv'
  BY <1>4, RedeemBeginsStep
<1>5. ASSUME NEW op \in Queries, NEW causes \in {"none", "valid", "off"},
             QueryBegins(op, causes)
      PROVE  VaultInv'
  BY <1>5, QueryBeginsStep
<1>6. ASSUME NEW r \in Ratios \cup {0}, ProjectionBegins(r)
      PROVE  VaultInv'
  BY <1>6, ProjectionBeginsStep
<1>7. ASSUME NEW seconds \in Thresholds, SetThreshold(seconds)
      PROVE  VaultInv'
  BY <1>7, SetThresholdStep
<1>8. CASE Step
  BY <1>8, SizeStep, PriceStep, RefusalStep, MintedStep, RedeemedStep, PositionStep,
     ReadFeedStep, ReadChainStep, OtherAnswerStep, NodeErrorStep, LinkErrorStep
     DEF Step, Answer
<1>9. CASE UNCHANGED vars
  BY <1>9, StutteringStep
<1> QED BY <1>1, <1>2, <1>3, <1>4, <1>5, <1>6, <1>7, <1>8, <1>9 DEF Next, Queries

(* VaultInv holds always, whatever the prices, the faults and the order of *)
(* the steps of the node and of the client.                                *)
THEOREM VaultInductive == Spec => []VaultInv
BY VaultInit, VaultStep, PTL DEF Spec

(* Every variable always has its type: no debt and no balance of the vault *)
(* is ever negative.                                                       *)
THEOREM VaultTypeCorrect == Spec => []TypeOK
<1>1. VaultInv => TypeOK
  BY DEF VaultInv
<1> QED BY <1>1, VaultInductive, PTL

(* A mint whose amount the client has sized keeps the ratio asked for when *)
(* the node executes it, unless the price fell since the sizing.           *)
THEOREM AutoMintsAlwaysKeepRatio == Spec => []AutoMintsKeepRatio
<1>1. VaultInv => AutoMintsKeepRatio
  BY DEF VaultInv
<1> QED BY <1>1, VaultInductive, PTL

(* Every MintResult is of the one mint executed for its call, with a ratio *)
(* that is never better than the vault's.                                  *)
THEOREM MintResultsAreTrue == Spec => []MintResultIsTrue
<1>1. VaultInv => MintResultIsTrue
  BY DEF VaultInv
<1> QED BY <1>1, VaultInductive, PTL

(* A call acts at most once, and only the two exceptions of a lost answer  *)
(* leave open whether it did.                                              *)
THEOREM ExceptionsTellTheTruth == Spec => []OnlyLostAnswersLeaveDoubt
<1>1. VaultInv => OnlyLostAnswersLeaveDoubt
  BY DEF VaultInv
<1> QED BY <1>1, VaultInductive, PTL

(* A healthy verdict, however the node moves during the check, is of a     *)
(* vault that is safe at the price of the first reading, and at the        *)
(* oracle's and the present price unless these are lower; its status word  *)
(* is a sound one unless the position is liquidated.                       *)
THEOREM HealthyIsAlwaysSafe == Spec => []HealthyIsSafe
<1>1. VaultInv => HealthyIsSafe
  BY DEF VaultInv
<1> QED BY <1>1, VaultInductive, PTL

(* A price is trusted, by trusted_price or by a healthy verdict, only if   *)
(* it is of a quorum, not called stale, and, where the node gives no flag, *)
(* of an age within the threshold at the end of the call.                  *)
THEOREM TrustIsAlwaysEarned == Spec => []TrustIsEarned
<1>1. VaultInv => TrustIsEarned
  BY DEF VaultInv
<1> QED BY <1>1, VaultInductive, PTL

(* What the calls that must survive a node in trouble may raise. *)
THEOREM TroublesAreAlwaysContained == Spec => []TroublesAreContained
<1>1. VaultInv => TroublesAreContained
  BY DEF VaultInv
<1> QED BY <1>1, VaultInductive, PTL
=============================================================================
