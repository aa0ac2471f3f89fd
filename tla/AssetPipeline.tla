--------------------------- MODULE AssetPipeline ---------------------------
(***************************************************************************)
(* Issuing and transferring assets: DigiForge.issue, transfer,             *)
(* _build_and_broadcast and verify_asset_tx of digiforge/assets.py.        *)
(*                                                                         *)
(* A call builds its transaction in four requests to the node, one step    *)
(* each: create, fund, sign, send. Several sessions run against the same   *)
(* wallet, so the coins one of them has been funded with may be spent by   *)
(* another one before it sends. A request may be answered with an error    *)
(* ("node"), not arrive ("link"), or have its answer lost ("reply").       *)
(* verify_asset_tx looks at a transaction of the chain, in one request.    *)
(*                                                                         *)
(* A coin is an outpoint <<transaction, output>>, transaction 0 standing   *)
(* for all that happened before. Outputs are numbered from 0 in the code   *)
(* and from 1 here, as elements of a sequence.                             *)
(***************************************************************************)
EXTENDS Payloads

CONSTANTS
    Sessions,    \* callers: DigiForge objects on one wallet
    Coins,       \* number of coins the wallet has at first
    Holding,     \* those of them, by number, that hold the asset
    Issues,      \* arguments of issue the callers pass
    Transfers,   \* arguments of transfer the callers pass
    Addresses,   \* recipients, none of them the wallet's
    Faults,      \* subset of {"node", "link", "reply"}
    MaxCalls     \* bound: calls of all sessions

VARIABLES
    pc,        \* pc[s]: the request session s is about to send, or "idle"
    call,      \* call[s]: arguments and locals of its latest call
    outcome,   \* outcome[s]: what its latest call returned or raised
    chain,     \* the node: transactions it has accepted, in order
    calls      \* number of calls begun

vars == <<pc, call, outcome, chain, calls>>

(* An optional address. *)
Destinations == {{}} \cup {{a} : a \in Addresses}

ASSUME CoinsAssumption   == Coins \in Nat /\ Holding \subseteq 1..Coins
ASSUME IssuesAssumption ==
    Issues \subseteq [amount : Amount,
                      asset  : Asset,
                      valid  : BOOLEAN,            \* the metadata validate
                      hash   : {NoHash, MetadataHash},
                      to     : Destinations]
ASSUME TransfersAssumption ==
    Transfers \subseteq [amount : Amount, to : Destinations,
                         utxos  : SUBSET Holding]  \* from_utxos, or none
ASSUME FaultsAssumption  == Faults \subseteq {"node", "link", "reply"}
ASSUME CallsAssumption   == MaxCalls \in Nat

-----------------------------------------------------------------------------
(* Transactions and the wallet *)

DataOutput(payload) == [kind |-> "data", payload |-> payload, to |-> {}]
PaidTo(address)     == [kind |-> "pay", payload |-> <<>>, to |-> {address}]
Change              == [kind |-> "change", payload |-> <<>>, to |-> {}]

HeldAtFirst == {0} \X (1..Coins)

(* The wallet owns what it had and the change of its transactions.         *)
Own   == HeldAtFirst \cup
         {coin \in (DOMAIN chain) \X (1..3) :
            /\ coin[2] \in DOMAIN chain[coin[1]].outputs
            /\ chain[coin[1]].outputs[coin[2]] = Change}
Spent   == UNION {chain[n].inputs : n \in DOMAIN chain}
Unspent == Own \ Spent

-----------------------------------------------------------------------------
(* Calls *)

NoCall == [id |-> 0, op |-> "none", amount |-> <<>>, asset |-> {}, hash |-> NoHash,
           to |-> {}, inputs |-> {}, outputs |-> <<>>, target |-> 0, faulty |-> FALSE]

Exceptions == {"ValidationError", "MetadataValidationError", "AssetIssuanceError",
               "AssetTransferError", "InsufficientFundsError", "NodeConnectionError",
               "JSONDecodeError"}

Raised(kind)     == [kind |-> kind, tx |-> 0, report |-> {}]
Returned(tx)     == [kind |-> "returned", tx |-> tx, report |-> {}]
Inspected(found) == [kind |-> "inspected", tx |-> 0, report |-> found]

Init ==
    /\ pc      = [s \in Sessions |-> "idle"]
    /\ call    = [s \in Sessions |-> NoCall]
    /\ outcome = [s \in Sessions |-> Raised("none")]
    /\ chain   = <<>>
    /\ calls   = 0

(* The payment to the recipient, if there is one.                          *)
Recipient(to) == [i \in 1..Cardinality(to) |-> PaidTo(CHOOSE a \in to : TRUE)]

(* No address: the wallet keeps the units.                                 *)
IssueCall(args) ==
    [NoCall EXCEPT
        !.op = "issue", !.amount = args.amount, !.asset = {args.asset},
        !.hash = args.hash, !.to = args.to,
        !.outputs = <<DataOutput(IssuancePayload(args.amount, args.asset, args.hash))>>
                    \o Recipient(args.to)]

(* The instruction names output 1. The asset_id goes nowhere.              *)
TransferCall(args) ==
    [NoCall EXCEPT
        !.op = "transfer", !.amount = args.amount, !.to = args.to,
        !.inputs = {0} \X args.utxos,
        !.outputs = <<DataOutput(TransferPayload(<<[vout |-> <<1>>, amount |-> args.amount]>>))>>
                    \o Recipient(args.to)]

Call(s, arguments) ==
    /\ pc[s] = "idle"
    /\ calls < MaxCalls
    /\ calls' = calls + 1
    /\ call'  = [call EXCEPT ![s] = [arguments EXCEPT !.id = calls + 1]]
    /\ UNCHANGED chain

Starts(s, arguments) ==
    /\ Call(s, arguments)
    /\ pc'      = [pc EXCEPT ![s] = "create"]
    /\ outcome' = [outcome EXCEPT ![s] = Raised("running")]

Refused(s, kind) ==
    /\ Call(s, NoCall)
    /\ outcome' = [outcome EXCEPT ![s] = Raised(kind)]
    /\ UNCHANGED pc

(* A payload is encoded before anything is asked of the node.              *)
Submit(s, arguments, exception) ==
    \/ Encodable(arguments.outputs[1].payload) /\ Starts(s, arguments)
    \/ ~Encodable(arguments.outputs[1].payload) /\ Refused(s, exception)

(* The amount is looked at first, then the metadata.                       *)
Issue(s) == \E args \in Issues :
    \/ args.amount = <<>> /\ Refused(s, "ValidationError")
    \/ args.amount # <<>> /\ ~args.valid /\ Refused(s, "MetadataValidationError")
    \/ args.amount # <<>> /\ args.valid /\ Submit(s, IssueCall(args), "AssetIssuanceError")

(* Mutant: transfer without its check of the amount. *)
TransferOfNothing(s) == \E args \in Transfers :
    \/ args.to = {} /\ Refused(s, "ValidationError")
    \/ args.to # {} /\ Submit(s, TransferCall(args), "AssetTransferError")

Transfer(s) == \E args \in Transfers :
    \/ (args.amount = <<>> \/ args.to = {}) /\ Refused(s, "ValidationError")
    \/ args.amount # <<>> /\ args.to # {} /\ Submit(s, TransferCall(args), "AssetTransferError")

-----------------------------------------------------------------------------
(* _build_and_broadcast *)

Proceed(s, from, to) ==
    /\ pc[s] = from
    /\ pc' = [pc EXCEPT ![s] = to]
    /\ UNCHANGED <<outcome, chain, calls>>

End(s, from, result) ==
    /\ pc[s] = from
    /\ pc'      = [pc EXCEPT ![s] = "idle"]
    /\ outcome' = [outcome EXCEPT ![s] = result]
    /\ UNCHANGED calls

(* RPCError, NodeConnectionError, SigningError and BroadcastError all      *)
(* reach the caller as the error of the operation.                         *)
Wrapped(s) ==
    Raised(IF call[s].op = "issue" THEN "AssetIssuanceError" ELSE "AssetTransferError")

Create(s) == Proceed(s, "create", "fund") /\ UNCHANGED call

(* fundrawtransaction adds unspent coins to the given ones, one of them at *)
(* most here, and with changePosition -1 puts the change wherever it       *)
(* likes, or nowhere if there is none. It locks nothing.                   *)
Fund(s) ==
    /\ call[s].inputs \subseteq Unspent
    /\ \E added \in {{}} \cup {{coin} : coin \in Unspent},
          at \in 0..(Len(call[s].outputs) + 1) :
         /\ call[s].inputs \cup added # {}
         /\ call' = [call EXCEPT
                ![s].inputs  = @ \cup added,
                ![s].outputs = IF at = 0 THEN @ ELSE InsertAt(@, at, Change)]
    /\ Proceed(s, "fund", "sign")

(* Given coins that are gone are an RPCError. If they are not, the wallet  *)
(* may find that what it has is not enough, however many coins are left:   *)
(* coins have no values here. Only issue lets InsufficientFundsError       *)
(* through; transfer wraps it.                                             *)
FundFails(s) ==
    /\ \/ ~ (call[s].inputs \subseteq Unspent) /\ End(s, "fund", Wrapped(s))
       \/ /\ call[s].inputs \subseteq Unspent
          /\ End(s, "fund", IF call[s].op = "issue"
                            THEN Raised("InsufficientFundsError") ELSE Wrapped(s))
    /\ UNCHANGED <<call, chain>>

(* The wallet signs only inputs whose coins it still finds.                *)
Sign(s) ==
    /\ call[s].inputs \subseteq Unspent
    /\ Proceed(s, "sign", "send")
    /\ UNCHANGED call

(* Mutant: signing again until it is complete. *)
SignAgain(s) == ~ (call[s].inputs \subseteq Unspent) /\ Proceed(s, "sign", "sign") /\ UNCHANGED call

SignIncomplete(s) ==
    /\ ~ (call[s].inputs \subseteq Unspent)
    /\ End(s, "sign", Wrapped(s))
    /\ UNCHANGED <<call, chain>>

Accept(s) ==
    /\ call[s].inputs \subseteq Unspent
    /\ chain' = Append(chain, [inputs  |-> call[s].inputs,
                               outputs |-> call[s].outputs, by |-> call[s]])

Send(s) ==
    /\ Accept(s)
    /\ End(s, "send", Returned(Len(chain) + 1))
    /\ UNCHANGED call

SendRejected(s) ==
    /\ ~ (call[s].inputs \subseteq Unspent)
    /\ End(s, "send", Wrapped(s))
    /\ UNCHANGED <<call, chain>>

Blame(s) == call' = [call EXCEPT ![s].faulty = TRUE]

(* Mutants: a send whose answer is lost is repeated as it is, or the whole *)
(* transaction is built anew.                                              *)
SendRepeated(s) ==
    /\ "reply" \in Faults /\ pc[s] = "send"
    /\ Accept(s)
    /\ UNCHANGED <<pc, call, outcome, calls>>

SendRebuilt(s) ==
    /\ "reply" \in Faults /\ pc[s] = "send"
    /\ Accept(s)
    /\ pc'   = [pc EXCEPT ![s] = "fund"]
    /\ call' = [call EXCEPT ![s].inputs = {}]
    /\ UNCHANGED <<outcome, calls>>

(* The node has the transaction, and the caller an exception.              *)
SendReplyLost(s) ==
    /\ "reply" \in Faults
    /\ Accept(s)
    /\ End(s, "send", Wrapped(s))
    /\ Blame(s)

(* An RPCError of the node for a reason of its own, or a request that does *)
(* not arrive or whose answer is lost when nothing has been done.          *)
Fails(s) ==
    /\ Faults # {}
    /\ \E from \in {"create", "fund", "sign", "send"} : End(s, from, Wrapped(s))
    /\ Blame(s)
    /\ UNCHANGED chain

-----------------------------------------------------------------------------
(* verify_asset_tx *)

(* The script of a data output: OP_RETURN, the length as one byte or, over *)
(* 75, behind OP_PUSHDATA1, and the payload.                               *)
ScriptOf(payload) ==
    (IF Len(payload) <= 75 THEN <<106>> ELSE <<106, 76>>) \o <<Len(payload)>> \o payload

RawBytes(output) == LET script == ScriptOf(output.payload) IN SubSeq(script, 3, Len(script))

IsAssetData(output) ==
    output.kind = "data" /\ SubSeq(RawBytes(output), 1, 2) = DAMagic

(* Mutant: only the first output is looked at. *)
FirstOutput(outputs) == {i \in {1} : IsAssetData(outputs[i])}

AssetOutputs(outputs) == {i \in DOMAIN outputs : IsAssetData(outputs[i])}

(* Of the first output that carries asset data, or nothing. The asset id   *)
(* that comes with it is a hash of the transaction's id, and left out.     *)
Report(tx) ==
    LET outputs == chain[tx].outputs
        found   == AssetOutputs(outputs)
    IN  {[version |-> RawBytes(outputs[i])[3], payload |-> RawBytes(outputs[i])] :
            i \in {j \in found : \A k \in found : j <= k}}

(* The caller has the id of a transaction, maybe one the node has not.     *)
Verify(s) == \E tx \in 0..Len(chain) :
    /\ Call(s, [NoCall EXCEPT !.op = "verify", !.target = tx])
    /\ pc'      = [pc EXCEPT ![s] = "look"]
    /\ outcome' = [outcome EXCEPT ![s] = Raised("running")]

Look(s) ==
    /\ End(s, "look", Inspected(IF call[s].target = 0 THEN {} ELSE Report(call[s].target)))
    /\ UNCHANGED <<call, chain>>

(* An RPCError is taken for a transaction without asset data; a node that  *)
(* is not reached, and an answer that is cut off or no JSON, are not.      *)
LookFails(s) ==
    /\ \/ "node" \in Faults /\ End(s, "look", Inspected({}))
       \/ Faults \cap {"link", "reply"} # {} /\ End(s, "look", Raised("NodeConnectionError"))
       \/ "reply" \in Faults /\ End(s, "look", Raised("JSONDecodeError"))
    /\ Blame(s)
    /\ UNCHANGED chain

-----------------------------------------------------------------------------
Answered(s) ==
    \/ Create(s)
    \/ Fund(s) \/ FundFails(s)
    \/ Sign(s) \/ SignIncomplete(s)
    \/ Send(s) \/ SendRejected(s)
    \/ Look(s)

Next == \E s \in Sessions :
    \/ Issue(s) \/ Transfer(s) \/ Verify(s)
    \/ Answered(s) \/ SendReplyLost(s) \/ Fails(s) \/ LookFails(s)

Spec     == Init /\ [][Next]_vars
FairSpec == Spec /\ \A s \in Sessions : WF_vars(Answered(s))
=============================================================================
