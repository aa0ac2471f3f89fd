---------------------------- MODULE AssetSafety ----------------------------
(***************************************************************************)
(* What issuing and transferring assets promises: on the chain, to the     *)
(* caller, and between callers that share a wallet.                        *)
(***************************************************************************)
EXTENDS AssetPipeline

Busy(s)     == pc[s] # "idle"
Building(s) == pc[s] \in {"create", "fund", "sign", "send"}

(* The data outputs of a transaction, by number, and what they carry.      *)
DataIn(outputs)    == {i \in DOMAIN outputs : outputs[i].kind = "data"}
PayloadIn(outputs) == outputs[CHOOSE i \in DataIn(outputs) : TRUE].payload

(* The variables keep their types: a call under way has something to write *)
(* into its payload, its transaction has one data output, and what has     *)
(* been signed has inputs.                                                 *)
TypeOK ==
    /\ pc \in [Sessions -> {"idle", "create", "fund", "sign", "send", "look"}]
    /\ \A s \in Sessions : outcome[s].kind \in
         {"none", "running", "returned", "inspected"} \cup Exceptions
    /\ calls \in 0..MaxCalls
    /\ \A s \in Sessions :
         /\ call[s].id \in 0..calls /\ call[s].amount \in Amount
         /\ call[s].target \in 0..Len(chain)
         /\ Busy(s) => outcome[s].kind = "running"
         /\ pc[s] \in {"sign", "send"} => call[s].inputs # {}
         /\ Building(s) =>
              /\ call[s].amount # <<>>
              /\ Cardinality(DataIn(call[s].outputs)) = 1

(* The instruction of a transfer payload, read as it was written: two      *)
(* numbers behind the opcode and nothing after them.                       *)
ReadTransfer(data) ==
    UNION {{[vout |-> v.value, amount |-> a.value] :
               a \in {b \in DecodeLeb128(data, 3 + v.consumed) :
                        3 + v.consumed + b.consumed = Len(data)}} :
           v \in DecodeLeb128(data, 3)}

(* What the library's own reader gives up on: more than ten bytes.         *)
Readable(amount) == Len(amount) <= 10

(* Whatever the node does with the order of the outputs, the data output   *)
(* of an issuance reads back, with IssuancePayload.decode, to the amount   *)
(* and the flags the caller passed, and that of a transfer to output 1 and *)
(* its amount, for every amount below 2^70; from there on a payload is     *)
(* still written, but reads as an error and never as another amount. No    *)
(* transfer reads as an issuance, and no payload is longer than a data     *)
(* output may be (metadata.py encode, decode; utils.py encode_leb128,      *)
(* decode_leb128).                                                         *)
ChainSaysWhatWasAsked ==
    \A n \in DOMAIN chain :
        LET by   == chain[n].by
            data == PayloadIn(chain[n].outputs)
        IN  /\ Len(data) <= OpReturnMaxBytes
            /\ IF by.op = "issue"
               THEN /\ DecodeIssuance(data) =
                         {[amount |-> by.amount, asset |-> a] :
                             a \in {b \in by.asset : Readable(by.amount)}}
                    /\ SubSeq(data, Len(data) - 19, Len(data)) = by.hash
               ELSE /\ ReadTransfer(data) =
                         {[vout |-> <<1>>, amount |-> a] :
                             a \in {b \in {by.amount} : Readable(b)}}
                    /\ DecodeIssuance(data) = Unreadable

(* What verify_asset_tx says of a transaction that it can read: what its   *)
(* call has put there.                                                     *)
Carried(tx) ==
    [version |-> IF tx.by.op = "issue" THEN DAVersion3 ELSE DATransferOpcode,
     payload |-> PayloadIn(tx.by.outputs)]

(* Those with a length of one byte in their script.                        *)
Short(payload) == Len(payload) <= 75

Finds(s) == outcome[s].kind = "inspected" =>
    LET looked == {chain[n] : n \in {call[s].target} \ {0}}
    IN  /\ outcome[s].report \subseteq {Carried(tx) : tx \in looked}
        /\ \A tx \in looked :
             Short(Carried(tx).payload) /\ ~call[s].faulty => outcome[s].report # {}

(* What verify_asset_tx returns is what the transaction's own call has     *)
(* put there, payload and version byte, wherever the node has put the      *)
(* change output and whatever failed; it returns nothing for an unknown    *)
(* transaction; and when its request is answered it finds every payload    *)
(* of up to 75 bytes. Of longer ones NoneMeansNoAssets below speaks        *)
(* (assets.py:340-370).                                                    *)
InspectionFindsPayload == \A s \in Sessions : Finds(s)

Sent(s) == {n \in DOMAIN chain : chain[n].by.id = call[s].id}

TellsTruth(s) ==
    /\ outcome[s].kind = "returned" => Sent(s) = {outcome[s].tx}
    /\ outcome[s].kind \in {"ValidationError", "MetadataValidationError",
                            "InsufficientFundsError"} => Sent(s) = {}
    /\ call[s].op = "none" \/ call[s].op = "verify" => Sent(s) = {}
    /\ Sent(s) # {} => outcome[s].kind = "returned" \/ call[s].faulty

(* What a call tells its caller is true of the chain: a result names the   *)
(* one transaction of the call; ValidationError, MetadataValidationError   *)
(* and InsufficientFundsError mean that there is none; so do the other     *)
(* errors, unless a request of the call failed on its way. No call ever    *)
(* sends two transactions (assets.py issue, transfer,                      *)
(* _build_and_broadcast).                                                  *)
CallTellsTruth == \A s \in Sessions : Cardinality(Sent(s)) <= 1 /\ TellsTruth(s)

Lost(s) == Building(s) /\ ~Busy(s)' /\ outcome'[s].kind # "returned" /\ ~ call'[s].faulty

(* A call that fails although every request of it was answered has lost a  *)
(* coin to a transaction of another call, or was told when it asked for    *)
(* funds, all its own coins being there, that they are not enough: two     *)
(* sessions on one wallet never fail each other both, none fails itself,   *)
(* and a call that has been funded fails for another call only             *)
(* (_build_and_broadcast, whose fundrawtransaction locks nothing).         *)
LosersHaveAWinner ==
    [][\A s \in Sessions : Lost(s) =>
          \/ \E n \in DOMAIN chain : /\ chain[n].by.id # call[s].id
                                     /\ chain[n].inputs \cap call[s].inputs # {}
          \/ pc[s] = "fund" /\ call[s].inputs \subseteq Unspent]_vars

(* Every call ends, with a result or an exception: none of the four        *)
(* requests is repeated.                                                   *)
CallsEnd == \A s \in Sessions : Busy(s) ~> ~Busy(s)

-----------------------------------------------------------------------------
(* Why these hold: the inductive invariant behind them                     *)

Locations   == {"idle", "create", "fund", "sign", "send", "look"}
Kinds       == {"none", "running", "returned", "inspected"} \cup Exceptions
Coin        == Nat \X Nat
Output      == [kind : {"data", "pay", "change"}, payload : Seq(Nat),
                to : SUBSET Addresses]
Arguments   == [id : Nat, op : {"none", "issue", "transfer", "verify"}, amount : Amount,
                asset : SUBSET Asset, hash : {NoHash, MetadataHash},
                to : SUBSET Addresses, inputs : SUBSET Coin, outputs : Seq(Output),
                target : Nat, faulty : BOOLEAN]
Finding     == [version : Nat, payload : Seq(Nat)]
Outcome     == [kind : Kinds, tx : Nat, report : SUBSET Finding]
Transaction == [inputs : SUBSET Coin, outputs : Seq(Output), by : Arguments]

(* The payload is what the call has asked for. *)
Says(c, payload) ==
    /\ Encodable(payload)
    /\ \/ /\ c.op = "issue"
          /\ \E a \in Asset : c.asset = {a} /\ payload = IssuancePayload(c.amount, a, c.hash)
       \/ /\ c.op = "transfer"
          /\ payload = TransferPayload(<<[vout |-> <<1>>, amount |-> c.amount]>>)

(* The transaction of a call has one data output, which says so. *)
WellBuilt(c) ==
    /\ c.id # 0 /\ c.amount # <<>>
    /\ \E i \in DOMAIN c.outputs :
          DataIn(c.outputs) = {i} /\ Says(c, c.outputs[i].payload)

(* What is true of a session at each of its requests. *)
SessionInv(s) ==
    /\ call[s].id <= calls /\ call[s].target <= Len(chain)
    /\ Busy(s) => outcome[s].kind = "running" /\ call[s].id # 0
    /\ pc[s] \in {"sign", "send"} => call[s].inputs # {}
    /\ Building(s) => WellBuilt(call[s]) /\ call[s].inputs \subseteq Own /\ Sent(s) = {}
    /\ pc[s] = "look" => call[s].op = "verify"
    /\ TellsTruth(s) /\ Finds(s)

(* No two sessions work on the same call. *)
CallsAreDistinct ==
    \A s, t \in Sessions : call[s].id = call[t].id /\ call[s].id # 0 => s = t

(* Every transaction is as the call built it, and the only one of it. *)
ChainIsBuilt ==
    /\ \A n \in DOMAIN chain : LET tx == chain[n] IN
          /\ WellBuilt(tx.by) /\ tx.by.id <= calls
          /\ tx.inputs = tx.by.inputs /\ tx.outputs = tx.by.outputs
    /\ \A m, n \in DOMAIN chain : chain[m].by.id = chain[n].by.id => m = n

(* The number of a call under way is its own, and no transaction on the    *)
(* chain is of it before its answer; what is on the chain was built whole, *)
(* for one call, and says what that call has asked for                     *)
(* (assets.py:179-334).                                                    *)
AssetInv ==
    /\ pc \in [Sessions -> Locations] /\ call \in [Sessions -> Arguments]
    /\ outcome \in [Sessions -> Outcome] /\ chain \in Seq(Transaction)
    /\ calls \in 0..MaxCalls
    /\ CallsAreDistinct /\ ChainIsBuilt
    /\ \A s \in Sessions : SessionInv(s)

-----------------------------------------------------------------------------
(* "Returns parsed dict or None if not a DigiAssets transaction"           *)
(* (assets.py:342-343): of a transaction that an issuance or a transfer    *)
(* has sent, verify_asset_tx does not return None. The code looks for the  *)
(* payload behind two bytes of the script, which are three from 76 bytes   *)
(* of payload on (assets.py:359).                                          *)
NoneMeansNoAssets ==
    \A s \in Sessions :
        outcome[s].kind = "inspected" /\ outcome[s].report = {} => call[s].target = 0

(* "Returned by DigiForge.transfer() on success", with "asset_id Asset     *)
(* that was transferred" and "to_address Destination address"              *)
(* (assets.py:71-77): the transaction spends a coin that holds the asset,  *)
(* and the output its instruction names, number 1 counted from 0, is the   *)
(* destination. The code looks for no coin of the asset, and lets the node *)
(* put the change output at number 1.                                      *)
TransferMovesAsset ==
    \A s \in Sessions :
        outcome[s].kind = "returned" /\ call[s].op = "transfer" =>
            LET tx == chain[outcome[s].tx]
            IN  /\ tx.inputs \cap ({0} \X Holding) # {}
                /\ {tx.outputs[2]} = {PaidTo(a) : a \in call[s].to}
=============================================================================
