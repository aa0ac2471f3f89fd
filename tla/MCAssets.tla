------------------------------ MODULE MCAssets ------------------------------
(***************************************************************************)
(* Small instances of the asset operations for TLC.                        *)
(***************************************************************************)
EXTENDS AssetSafety

(* The lowest and the highest value of every flag, each beside others.     *)
Plain  == [divisibility |-> 0, lock |-> TRUE, aggregation |-> 0]
Full   == [divisibility |-> 7, lock |-> FALSE, aggregation |-> 2]

CONSTANT alice

(* The digits of n, and the highest and the lowest amount of k digits.     *)
Digits[n \in Nat] == IF n = 0 THEN <<>> ELSE <<n % 128>> \o Digits[n \div 128]
Highest(k) == [i \in 1..k |-> 127]
Lowest(k)  == [i \in 1..k |-> IF i = k THEN 1 ELSE 0]

(* Amounts at the edge of one digit, of what the reader takes (ten), of    *)
(* what verify_asset_tx finds (a payload of 75 bytes) and of what fits (80 *)
(* bytes); none, and metadata that do not validate.                        *)
IssueArguments ==
    {[amount |-> <<>>, asset |-> Plain, valid |-> FALSE, hash |-> NoHash, to |-> {}],
     [amount |-> Digits[127], asset |-> Plain, valid |-> FALSE, hash |-> MetadataHash,
      to |-> {}],
     [amount |-> Digits[128], asset |-> Plain, valid |-> TRUE, hash |-> NoHash, to |-> {}],
     [amount |-> Highest(10), asset |-> Full, valid |-> TRUE,
      hash |-> MetadataHash, to |-> {alice}],
     [amount |-> Lowest(51), asset |-> Full, valid |-> TRUE, hash |-> NoHash, to |-> {alice}],
     [amount |-> Lowest(57), asset |-> Full, valid |-> TRUE, hash |-> NoHash, to |-> {}]}

(* With no amount, no address, with and without from_utxos.                *)
TransferArguments ==
    {[amount |-> <<>>, to |-> {alice}, utxos |-> {}],
     [amount |-> <<1>>, to |-> {}, utxos |-> {}],
     [amount |-> Digits[127], to |-> {alice}, utxos |-> {}],
     [amount |-> Lowest(11), to |-> {alice}, utxos |-> {2}],
     [amount |-> Lowest(76), to |-> {alice}, utxos |-> {2}],
     [amount |-> Lowest(77), to |-> {alice}, utxos |-> {2}]}
=============================================================================
