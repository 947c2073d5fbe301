----------------------------- MODULE MCBilling -----------------------------
(* Instances of Billing for TLC.                                           *)
EXTENDS Billing, TLC

\* Amounts that round: 0.4 cents a second in the pool, 0.3 on own workers, 0.4 a receipt; or
\* 0.6 a second anywhere, and 0.9 a receipt.
FirstPrices == [rate |-> 4, own |-> 3, receipt |-> 4]
NewPrices == [rate |-> 6, own |-> 6, receipt |-> 9]
BothPrices == {FirstPrices, NewPrices}
OneOrg == [j \in Jobs |-> "o1"]
Runtimes == [j \in Jobs |-> IF j = "j1" THEN 1 ELSE 9]
JoinedFirst == [o \in Orgs |-> 0]
Cheap == [a |-> [fee |-> 1, included |-> 2], b |-> [fee |-> 3, included |-> 0]]
Dear == [a |-> [fee |-> 2, included |-> 1], b |-> [fee |-> 3, included |-> 0]]
SomePeriods == {<<0, 2>>, <<1, 3>>}
ChargedAtOnce == {[kind |-> "mock", auto |-> TRUE]}
BothTables == {Cheap, Dear}
=============================================================================
