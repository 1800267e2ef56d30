------------------------------- MODULE MCFeeds -------------------------------
(* Feeds: three transactions, one of them with two messages; a batch and a *)
(* LIMIT that end between them.  One client, two days: an outbound message *)
(* on the first, none but an inbound one on the second.                    *)
EXTENDS Feeds

CONSTANTS w1, w2, s1, s2, cA, cB, today, later, in1, out1, in2, none

Ids == 1..4
Transactions == {{1}, {2, 3}, {4}}
Dates == [r \in Ids |-> IF r = 4 THEN later ELSE today]
Columns == [r \in Ids |-> CASE r = 3 -> out1 [] r = 4 -> in2 [] OTHER -> in1]
InboundColumn == [d \in {today, later} |-> IF d = today THEN in1 ELSE in2]
Clients == [d \in {today, later} |-> cA]

(* One plan's limit falls, the other has none at first.                    *)
Configs == <<[trial |-> 2, growth |-> none], [trial |-> 1, growth |-> 2]>>
Upgraded == [c \in {cA} |-> <<"trial", "growth">>]
Owners == [x \in Ids \cup {s1, s2} |-> IF x \in {4, s2} THEN cB ELSE cA]

OneOrTwoCounters == {{w1}, {w1, w2}, {"rollup"}, {"feed"}}
=============================================================================
