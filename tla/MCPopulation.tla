------------------------------ MODULE MCPopulation ------------------------------
EXTENDS Population

Polling   == [poll |-> TRUE, destroy |-> TRUE]
Listening == [poll |-> FALSE, destroy |-> TRUE]
Reporting == [poll |-> TRUE, destroy |-> FALSE]
AllPolicies == {Polling, Listening, Reporting}
PollOnly    == {Polling}
===============================================================================
