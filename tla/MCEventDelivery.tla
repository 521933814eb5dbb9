---------------------------- MODULE MCEventDelivery ----------------------------
EXTENDS EventDelivery
TwoChannels == {1, 2}
FirstChannel == {1}
SecondChannel == {2}
TwoSlots == {1, 2}
===============================================================================
