------------------------- MODULE MCManagerRegistry -------------------------
EXTENDS ManagerRegistry

\* The configuration loaded at startup lists one manager.
MCInitConf == [managers |-> <<[id |-> "m1", conf |-> "b1"]>>, access |-> {"u1"}]
=============================================================================
