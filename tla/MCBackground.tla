---------------------------- MODULE MCBackground ----------------------------
EXTENDS Background

MCMigrations == <<"atomic", "concurrent">>
MCPeriodOf == [retention |-> 3600, tns |-> 3600]
=============================================================================
