---------------------------- MODULE MCAdapters ----------------------------
EXTENDS Adapters

\* Every adapter by itself, and two website scans at once.
MCPlans ==
    {[j1 |-> a, j2 |-> "none"] : a \in Adapters} \union {[j1 |-> "zap", j2 |-> "zap"]}
MCSemgrep == {[j1 |-> "semgrep", j2 |-> "none"]}
MCRulesets == <<"p/default", "p/golang">>
=============================================================================
