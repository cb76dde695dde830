------------------------------ MODULE MCMxBuilder ------------------------------
EXTENDS MxBuilder
CONSTANTS e1, e2, scenarioA, scenarioB
MCMessages(e) == IF e = e1 THEN {scenarioA, scenarioB} ELSE {scenarioB}
================================================================================
