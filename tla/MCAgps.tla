------------------------------ MODULE MCAgps -------------------------------
EXTENDS Agps, TLC

CONSTANTS h1, h2, h3

MCHandles == {h1, h2, h3}

Setup(emergencyPdn, closeWaiters, modemRestarts, badApns) ==
    [emergencyPdn |-> emergencyPdn, closeWaiters |-> closeWaiters,
     modemRestarts |-> modemRestarts, badApns |-> badApns]

\* The manager as built, in a well-behaved environment and in a bad one.
AsBuilt == {Setup(FALSE, {}, FALSE, FALSE), Setup(FALSE, {}, TRUE, TRUE)}

\* The state machine class driven beyond what the manager asks of it: handles
\* that wait for the close, the case RELEASING was written for.
Contract == {Setup(TRUE, {h1, h2}, FALSE, TRUE)}

MCSetups == AsBuilt \cup Contract
BadApns  == {Setup(FALSE, {}, FALSE, TRUE)}
=============================================================================
