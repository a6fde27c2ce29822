------------------------------ MODULE MCHealth ------------------------------
EXTENDS Health

\* The app is called down before it is restarted, or after; nothing validates
\* the thresholds, so that they may be 0; or nobody looks.
Configs == [fail : {2}, down : {1, 2, 3}, enabled : {TRUE}]
           \cup {[fail |-> 0, down |-> 0, enabled |-> TRUE],
                 [fail |-> 2, down |-> 1, enabled |-> FALSE]}
=============================================================================
