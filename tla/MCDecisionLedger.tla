-------------------------- MODULE MCDecisionLedger --------------------------
(* Instances of DecisionLedger for TLC.                                    *)
EXTENDS DecisionLedger, TLC

CONSTANTS w1, w2

MCWorkers   == {w1, w2}
MCQuotes    == {2}
MCRates     == {0, 1, 3}     \* rejected, below the quote, above it
MCOneRate   == {0, 3}
MCWindows   == {1 .. 9}      \* leaves out the first stamp

MCSymmetry  == Permutations(Workers)
=============================================================================
