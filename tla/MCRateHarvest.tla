---------------------------- MODULE MCRateHarvest ---------------------------
(* Instances of RateHarvest for TLC.                                       *)
EXTENDS RateHarvest

CONSTANT server

MCServer == {server}
=============================================================================
