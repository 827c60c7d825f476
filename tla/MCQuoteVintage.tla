--------------------------- MODULE MCQuoteVintage ---------------------------
(* Instances of QuoteVintage for TLC.                                      *)
EXTENDS QuoteVintage

CONSTANTS paradip, haldia, quoter

MCPorts   == <<haldia, paradip>>
MCOnePort == <<paradip>>
MCKnown   == {paradip}
MCQuoters == {quoter}
MCNobody  == {}
=============================================================================
