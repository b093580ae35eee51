--------------------------- MODULE MCMarketEvents ---------------------------
(* The instances of MCMarketplace with a reader of the published events. *)
EXTENDS MCMarketplace, MarketEvents
=============================================================================
