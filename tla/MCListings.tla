----------------------------- MODULE MCListings -----------------------------
(* Instances of Listings, and of MarketStats, for TLC. *)
EXTENDS Listings, TLC

\* The first watch and the second cost the same once the price has doubled.
ThreeWatches == <<1, 2, 3>>

Symmetric == Permutations(Makers) \cup Permutations(Fills)
=============================================================================
