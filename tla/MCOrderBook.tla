----------------------------- MODULE MCOrderBook -----------------------------
(* Instances of OrderBook for TLC. *)
EXTENDS OrderBook, TLC

\* Two sells and a buy: retiring the cheap sell changes the average price.
Prices == ("s1" :> 3) @@ ("s2" :> 4) @@ ("b1" :> 2)

\* A sell and a buy: an average as soon as both are open.
TwoPrices == ("s1" :> 3) @@ ("b1" :> 2)
=============================================================================
