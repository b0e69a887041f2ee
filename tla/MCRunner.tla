------------------------------ MODULE MCRunner ------------------------------
(***************************************************************************)
(* Small deployments of Runner: a triangle, and two pairs that trade the   *)
(* same symbol in opposite directions and so share both books.             *)
(***************************************************************************)
EXTENDS Runner

OneTriangle == {"triangle"}
TwoPairs == {"there", "back"}

MCBooks == [m \in Monitors |->
              CASE m = "triangle" -> <<"BTC/USDT", "ETH/BTC", "ETH/USDT">>
                [] m = "there" -> <<"kraken", "bybit">>
                [] m = "back" -> <<"bybit", "kraken">>]

\* The messages of the two pairs begin alike.
MCLabel == [m \in Monitors |-> IF m = "triangle" THEN "USDT->BTC->ETH->USDT" ELSE "BTC/USDT"]

\* A pair evaluates on its buy snapshots, a triangle on all of them.
MCTriggers == [m \in Monitors |-> IF m = "triangle" THEN 1..3 ELSE {1}]

\* Only pairs log and have windows to fill.  One of the two pairs does neither:
\* the shorter way keeps the product of the two small.
MCLogging == Monitors \ {"triangle", "back"}
MCWarmUp == [m \in Monitors |-> IF m = "there" THEN 2 ELSE 0]
=============================================================================
