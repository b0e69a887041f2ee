------------------------------ MODULE MCSignal ------------------------------
(***************************************************************************)
(* Small books for Signal: too thin, deep at once, and deep only in their  *)
(* second level; losing, profitable below the minimum alpha, and above it. *)
(***************************************************************************)
EXTENDS Signal

Level(p, v) == [price |-> p, volume |-> v]

MCAskBooks == {<<Level(500, 1)>>,
               <<Level(500, 20)>>,
               <<Level(500, 1), Level(501, 9)>>,
               <<Level(500, 1), Level(501, 10)>>}

MCBidBooks == {<<Level(503, 1)>>,
               <<Level(500, 9)>>,
               <<Level(502, 1), Level(501, 4)>>,
               <<Level(503, 1), Level(502, 5)>>,
               <<Level(503, 2)>>,
               <<Level(504, 1), Level(503, 5)>>}

\* For a notional of 8: one bridge asset at 4 is half of what it buys.
MCBridgeAsks == {<<Level(4, 1)>>, <<Level(4, 9)>>, <<Level(4, 1), Level(5, 9)>>}

MCTargetAsks == {<<Level(1, 9)>>, <<Level(1, 1), Level(2, 9)>>}

MCTargetBids == {<<Level(9, 1)>>, <<Level(6, 9)>>, <<Level(9, 1), Level(4, 9)>>}

\* A pair that moved by 38 in a window of seven is too volatile to trade; a
\* triangle that moved by 25 once is not, in a full window, there and back it is.
MCReturns == {0, 38}
MCMids == {10000, 10025}
=============================================================================
