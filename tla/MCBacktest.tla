------------------------------- MODULE MCBacktest -------------------------------
(* A backtest of Backtest.tla for TLC. *)
EXTENDS Backtest

MCPrices == {100, 102}
MCWarmups ==
    {<<100, 102, 100, 100, 102, 100, 100, 102, 100, 100, 100, 102, 100, 102, 102, 100,
       100, 102, 102, 100, 102, 100, 102, 102>>,
     <<102, 100, 102, 102, 100, 102, 102, 100, 102, 102, 102, 100, 102, 100, 100, 102,
       102, 100, 100, 102, 100, 102, 100, 100>>}
MCPermitted == {"P", "C"}
MCSides(p, c) == [s \in {"P", "C"} |-> IF s = "P" THEN p ELSE c]
MCVolPct == MCSides(40, 30)
MCRegimes == MCSides({"range", "transition", "trend"}, {"range", "trend"})
MCCoreVolPct == MCSides(60, 30)
MCCoreRegimes == MCSides({"range"}, {"range", "trend"})
MCHoldBars == MCSides(3, 2)
MCTp2Pct == MCSides(75, 60)
MCSlPct == MCSides(150, 100)
MCTouches == {{}, {"sl", "tp2"}, {"tp2"}}
MCOtherPnls == {-10}
=============================================================================
