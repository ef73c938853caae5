------------------------------ MODULE MCAdvisor ------------------------------
(* Model-checking instances of Advisor and of its rules. *)
EXTENDS Advisor

Symmetry == Permutations(Pos) \cup Permutations(Trig)

BothKeys == {<<"ETH", "P">>, <<"ETH", "C">>}
CoolDay == -6
LowFunding == -2
KillLoss == -20
Emergency == -55

(* Five candles: calm and fading, falling, unchanged over its last day, and one
   whose last day is wild. *)
Candles == {<<110, 108, 106, 105, 105>>, <<120, 105, 104, 103, 102>>,
            <<108, 108, 105, 106, 105>>, <<104, 104, 104, 100, 104>>}
(* Rich, poor, one side only, and one side rich enough alone but not with the other. *)
Vols == {[s \in {"P", "C"} |-> 700], [s \in {"P", "C"} |-> 100], [s \in {"P"} |-> 300],
         [s \in {"P", "C"} |-> IF s = "P" THEN 300 ELSE 100]}
Quotes == {[mark |-> 60, iv |-> 500, spot |-> 110], [mark |-> 90, iv |-> 500, spot |-> 110],
           [mark |-> 170, iv |-> 500, spot |-> 90]}
Seen == {[checked |-> c, ret_7d |-> r] : c \in {5, 9}, r \in {-9, 0, 9}}
Book == [id |-> 1, coin |-> "ETH", side |-> "P", credit |-> 100, qty |-> 1, strike |-> 100,
         opened |-> 0, expiry |-> 20, hold |-> 12, tp2 |-> 80, sl |-> 300]
Call(pnl) == [coin |-> "ETH", side |-> "C", source |-> "advisor", pnl |-> pnl]
Past == {{}, {Call(30)}, {Call(-30)}}
Say(action) == [positions |-> <<[id |-> 1, action |-> action]>>]
Answers ==
    {[market_risk |-> risk, risk_posture |-> posture,
      positions |-> <<[id |-> 1, action |-> "CLOSE"]>>,
      entry_proposal |-> [coin |-> "ETH", side |-> side, confidence |-> 80]] :
        risk \in {"low", "high"}, posture \in Postures, side \in {"P", "C"}}

Worldly(candles, quotes, books, past, says, silences) ==
    [closes : candles, ticker : {[fundingRate |-> 0], [fundingRate |-> 9]}, ivs : Vols,
     quote : quotes, status : Seen,
     journal : {TRUE}, up : {TRUE}, closed : past, book : books, previous : says,
     raw : Answers, posture : {"tight"}, backend : {"cli"},
     token : {TRUE}, ended : {<<"ok", "ok">>}, silence : silences, now : {10}]
(* Everything an entry depends on, and everything a close does. *)
SmallWorlds ==
    Worldly(Candles, {CHOOSE q \in Quotes : TRUE}, {{}, {Book}}, Past, {None}, {5})
    \cup Worldly({CHOOSE c \in Candles : TRUE}, Quotes, {{}, {Book}}, {{}},
                 {None, Say("HOLD"), Say("CLOSE")}, {None})
=============================================================================
