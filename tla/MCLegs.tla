-------------------------------- MODULE MCLegs --------------------------------
(* Short series and coarse configurations of Legs.tla for TLC. *)
EXTENDS Legs

Bar(o, h, l, c, b, f) == [o |-> o, h |-> h, l |-> l, c |-> c, b |-> b, f |-> f]
MCFirst == <<Bar(1000, 1010, 990, 1000, 1000, 2), Bar(1000, 1000, 970, 980, 1000, 3), Bar(980, 1000, 970, 970, 1000, 1)>>
MCShapes ==
    {Bar(0, 5, -60, -50, 0, 1),       \* a fall
     Bar(-70, -40, -80, -40, -10, 2), \* a gap down
     Bar(0, 60, -5, 50, 10, 3),       \* a rise
     Bar(60, 70, 30, 30, 0, NoValue),    \* a gap up
     Bar(0, 5, -5, 0, 0, 2)}          \* calm

Exit(kind, pct, s, t, z, cond, cap) ==
    [kind |-> kind, pct |-> pct, s |-> s, t |-> t, z |-> z, cond |-> cond, cap |-> cap]
MCMomentum == {Exit("A", 1, 3, 5, 0, FALSE, 3), Exit("B", 0, 0, 0, 3, FALSE, 3),
               Exit("A", 1, 5, 0, 0, TRUE, 4)}
MCPair == {[m |-> 3, zin |-> 100, zstop |-> 190]}
MCFunding == {[p |-> 60, filt |-> TRUE, h |-> 2, s |-> 3],
              [p |-> 55, filt |-> FALSE, h |-> 3, s |-> 5]}
MCRatioGrid ==
    <<[l |-> 1, t |-> 2, s |-> 3, cap |-> 2, short |-> FALSE],
      [l |-> 2, t |-> 2, s |-> 3, cap |-> 2, short |-> FALSE],
      [l |-> 1, t |-> 4, s |-> 3, cap |-> 2, short |-> FALSE],
      [l |-> 1, t |-> 2, s |-> 3, cap |-> 3, short |-> TRUE]>>
MCGrid == {[g |-> 3, l |-> 2, tp |-> 2, bust |-> 4]}
MCCrash == {[drop |-> 3, h |-> 3, s |-> 3, t |-> 4, filt |-> FALSE],
            [drop |-> 3, h |-> 2, s |-> 5, t |-> 0, filt |-> TRUE]}
=============================================================================
