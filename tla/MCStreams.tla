----------------------------- MODULE MCStreams -----------------------------
(* Streams for TLC: programs in which every kind of stage occurs.          *)
EXTENDS Streams

St(kind, in, out, n) == [kind |-> kind, in |-> in, out |-> out, n |-> n, keep |-> {1, 3, -1, -3}]

Pipeline == <<St("iota", <<>>, <<1>>, 4), St("map", <<1>>, <<2>>, 0), St("filter", <<2>>, <<3>>, 0),
              St("buffer", <<3>>, <<4>>, 2), St("reduce", <<4>>, <<>>, 0)>>
Limited  == <<St("iota", <<>>, <<1>>, 4), St("do", <<1>>, <<2>>, 0), St("throttle", <<2>>, <<3>>, 0),
              St("limit", <<3>>, <<4>>, 2), St("forEach", <<4>>, <<>>, 0)>>
Splits   == <<St("iota", <<>>, <<1>>, 3), St("split", <<1>>, <<2, 3>>, 0), St("tee", <<2>>, <<4, 5>>, 0),
              St("subscriber", <<3>>, <<>>, 0), St("subscriber", <<4>>, <<>>, 0), St("wait", <<5>>, <<>>, 0)>>
Joins    == <<St("iota", <<>>, <<1>>, 2), St("chargen", <<>>, <<2>>, 1), St("null", <<>>, <<3>>, 0),
              St("join", <<1, 2, 3>>, <<4>>, 0), St("overflow", <<4>>, <<5>>, 0), St("subscriber", <<5>>, <<>>, 0)>>
Valves   == <<St("iota", <<>>, <<1>>, 3), St("valve", <<1>>, <<2>>, 0), St("copy", <<2>>, <<3, 4>>, 0),
              St("wait", <<3>>, <<>>, 0), St("subscriber", <<4>>, <<>>, 0)>>
Ticks    == <<St("ticker", <<>>, <<1>>, 2), St("tickerSource", <<1>>, <<2>>, 0),
              St("chargen", <<>>, <<3>>, 3), St("chargenSource", <<3>>, <<4>>, 2),
              St("joiner", <<2, 4>>, <<5>>, 0), St("subscriber", <<5>>, <<>>, 0)>>
Shared   == <<St("ticker", <<>>, <<1>>, 3), St("repeater", <<1>>, <<2, 3>>, 0),
              St("joiner", <<2>>, <<4>>, 0), St("limit", <<4>>, <<5>>, 1), St("wait", <<5>>, <<>>, 0),
              St("subscriber", <<3>>, <<>>, 0)>>

\* Streams that share a control channel: joined, and one of them repeated.
Rejoins  == <<St("iota", <<>>, <<1>>, 3), St("split", <<1>>, <<2, 3>>, 0), St("join", <<2, 3>>, <<4>>, 0),
              St("subscriber", <<4>>, <<>>, 0)>>
Siblings == <<St("iota", <<>>, <<1>>, 2), St("tee", <<1>>, <<2, 3>>, 0), St("repeater", <<2>>, <<4>>, 0),
              St("wait", <<4>>, <<>>, 0), St("subscriber", <<3>>, <<>>, 0)>>

MCGraphs == {Pipeline, Limited, Splits, Joins, Valves, Ticks, Shared, Rejoins, Siblings}
=============================================================================
