--------------------------- MODULE MCMediaStreams ---------------------------
(* MediaStreams with the bounds of the run streams. *)
EXTENDS MediaStreams

CONSTANTS k1, k2, MaxTotal

\* Two streams, of which only RTMP sessions use the second: one is enough to be
\* turned away from the first.
TwoStreams == {k1, k2}

OneForAll == \A s \in Sessions \ Rtmp : session[s].key # k2

\* The sessions made and the packets in the streams: two sessions and two packets,
\* a session that plays what it publishes and three, three sessions and one.
Total ==
    Cardinality({s \in Sessions : session[s].phase # "none"})
        + MapThenSumSet(LAMBDA k : Len(streams[k].history), DOMAIN streams)

SmallStreams == OneForAll /\ Total <= MaxTotal
=============================================================================
