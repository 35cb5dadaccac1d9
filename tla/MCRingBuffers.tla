--------------------------- MODULE MCRingBuffers ---------------------------
(* RingBuffers for TLC: two CPUs whose clocks, once normalized, disagree.  *)
EXTENDS RingBuffers

Attr(sampleType, readFormat) ==
  [type |-> "none", config |-> 7, sampleType |-> sampleType, readFormat |-> readFormat, sampleIDAll |-> TRUE,
   flags |-> {}, samplePeriod |-> 0, sampleFreq |-> 0, wakeupEvents |-> 0, wakeupWatermark |-> 0,
   preciseIP |-> 0, config1 |-> 0, bpAddr |-> 0, config2 |-> 0, bpLen |-> 0]

MCRings == {"cpu0", "cpu1"}
MCTimeBase == [r \in MCRings |-> IF r = "cpu0" THEN 100 ELSE 103]
MCRunningFor == [r \in MCRings |-> 1]

\* The attributes of NewEventMonitor; the least there are; parts of every
\* length; and attributes that cannot be written.
MCStreams == 500 :> Attr({"TID", "TIME", "CPU", "RAW"}, {})
          @@ 501 :> [Attr({}, {}) EXCEPT !.flags = {"Task", "Comm"}]
          @@ 502 :> Attr({"CALLCHAIN", "READ", "BRANCH_STACK"}, {"GROUP", "ID"})
          @@ 503 :> [Attr({}, {}) EXCEPT !.sampleFreq = 1]

\* The ring of the first CPU overflows, the other one wraps.  The events of the
\* second have ids of one length: of what follows a FORK or a COMM, the word that
\* is taken for its identifier may be one.
MCSources == {<<"cpu0", 500, "SAMPLE">>, <<"cpu0", 501, "SAMPLE">>,
              <<"cpu1", 501, "FORK">>, <<"cpu1", 501, "COMM">>,
              <<"cpu1", 502, "SAMPLE">>, <<"cpu1", 501, "OTHER">>}
=============================================================================
