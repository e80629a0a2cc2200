-------------------------- MODULE EventSetNativesMC --------------------------
(* EventSetNatives on the counters and events of two processors.           *)
EXTENDS EventSetNatives, TLC

CONSTANTS
  n1, n2, n3, n4, n5,   \* native events
  p1, p2, p3            \* presets

AllNatives == {n1, n2, n3, n4, n5}

\* Three counters.  n3, n4 and n5 must share counters 0 and 1, so that the
\* allocator also refuses; p1 with p2 or p3 is more than the array holds.
ThreeCounterTerms ==
  n1 :> <<n1>> @@ n2 :> <<n2>> @@ n3 :> <<n3>>
    @@ p1 :> <<n1, n2>> @@ p2 :> <<n3, n1, n4>> @@ p3 :> <<n4, n5>>
ThreeCounterSelector ==
  n1 :> 0..2 @@ n2 :> 0..2 @@ n3 :> {0} @@ n4 :> {0, 1} @@ n5 :> {1}

\* A Pentium III: n1 and n2 on either counter, n3 (FLOPS) on the first only,
\* n4 and n5 (MUL, DIV) on the second only; p1 shares FLOPS, as PAPI_FP_INS does.
P6Terms ==
  n1 :> <<n1>> @@ n2 :> <<n2>> @@ n4 :> <<n4>> @@ n5 :> <<n5>>
    @@ p1 :> <<n3>> @@ p2 :> <<n1, n3>> @@ p3 :> <<n4, n5>>
P6Selector ==
  n1 :> {0, 1} @@ n2 :> {0, 1} @@ n3 :> {0} @@ n4 :> {1} @@ n5 :> {1}
=============================================================================
