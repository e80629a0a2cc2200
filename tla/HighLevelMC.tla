---------------------------- MODULE HighLevelMC ----------------------------
(* Five events on three counters; FP_INS and FP_OPS are never counted at    *)
(* once.                                                                    *)
EXTENDS HighLevel

CONSTANTS FP_INS, FP_OPS, TOT_INS, BR_INS

MCEvents == {FP_INS, FP_OPS, TOT_INS, BR_INS, TOT_CYC}
\* One with all events, and two that lack one.
MCPlatforms == {MCEvents, MCEvents \ {TOT_CYC}, MCEvents \ {FP_OPS}}
MCTogether == {S \in SUBSET MCEvents : ~({FP_INS, FP_OPS} \subseteq S)}
MCRates == {"HL_FLIPS", "HL_FLOPS", "HL_IPC"}
MCEventOf == [l \in MCRates |-> CASE l = "HL_FLIPS" -> FP_INS
                                  [] l = "HL_FLOPS" -> FP_OPS
                                  [] l = "HL_IPC" -> TOT_INS]
MCLists == {<<>>} \cup {<<e>> : e \in MCEvents}
                  \cup {<<e, f>> : e \in MCEvents, f \in MCEvents}
=============================================================================
