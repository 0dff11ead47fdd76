------------------------------ MODULE MCAdaptive ------------------------------
(* Instances of AdaptiveMonitor for TLC. *)
EXTENDS AdaptiveMonitor

CONSTANTS p1, c1, f1, f2

OnePipeline == {p1}
OneCaller == {c1}
OneForcer == {f1}
TwoForcers == {f1, f2}

\* deopt_ratio 0.9 and deviation_ratio 1.5
Keep == <<9, 10>>
Drift == <<3, 2>>
=============================================================================
