--------------------------- MODULE MCRdpConnection ---------------------------
(***************************************************************************)
(* Small instances of DesktopScale: two windows, two channels, up to five  *)
(* shares.                                                                 *)
(***************************************************************************)
EXTENDS DesktopScale

MCWindows == {1000, 1600}

Environment(shares, draws, resizes, may) ==
  [shares |-> shares, draws |-> draws, resizes |-> resizes, may |-> may,
   size |-> [res |-> 1000, scale |-> IF {"gfx", "scales"} \subseteq may THEN 200 ELSE 100]]

RdpEnvironments ==
  { Environment(2, 2, 0, {"messageChannel", "probes", "earlyDeactivate", "ends"}),
    Environment(3, 2, 2, {"skipsJoin", "reactivates", "ends"}),
    Environment(3, 2, 1, {"skipsJoin", "redemands", "dies", "types"}),
    Environment(2, 2, 2, {"skipsJoin", "earlyDeactivate", "displayCloses"}),
    Environment(5, 0, 1, {"skipsJoin", "scales", "reactivates", "ends"}),
    Environment(2, 1, 1, {"skipsJoin", "scales", "ignoresScale"}),
    Environment(5, 0, 1, {"skipsJoin", "scales", "ignoresScale", "reactivates"}),
    Environment(3, 0, 2, {"skipsJoin", "scales", "gfx", "reactivates"}) }

\* The host sends no licence PDU.
NoLicenceOnly == {Environment(1, 0, 0, {"skipsJoin", "noLicence"})}

\* The host draws while its first share is being finalized.
FirstOutput == {Environment(1, 1, 0, {"skipsJoin"})}

\* The host deactivates a share that is being finalized.
MidDeactivateOnly == {Environment(2, 0, 0, {"skipsJoin", "midDeactivate"})}

\* A reactivation for a step of the scale takes longer than the step.
SlowSteps == {Environment(4, 0, 0, {"skipsJoin", "scales", "reactivates", "slowSteps"})}

\* The user resizes while the session starts.
EarlyResize == {Environment(1, 0, 1, {"skipsJoin", "scales", "early"})}

\* The user resizes while the session is activated again.
BusyResize == {Environment(2, 0, 2, {"skipsJoin", "reactivates", "early"})}

=============================================================================
