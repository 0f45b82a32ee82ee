--------------------------- MODULE MCCameraCapture ---------------------------
(***************************************************************************)
(* Small instances of CameraCapture: two device channels and two sizes, up *)
(* to three starts and samples.                                            *)
(***************************************************************************)
EXTENDS CameraCapture

Environment(opens, starts, samples, pauses, may) ==
  [opens |-> opens, starts |-> starts, samples |-> samples, pauses |-> pauses, may |-> may]

CameraEnvironments ==
  { Environment(1, 3, 2, 0, {"restarts", "fails"}),
    Environment(1, 3, 3, 1, {"restarts", "leaves"}),
    Environment(2, 2, 2, 0, {"adopts", "leaves"}),
    Environment(3, 2, 2, 0, {"restarts", "closes"}) }

\* The user pauses the camera.
PauseOnly == {Environment(1, 1, 2, 1, {})}

\* The user leaves while asked for the webcam.
LeaveOnly == {Environment(1, 1, 0, 0, {"leaves", "leavesAsked"})}

\* The host stops and starts while the user is asked.
RepromptOnly == {Environment(1, 2, 0, 0, {"restarts", "reprompts"})}

=============================================================================
