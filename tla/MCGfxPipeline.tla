---------------------------- MODULE MCGfxPipeline ----------------------------
(***************************************************************************)
(* Small instances of GfxPipeline: two surfaces, one cache slot, and the   *)
(* mixes of PDUs a host uses together.                                     *)
(***************************************************************************)
EXTENDS GfxPipeline

Environment(n, kinds, w, may) ==
  [pdus |-> n, kinds |-> kinds, worker |-> w, may |-> may]

Mixed  == {"progressive", "fill", "copy", "create", "end"}
Cached == {"progressive", "save", "load", "create"}
Output == {"progressive", "raw", "create", "recreate", "delete", "map", "reset"}
Movie  == {"avc-key", "avc-delta", "end"}

GfxEnvironments ==
  { Environment(4, Mixed, "up", {"decodeFails"}),
    Environment(4, Mixed, "off", {"decodeFails"}),
    Environment(5, Cached, "up", {}),
    Environment(4, Output, "up", {"closes"}),
    Environment(5, Movie, "up", {}),
    Environment(3, Movie \cup {"raw"}, "off", {"videoFails"}),
    Environment(3, Movie, "up", {"videoThrows", "noVideo", "deltaFirst", "twoVideos"}),
    Environment(3, Movie \cup {"progressive"}, "up", {"workerLost"}),
    Environment(4, Movie \cup {"create", "delete"}, "up", {"videoFails"}) }

\* Two frames, each with a picture that may come after the 300 ms.
LateOnly == {Environment(4, Movie, "up", {})}

\* The host draws on while a cache operation waits.
OverrunOnly == {Environment(5, Cached, "up", {"overrun"})}

\* The worker's script does not load.
LostOnly == {Environment(4, {"progressive", "raw"}, "up", {"workerLost"})}

\* A surface id is used again while work for it waits.
ReuseOnly == {Environment(4, {"progressive", "raw", "create", "recreate"}, "up", {"reuse"})}

\* Two surfaces show H.264 at once.
TwoOnly == {Environment(4, Movie, "up", {"twoVideos"})}

=============================================================================
