---------------------------- MODULE MCRelaySession ----------------------------
(* Instances of RelaySession for TLC: chunks of one and of four units, of which a *)
(* queue takes two or three and a message three.                                  *)
EXTENDS RelaySession

Env(reads, frames, may) == [reads |-> reads, frames |-> frames, may |-> may]

MCSizes == {1, 4}

\* What the run explores.
Streams   == Env(5, 1, {"ends", "pings"})
Deserted  == Env(3, 1, {"leaves", "input", "pings"})
Brokered  == Env(2, 2, {"redirects", "ends", "token", "pings", "input"})
Guarded   == Env(2, 2, {"policy", "token", "ends", "input"})
Broken    == Env(2, 2, {"writeFails", "ends", "input"})
Forceful  == Env(3, 1, {"forced", "token", "ends", "input"})

MCEnvironments == {Streams, Deserted, Brokered, Guarded, Broken, Forceful}

\* Environments in which a property fails (README, known departures).
PingsLast  == {Env(2, 1, {"redirects", "pings", "pingsLast"})}
WriteFails == {Env(3, 1, {"redirects", "input", "writeFails"})}
SlowAtEnd  == {Env(1, 1, {"policy", "slowAtEnd"})}
ForcedLate == {Env(1, 1, {"redirects", "forced", "input"})}
PolicyLate == {Env(1, 1, {"redirects", "policy"})}
EndsOnly   == {Env(1, 0, {"ends"})}

=============================================================================
