---------------------------- MODULE MCConsoleSession ----------------------------
(***************************************************************************)
(* Small instances of DesktopPower and, in it, of ConsoleSession: a user   *)
(* with two desktops, a second user with one, and three legs.              *)
(***************************************************************************)
EXTENDS DesktopPower

CONSTANTS A1, A2, B1

MCUserOf == [k \in {A1, A2, B1} |-> IF k = B1 THEN "b" ELSE "a"]

\* Every hazard alone and in the combinations in which one undoes what another
\* relies on.
SessionEnvironments ==
  {{}, {"crash"}, {"redirect"}, {"redirect", "tabs"}, {"redirect", "leave"},
   {"redirect", "gone", "disk"}, {"redirect", "purge"},
   {"redirect", "slow", "disk"}, {"redirect", "crash"}, {"tabs", "race"},
   {"tabs", "purge"}, {"tabs", "disk"}, {"tabs", "race", "leave", "disk"},
   {"tabs", "race", "gone", "crash"}}

\* The same of a desktop whose power is managed.
PowerEnvironments ==
  {{"reaped"}, {"reaped", "stops", "fails"}, {"flaky"}, {"stale"}, {"late"}, {"direct", "guest", "fails"}}

Setting(e, p) == [sessions |-> e, power |-> p]
Desktop(p)    == Setting({}, p \cup {"managed"})

\* The sessions of a desktop that is always up, and the power of one with plain sessions.
MCSettings ==
  {Setting(e, {}) : e \in SessionEnvironments} \cup {Desktop(p) : p \in PowerEnvironments}
    \cup {Setting({"crash"}, {"managed"})}

\* Settings in which a statement fails (README, known departures).
RaceOnly     == {Setting({"tabs", "race"}, {})}
LeaveOnly    == {Setting({"redirect", "leave"}, {})}
ReapOnly     == {Desktop({"reaped"})}
OverlapOnly  == {Desktop({"reaped", "overlap"})}
LateOnly     == {Desktop({"late"})}
RestartOnly  == {Setting({"crash"}, {"managed"})}

=============================================================================
