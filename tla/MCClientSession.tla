--------------------------- MODULE MCClientSession ---------------------------
(***************************************************************************)
(* Small instances of ClientSession: up to six sockets, three clicks and   *)
(* three faults.                                                           *)
(***************************************************************************)
EXTENDS ClientSession

Environment(clicks, faults, may) == [clicks |-> clicks, faults |-> faults, may |-> may]

SessionEnvironments == { Environment(3, 3, {"redirects", "settings", "slow"}) }

\* The user connects again while the socket before is closing.
HastyOnly == {Environment(2, 2, {"hasty"})}

\* The user quits while the next leg is due.
BetweenOnly == {Environment(2, 1, {"redirects", "quitsBetween"})}

\* The user presses Disconnect while the page reconnects.
RetryingOnly == {Environment(2, 1, {"quitsRetrying"})}

=============================================================================
