-------------------------- MODULE MCVdiProvisioning --------------------------
(***************************************************************************)
(* Instances of VdiProvisioning for TLC.  c1 and c2 are two requests of    *)
(* one user (a double click, or a reconnect), c3 is another user's.        *)
(***************************************************************************)
EXTENDS VdiProvisioning, TLC

CONSTANTS o1, o2, c1, c2, c3

TwoUsers == (c1 :> o1) @@ (c2 :> o1) @@ (c3 :> o2)
OneUser  == (c1 :> o1) @@ (c2 :> o1)

\* The two requests of one user are interchangeable.
DoubleClick == Permutations({c1, c2})

\* What goes wrong in the safety run: each set on its own.
Mixed ==
  { {"refuse", "cloneFails", "foreign"}, {"cloneFails", "noStamp", "crash"},
    {"slow", "hang", "noStamp"}, {"outage"}, {"longPass"}, {"delete"}, {"deprovision"} }

\* Bound: without the backend, and beside an administrator, any two of the requests.
TwoAtLarge ==
  env \in {{"outage"}, {"deprovision"}} => Cardinality({c \in Connects : pc[c] # "idle"}) <= 2

\* What goes wrong in the liveness run.
Faults ==
  { {"crash", "slow", "cloneFails", "foreign"}, {"crash", "outage"},
    {"noStamp", "hang", "deprovision"}, {"delete"} }

Faultless == {{}}
Slow    == {{"slow"}}
Outages == {{"outage"}}
=============================================================================
