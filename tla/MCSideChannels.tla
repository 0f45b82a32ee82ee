---------------------------- MODULE MCSideChannels ----------------------------
(* Instances of SideChannels for TLC. *)
EXTENDS SideChannels

CONSTANTS a, b, c, f1, f2, z

MCTexts   == {a, b, c}
MCFormats == {f1, f2, z}

MCCompressed == {z}
MCPreferred  == <<f2, f1>>
MCOffers     == {<<z, f1, f2>>, <<z>>}

Env(texts, pastes, opens, ends, ticks, may) ==
  [texts |-> texts, pastes |-> pastes, opens |-> opens, ends |-> ends, ticks |-> ticks,
   keys |-> {}, strokes |-> 0, pointers |-> 0, may |-> may]

Typing(keys, strokes, ends, may) ==
  [Env({}, 0, 0, ends, 0, may) EXCEPT !.keys = keys, !.strokes = strokes]

Pointing(strokes, pointers, ends, may) ==
  [Env({}, 0, 0, ends, 0, may \cup {"mouse"}) EXCEPT !.strokes = strokes, !.pointers = pointers]

\* What the run explores.
Manual  == Env({a, b, c}, 3, 0, 0, 0, {"clipboard", "again"})
Auto    == Env({a, b, c}, 2, 0, 0, 0, {"clipboard", "auto", "again"})
Breaks  == Env({a, b}, 2, 0, 2, 0, {"clipboard", "auto", "mixes", "crosses", "drops", "redirects"})
Voice   == Env({}, 0, 3, 2, 0, {"microphone", "reopens", "drops", "leaves"})
Both    == Env({a, b}, 1, 1, 1, 0, {"clipboard", "microphone", "drops", "leaves"})
Returns == Env({}, 0, 3, 0, 1, {"sound", "dynamic", "returns"})
Stream  == Env({}, 0, 1, 0, 4, {"sound"})
Moves   == Env({}, 0, 3, 0, 2, {"sound", "dynamic", "reoffers"})
Redials == Env({}, 0, 3, 2, 2, {"sound", "drops", "redirects", "leaves"})
Muffled == Env({}, 0, 1, 0, 3, {"sound", "suspends"})
Locks   == Typing({"CapsLock", "ShiftLeft", "KeyC"}, 4, 1, {"blurs"})
Inputs  == Typing({"CapsLock", "KeyC"}, 3, 1, {"overlay"})
AltGr   == Typing({"AltRight", "ShiftLeft", "KeyC"}, 3, 1, {"windows", "altGr", "blurs"})
Human   == Typing({"ControlLeft", "AltRight", "KeyC"}, 4, 1, {"windows", "blurs"})
Mac     == Typing({"MetaLeft", "ShiftLeft", "KeyC"}, 4, 1, {"mac", "blurs"})
Command == Typing({"MetaLeft", "KeyC", "Soft"}, 4, 1, {"mac", "cmdAsCtrl", "overlay"})
Again   == Typing({"CapsLock", "ShiftLeft", "KeyC"}, 3, 2, {"drops", "redirects", "reactivates"})
Clicks  == Pointing(5, 0, 0, {})
Resized == Pointing(4, 0, 2, {"resizes", "drops"})
Cursors == Pointing(0, 3, 1, {"drops"})
Pieces  == Pointing(0, 2, 1, {"splits", "drops"})
Leaving == Pointing(0, 1, 1, {"leaves"})
Handed  == Pointing(3, 1, 1, {"redirects", "reactivates"})

MCEnvironments ==
  {Manual, Auto, Breaks, Voice, Both, Returns, Stream, Moves, Redials, Muffled,
   Locks, Inputs, AltGr, Human, Mac, Command, Again,
   Clicks, Resized, Cursors, Pieces, Leaving, Handed}

\* Environments in which a property fails (README, known departures).
RepeatOnly  == {Env({a, b}, 3, 0, 0, 0, {"clipboard", "repeats"})}
MixOnly     == {Env({a, b}, 0, 0, 0, 0, {"clipboard", "mixes"})}
CrossOnly   == {Env({a, b}, 1, 0, 0, 0, {"clipboard", "crosses"})}
RedirectMic == {Env({}, 0, 2, 1, 0, {"microphone", "redirects"})}
LeaveMic    == {Env({}, 0, 1, 1, 0, {"microphone", "leaves", "endsAsked"})}
ReturnOnly  == {Returns}
ReturnTwice == {Env({}, 0, 5, 0, 1, {"sound", "dynamic", "returns"})}
SuspendOnly == {Muffled}
RedirectHeld  == {Typing({"KeyC"}, 1, 1, {"redirects", "holds"})}
OverlayHeld   == {Typing({"KeyC"}, 1, 1, {"overlay", "holds"})}
BlurHeld      == {Typing({"ShiftLeft", "KeyC"}, 2, 1, {"blurs", "holds"})}
DeleteHeld    == {Typing({"ControlLeft", "KeyC"}, 3, 0, {"holds"})}
ReactivateKey == {Typing({"KeyC"}, 1, 1, {"reactivates", "typesOver"})}
BlurReactivate == {Typing({"KeyC"}, 1, 2, {"blurs", "reactivates"})}
TwoCtrls      == {Typing({"ControlLeft", "MetaLeft", "KeyC"}, 3, 0, {"mac", "cmdAsCtrl"})}
RollOver      == {Typing({"CapsLock", "KeyC"}, 3, 0, {"rolls"})}
LockThere     == {Typing({"CapsLock", "KeyC"}, 3, 2, {"overlay", "lockThere"})}
NewLock       == {Typing({"CapsLock", "KeyC"}, 2, 0, {"newLock"})}
CtrlAlt       == {Typing({"ControlLeft", "AltRight", "KeyC"}, 4, 0, {"windows", "ctrlAlt"})}
SlowPage      == {Typing({"AltRight", "KeyC"}, 2, 0, {"windows", "altGr", "slow"})}
MenuOnPress   == {Pointing(1, 0, 0, {"menuOnPress"})}
DragOut       == {Pointing(4, 0, 0, {"dragsOut"})}
ButtonHeld    == {Pointing(2, 0, 1, {"redirects", "holds"})}
ReactivateBtn == {Pointing(3, 0, 1, {"reactivates", "typesOver"})}
ResizeJoining == {Pointing(3, 0, 2, {"resizes", "resizesJoining", "drops"})}
HideOnly      == {Pointing(0, 2, 0, {"hides"})}
RecallClear   == {Pointing(0, 3, 0, {"recalls"})}
BrokenOnly    == {Pointing(0, 2, 0, {"breaks"})}

=============================================================================
