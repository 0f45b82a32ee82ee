------------------------------- MODULE Keyboard -------------------------------
(***************************************************************************)
(* The keyboard of a session: input in wwwroot/lib/rdpweb/client.js and    *)
(* input/keyboard.js.  The browser reports key events in order; the client *)
(* keeps what it believes is down and which locks it has told the host.    *)
(* The host's keyboard is external: a lock toggles when its key goes down, *)
(* and a synchronisation sets the locks and raises all keys.               *)
(*                                                                         *)
(* Keys stand for their kinds; "Soft" has no position on the keyboard.     *)
(* Caps Lock stands for the locks, as a mask of 0 or 1; the PAUSE key and  *)
(* the texts of keys without position leave no state and are left out.     *)
(***************************************************************************)
EXTENDS RedirectedSession

VARIABLES
  user,    \* what the user does hold, the lock, and where the focus is
  events,  \* key events the page has not handled yet
  kbd,     \* connected, _heldKeys, _syncedToggles, _ctrlLeftDownAt, _altGrSynthCtrl
  remote   \* share: the protocol is active; the host's keys and lock; its last character

kbdVars == <<user, events, kbd, remote>>

Modifiers == {"ControlLeft", "ShiftLeft", "AltRight", "MetaLeft", "CapsLock"}   \* KeyIsModifier
Shifts    == Modifiers \ {"CapsLock"}
Unknown   == -1

Hit(mods, lock) == [mods |-> mods, lock |-> lock]

KeyTypeOK ==
  /\ user \in [held : SUBSET Keys, lock : 0..1, focused : BOOLEAN, typing : BOOLEAN]
  /\ kbd \in [connected : BOOLEAN, held : SUBSET Keys, synced : {Unknown, 0, 1},
              fresh : BOOLEAN, synth : BOOLEAN]
  /\ remote \in [share : BOOLEAN, down : SUBSET Keys, lock : 0..1,
                 typed : [mods : SUBSET Shifts, lock : 0..1],
                 meant : [mods : SUBSET Shifts, lock : 0..1]]

\* A session that has just become active, with the lock as the user left it.
KeyInit ==
  /\ user \in [held : {{}}, lock : IF "CapsLock" \in env.keys THEN 0..1 ELSE {0},
               focused : {TRUE}, typing : {FALSE}]
  /\ events = <<>>
  /\ kbd = [connected |-> TRUE, held |-> {}, synced |-> 0, fresh |-> FALSE, synth |-> FALSE]
  /\ remote = [share |-> TRUE, down |-> {}, lock |-> 0, typed |-> Hit({}, 0), meant |-> Hit({}, 0)]

-----------------------------------------------------------------------------
(* What reaches the host: sendInputEvent sends nothing unless the protocol *)
(* is active.                                                              *)

Pressed(r, keys) ==
  IF r.share
  THEN [r EXCEPT !.down = @ \cup keys,
                 !.lock = IF "CapsLock" \in keys \ r.down THEN 1 - @ ELSE @]
  ELSE r

Raised(r, keys) == IF r.share THEN [r EXCEPT !.down = @ \ keys] ELSE r

Synced(r, mask) == IF r.share THEN [r EXCEPT !.down = {}, !.lock = mask] ELSE r

-----------------------------------------------------------------------------
(* The client.                                                             *)

\* _mapCode.
MapCode(key) == IF key = "MetaLeft" /\ May("cmdAsCtrl") THEN "ControlLeft" ELSE key

\* Keys with a position in KeyMap.
Mapped(key) == key # "Soft"

\* Mutant: what the synchronisation raised stays up.
SyncTogglesVariant(k, r, mask) ==
  IF mask = k.synced THEN [kbd |-> k, remote |-> r]
  ELSE [kbd |-> [k EXCEPT !.synced = mask], remote |-> Synced(r, mask)]

\* _syncToggles: what the client believes is down is pressed again.
SyncToggles(k, r, mask) ==
  IF mask = k.synced THEN [kbd |-> k, remote |-> r]
  ELSE [kbd |-> [k EXCEPT !.synced = mask], remote |-> Pressed(Synced(r, mask), k.held)]

\* Mutant: macOS hides no key.
ReleaseHeldVariant(k, r, modifiersToo) ==
  IF modifiersToo THEN [kbd |-> [k EXCEPT !.held = {}], remote |-> Raised(r, k.held)]
  ELSE [kbd |-> k, remote |-> r]

\* _releaseHeld.
ReleaseHeld(k, r, modifiersToo) ==
  LET keys == IF modifiersToo THEN k.held ELSE k.held \ Modifiers
  IN [kbd |-> [k EXCEPT !.held = @ \ keys], remote |-> Raised(r, keys)]

\* Mutant: also the Ctrl of a user.
SyntheticVariant(k) == May("windows") /\ "ControlLeft" \in k.held

\* A left Ctrl not older than 50 ms, on Windows.
Synthetic(k) == May("windows") /\ "ControlLeft" \in k.held /\ k.fresh

\* _dropSyntheticAltGrCtrl.
DropSyntheticAltGrCtrl(k, r) ==
  IF Synthetic(k)
  THEN [kbd |-> [k EXCEPT !.held = @ \ {"ControlLeft"}, !.synth = TRUE],
        remote |-> Raised(r, {"ControlLeft"})]
  ELSE [kbd |-> k, remote |-> r]

\* What the host makes of a character, and what the user means by it.
Types(r, e) ==
  IF r.share /\ e.key = "KeyC"
  THEN [r EXCEPT !.typed = Hit(r.down \cap Shifts, r.lock), !.meant = Hit(e.mods, e.now)]
  ELSE r

\* The rest of handleKeyDown: a key without position is sent as text.
KeyPressed(k, r, e) ==
  LET code == MapCode(e.key)
      s    == IF code = "AltRight" THEN DropSyntheticAltGrCtrl(k, r) ELSE [kbd |-> k, remote |-> r]
  IN IF Mapped(code)
     THEN [kbd    |-> [s.kbd EXCEPT !.held = @ \cup {code},
                                    !.fresh = @ \/ (code = "ControlLeft" /\ May("windows"))],
           remote |-> Types(Pressed(s.remote, {code}), e)]
     ELSE s

\* handleKeyDown.
OnKeyDown(e) ==
  LET s == SyncToggles(kbd, remote, e.lock)
      t == KeyPressed(s.kbd, s.remote, e)
  IN kbd' = t.kbd /\ remote' = t.remote

\* handleKeyUp: the release of a synthetic Ctrl is swallowed.
OnKeyUp(e) ==
  LET code == MapCode(e.key)
      k    == [kbd EXCEPT !.held = @ \ {code}, !.synth = @ /\ code # "AltRight"]
      r    == IF Mapped(code) THEN Raised(remote, {code}) ELSE remote
      s    == IF May("mac") /\ e.key = "MetaLeft" THEN ReleaseHeld(k, r, FALSE)
              ELSE [kbd |-> k, remote |-> r]
  IN IF code = "ControlLeft" /\ kbd.synth /\ code \notin kbd.held
     THEN kbd' = [kbd EXCEPT !.synth = FALSE] /\ UNCHANGED remote
     ELSE kbd' = s.kbd /\ remote' = s.remote

\* handleBlur.
OnBlur ==
  LET s == ReleaseHeld(kbd, remote, TRUE)
  IN /\ kbd' = [IF kbd.connected THEN s.kbd ELSE kbd EXCEPT !.synth = FALSE]
     /\ remote' = IF kbd.connected THEN s.remote ELSE remote

\* handleFocus.
OnFocus == kbd' = [kbd EXCEPT !.synced = Unknown] /\ UNCHANGED remote

\* Keys are not taken before a session is active, nor from an input of the page.
Takes == kbd.connected /\ ~user.typing

PageHandles ==
  /\ events # <<>> /\ events' = Tail(events)
  /\ LET e == Head(events) IN
       \/ e.type = "down" /\ Takes /\ OnKeyDown(e)
       \/ e.type = "up" /\ Takes /\ OnKeyUp(e)
       \/ e.type \in {"down", "up"} /\ ~Takes /\ UNCHANGED <<kbd, remote>>
       \/ e.type = "blur" /\ OnBlur
       \/ e.type = "focus" /\ OnFocus
  /\ UNCHANGED <<env, link, user>>

\* What the user wants a character to be taken with.
Meant(held) == {MapCode(key) : key \in held} \cap Shifts

\* sendCtrlAltDel, by sendKeyCombo.
SendCtrlAltDel ==
  /\ kbd.connected /\ env.strokes > 0
  /\ May("holds") \/ (events = <<>> /\ "ControlLeft" \notin Meant(user.held))
  /\ env' = [env EXCEPT !.strokes = @ - 1]
  /\ remote' = Raised(Pressed(remote, {"ControlLeft"}), {"ControlLeft"})
  /\ UNCHANGED <<link, user, events, kbd>>

\* Elsewhere it does not matter when a session becomes active.
TakesInput == env.keys # {} \/ May("mouse")

\* Mutant: the session goes on with what the one before it was told.
OnActiveVariant ==
  /\ Up /\ ~remote.share /\ TakesInput
  /\ remote' = [remote EXCEPT !.share = TRUE]
  /\ kbd' = [kbd EXCEPT !.connected = TRUE]
  /\ UNCHANGED <<env, link, user, events>>

\* _onActive: a fresh session starts with the locks off and what is held; one that is
\* activated again goes on as it was.
OnActive ==
  /\ Up /\ ~remote.share /\ TakesInput
  /\ LET r == [remote EXCEPT !.share = TRUE]
         s == SyncToggles([kbd EXCEPT !.connected = TRUE, !.synced = Unknown], r, 0)
     IN IF kbd.connected THEN kbd' = kbd /\ remote' = r
        ELSE kbd' = s.kbd /\ remote' = s.remote
  /\ UNCHANGED <<env, link, user, events>>

\* deinitialize, and a redirection, which keeps what is held.
KeyboardDown(tornDown) ==
  /\ kbd' = [kbd EXCEPT !.connected = FALSE,
                        !.held = IF tornDown THEN {} ELSE @,
                        !.synced = IF tornDown THEN Unknown ELSE @]
  /\ remote' = [remote EXCEPT !.share = FALSE]
  /\ UNCHANGED <<user, events>>

-----------------------------------------------------------------------------
(* The user and the browser, external.                                     *)

Event(type, key, held, reported, lock) ==
  [type |-> type, key |-> key, mods |-> Meant(held), lock |-> reported, now |-> lock]

\* Windows reports AltGr as a left Ctrl and a right Alt.
Reported(type, key, held, reported, lock) ==
  (IF key = "AltRight" /\ May("altGr")
   THEN <<Event(type, "ControlLeft", held, reported, lock)>> ELSE <<>>)
  \o <<Event(type, key, held, reported, lock)>>

\* The events that go to the page: none to a window without focus, and macOS reports
\* the release of no other key while Command is down.
Hidden(type, key) ==
  type = "up" /\ May("mac") /\ "MetaLeft" \in user.held /\ key \notin Modifiers

Happens(type, key, held, reported, lock) ==
  events' = IF user.focused /\ ~Hidden(type, key)
            THEN events \o Reported(type, key, held, reported, lock) ELSE events

\* Ctrl and the right Alt.
CtrlAndAlt(held) == {"ControlLeft", "AltRight"} \subseteq held

\* Without a layout that has AltGr, Ctrl is held for a while before Alt.
Distinct(key) ==
  \/ May("ctrlAlt")
  \/ CtrlAndAlt(user.held \cup {key}) => ~May("altGr") /\ ~kbd.fresh /\ events = <<>>

\* Few events wait at a time.
Stroke ==
  /\ env.strokes > 0 /\ env' = [env EXCEPT !.strokes = @ - 1]
  /\ Len(events) < 2
  /\ "CapsLock" \in user.held => May("rolls")

\* The lock may also be toggled between two sessions.
Press(key) ==
  /\ Stroke /\ key \in env.keys \ user.held /\ Distinct(key)
  /\ remote.share \/ (~Up /\ key = "CapsLock") \/ May("typesOver")
  /\ LET held == user.held \cup {key}
         lock == IF key = "CapsLock" THEN 1 - user.lock ELSE user.lock
     IN /\ user' = [user EXCEPT !.held = held, !.lock = lock]
        /\ Happens("down", key, held, IF May("newLock") THEN lock ELSE user.lock, lock)
  /\ UNCHANGED <<link, kbd, remote>>

\* A key that is held is reported again and again.
Repeat(key) ==
  /\ Stroke /\ key \in user.held /\ Distinct(key) /\ remote.share
  /\ Happens("down", key, user.held, user.lock, user.lock)
  /\ UNCHANGED <<link, user, kbd, remote>>

Release(key) ==
  /\ key \in user.held
  /\ remote.share \/ ~Up \/ May("typesOver")
  /\ user' = [user EXCEPT !.held = @ \ {key}]
  /\ Happens("up", key, user.held \ {key}, user.lock, user.lock)
  /\ UNCHANGED <<env, link, kbd, remote>>

\* The 50 ms after a left Ctrl pass; the two events of AltGr come together.
Elapse ==
  /\ kbd.fresh
  /\ events = <<>> \/ May("slow")
  /\ kbd' = [kbd EXCEPT !.fresh = FALSE]
  /\ UNCHANGED <<env, link, user, events, remote>>

Idle == user.held = {} /\ events = <<>>

\* Keys that are held as the window loses the focus are released elsewhere.
FocusMoves ==
  /\ May("blurs")
  /\ IF user.focused THEN env.ends > 0 ELSE May("holds") \/ Idle
  /\ env' = IF user.focused THEN [env EXCEPT !.ends = @ - 1] ELSE env
  /\ user' = [user EXCEPT !.focused = ~@]
  /\ events' = Append(events, Event(IF user.focused THEN "blur" ELSE "focus", None, {}, 0, 0))
  /\ UNCHANGED <<link, kbd, remote>>

\* Caps Lock may be toggled there; something was typed since it was before.
OverlayMoves ==
  /\ May("overlay") /\ user.focused
  /\ May("holds") \/ Idle
  /\ May("lockThere") \/ kbd.synced \in {Unknown, user.lock}
  /\ user.typing \/ env.ends > 0
  /\ env' = IF user.typing THEN env ELSE [env EXCEPT !.ends = @ - 1]
  /\ user' = [user EXCEPT !.typing = ~@]
  /\ UNCHANGED <<link, events, kbd, remote>>

\* _beginReactivation.
BeginReactivation ==
  /\ Up /\ remote.share /\ May("reactivates") /\ env.ends > 0
  /\ events = <<>> \/ May("typesOver")
  /\ env' = [env EXCEPT !.ends = @ - 1]
  /\ remote' = [remote EXCEPT !.share = FALSE]
  /\ UNCHANGED <<link, user, events, kbd>>

KeyNext ==
  \/ PageHandles \/ SendCtrlAltDel \/ Elapse
  \/ FocusMoves \/ OverlayMoves
  \/ \E key \in env.keys : Press(key) \/ Repeat(key) \/ Release(key)

-----------------------------------------------------------------------------
(* Properties.                                                             *)

Settled == events = <<>> /\ remote.share /\ kbd.connected

\* What the host has down the user holds, once the events are handled: nothing is
\* stuck after a focus loss, a synchronisation, a reconnect or a key macOS hid; such a
\* key goes up with Command at the latest.
NothingStuck ==
  Settled =>
    \/ remote.down \subseteq {MapCode(key) : key \in user.held}
    \/ May("mac") /\ "MetaLeft" \in user.held

\* A character is taken with the modifiers the user holds, AltGr without the Ctrl it
\* is reported with, and with the lock as the user has it, wherever it was toggled.
TypedAsMeant == remote.typed = remote.meant

\* The host's keyboard is the user's.
KeysAgree == NothingStuck /\ TypedAsMeant

=============================================================================
