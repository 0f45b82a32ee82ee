-------------------------- MODULE RedirectedSession --------------------------
(***************************************************************************)
(* What the redirections of a browser session share: the environment, and  *)
(* how the session is (wwwroot/lib/rdpweb/client.js, connect, _dropSocket  *)
(* and deinitialize).                                                      *)
(***************************************************************************)
EXTENDS Integers, Sequences, FiniteSets

CONSTANTS
  Texts,         \* what can be copied
  Formats,       \* the audio formats of a host
  Environments   \* each [texts, pastes, opens, ends, ticks, keys, strokes, pointers, may]

None    == "none"
Garbled == "garbled"

Hazards ==
  { "clipboard",  \* the clipboard is redirected
    "auto",       \* the page may read the local clipboard
    "microphone", \* the microphone is redirected
    "again",      \* the host announces a copy twice, or copies files
    "mixes",      \* it offers old and new kinds of text by turns
    "repeats",    \* a text is copied again
    "crosses",    \* a text is sent while one is awaited
    "sound",      \* sound is redirected
    "dynamic",    \* and moves to a dynamic channel
    "returns",    \* and back
    "reoffers",   \* the host offers formats again
    "suspends",   \* the browser holds the sound until the user does something
    "reopens",    \* the host closes and opens the microphone
    "redirects",  \* the host hands the session over
    "drops",      \* the session drops and is connected again
    "leaves",     \* the user disconnects
    "endsAsked",  \* and also while asked for the microphone
    "windows",    \* the browser runs on Windows
    "altGr",      \* with a layout whose right Alt is AltGr
    "mac",        \* it runs on macOS
    "cmdAsCtrl",  \* and Command is to be the host's Ctrl
    "blurs",      \* the window loses the focus
    "overlay",    \* the focus goes to an input of the page
    "reactivates",\* the host deactivates and activates the session
    "holds",      \* all these also while keys are held
    "typesOver",  \* and while keys are pressed and released
    "rolls",      \* the user goes on typing while Caps Lock is down
    "lockThere",  \* goes to an input just after Caps Lock, and uses it there
    "newLock",    \* the key event of Caps Lock reports the state it leads to
    "ctrlAlt",    \* Ctrl and the right Alt are held together
    "slow",       \* the page may take 50 ms from one event to the next
    "mouse",      \* the user uses the mouse
    "resizes",    \* the window changes its size
    "resizesJoining", \* and while a session is connected again
    "menuOnPress",\* the right button asks for the context menu when it goes down
    "dragsOut",   \* the mouse leaves the canvas with a button down
    "splits",     \* updates come in parts
    "hides",      \* the host shows no pointer, or that of the system
    "recalls",    \* it shows a transparent or broken pointer again
    "breaks" }    \* it sends broken ones

Keys == {"ControlLeft", "ShiftLeft", "AltRight", "MetaLeft", "CapsLock", "KeyC", "Soft"}

EnvironmentType ==
  [texts : SUBSET Texts, pastes : Nat, opens : Nat, ends : Nat, ticks : Nat,
   keys : SUBSET Keys, strokes : Nat, pointers : Nat, may : SUBSET Hazards]

ASSUME SessionAssumption ==
  {None, Garbled} \cap (Texts \cup Formats) = {} /\ Environments \subseteq EnvironmentType

VARIABLES
  env,
  link    \* the session: up, down until the next connect, or left by the user

May(h) == h \in env.may
Up     == link = "up"

=============================================================================
