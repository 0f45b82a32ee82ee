-------------------------------- MODULE Pointer --------------------------------
(***************************************************************************)
(* The mouse of a session and the pointer the host wants shown: input and  *)
(* fast-path updates in wwwroot/lib/rdpweb/client.js, input/mouse.js and   *)
(* update/pointer.js.                                                      *)
(*                                                                         *)
(* Moves wait for the next animation frame and use a measured rectangle of *)
(* the canvas, all other events go at once and measure anew.  One          *)
(* dimension stands for two: the canvas is two pixels wide and begins at   *)
(* layout.at, a point of the page outside it is clamped.                   *)
(***************************************************************************)
EXTENDS Keyboard

VARIABLES
  hand,     \* the user's mouse: where it is, its buttons, whether over the canvas
  layout,   \* where the canvas is, and whether the page has yet to be told
  moves,    \* _pendingMove, _moveRaf, its callback, _canvasRect, whether there are listeners
  desk,     \* the host's mouse; seen: the user has used the mouse where things are now
  updates,  \* fast-path updates and fragments on the way to the client
  cursor,   \* pointerCache, the pointer class of the page, _frag
  pointer   \* the host's pointer: its cache, what it shows, whether it said so

ptrVars == <<hand, layout, moves, desk, updates, cursor, pointer>>

Unmeasured == -1
Places     == 0..2
Buttons    == {"left", "right"}
Slots      == {"s0", "s1"}
Notch      == 120

\* "clear" has no opaque pixel, "broken" is shorter than its size says; "default" is
\* the pointer of the system.
Bitmaps == {"arrow", "beam", "clear", "broken"}
Looks   == Bitmaps \cup {"default"}

Update(kind, slot, look) == [kind |-> kind, slot |-> slot, look |-> look]
PointerUpdates ==
  [kind : {"new", "color", "cached", "null", "default"}, slot : Slots, look : Looks]
Fragments == [part : {"single", "first", "next", "last"}, of : PointerUpdates, parts : 1..3]

PointerTypeOK ==
  /\ hand \in [at : Places, buttons : SUBSET Buttons, over : BOOLEAN]
  /\ layout \in [at : 0..1, announced : BOOLEAN]
  /\ moves \in [pending : Places \cup {Unmeasured}, raf : BOOLEAN, frame : BOOLEAN,
                rect : 0..1 \cup {Unmeasured}, listening : BOOLEAN]
  /\ desk \in [at : 0..1, buttons : SUBSET Buttons, pressed : 0..1, aimed : 0..1,
               turned : -Notch..Notch, asked : -Notch..Notch, seen : BOOLEAN]
  /\ updates \in Seq(Fragments)
  /\ cursor \in [cache : [Slots -> Looks \cup {None}], class : Slots \cup {"null", None},
                 frag : Seq(Fragments), mixed : BOOLEAN]
  /\ pointer \in [cache : [Slots -> Looks \cup {None}], now : Looks, told : BOOLEAN]

NewDesk    == [at |-> 0, buttons |-> {}, pressed |-> 0, aimed |-> 0, turned |-> 0, asked |-> 0,
               seen |-> FALSE]
NoPointers == [s \in Slots |-> None]
NewPointer == [cache |-> NoPointers, now |-> "default", told |-> FALSE]

PointerInit ==
  /\ hand = [at |-> 0, buttons |-> {}, over |-> TRUE]
  /\ layout = [at |-> 0, announced |-> TRUE]
  /\ moves = [pending |-> Unmeasured, raf |-> FALSE, frame |-> FALSE, rect |-> Unmeasured,
              listening |-> TRUE]
  /\ desk = NewDesk
  /\ updates = <<>>
  /\ cursor = [cache |-> NoPointers, class |-> None, frag |-> <<>>, mixed |-> FALSE]
  /\ pointer = NewPointer

-----------------------------------------------------------------------------
(* What reaches the host, if the protocol is active.                       *)

Clamped(x) == IF x < 0 THEN 0 ELSE IF x > 1 THEN 1 ELSE x

\* _canvasCoords in a rectangle.
CanvasCoords(point, rect) == Clamped(point - rect)

\* Where the user points.
Aim == CanvasCoords(hand.at, layout.at)

Told(d) == desk' = [(IF remote.share THEN d ELSE desk) EXCEPT !.seen = TRUE]

MouseMoveEvent(at) == [desk EXCEPT !.at = at]

MouseDownEvent(at, button) ==
  [desk EXCEPT !.at = at, !.buttons = @ \cup {button}, !.pressed = at, !.aimed = Aim]

MouseUpEvent(d, at, button) == [d EXCEPT !.at = at, !.buttons = @ \ {button}]

\* Mutant: the magnitude itself beside the sign.
RotationVariant(step, negative) == (IF negative THEN 256 ELSE 0) + (step % 256)

\* MouseWheelEvent: a byte in two's complement, and its sign.
Rotation(step, negative) == IF negative THEN 256 + ((256 - step) % 256) ELSE step % 256

\* What the host makes of it.
Turned(rotation) == IF rotation >= 256 THEN rotation - 512 ELSE rotation

-----------------------------------------------------------------------------
(* The mouse.                                                              *)

Uses ==
  /\ May("mouse") /\ env.strokes > 0
  /\ remote.share \/ May("typesOver")
  /\ env' = [env EXCEPT !.strokes = @ - 1]
  /\ UNCHANGED <<link, kbdVars, layout, updates, cursor, pointer>>

\* The latest move waits for the frame that is coming.
HandleMouseMove(point) ==
  moves' = [moves EXCEPT !.pending = point, !.raf = TRUE, !.frame = @ \/ ~moves.raf]

\* The mouse moves over the canvas, or onto it.
MoveTo(point) ==
  /\ Uses /\ (point # hand.at \/ ~hand.over)
  /\ hand' = [hand EXCEPT !.at = point, !.over = TRUE]
  /\ IF kbd.connected THEN HandleMouseMove(point) /\ Told(desk) ELSE UNCHANGED <<moves, desk>>

\* The frame, which comes after the events of a new layout.
Flush ==
  /\ moves.frame /\ layout.announced
  /\ LET sent == moves.pending # Unmeasured /\ kbd.connected
         rect == IF moves.rect = Unmeasured THEN layout.at ELSE moves.rect
     IN /\ moves' = [moves EXCEPT !.pending = Unmeasured, !.raf = FALSE, !.frame = FALSE,
                                  !.rect = IF sent THEN rect ELSE @]
        /\ IF sent THEN Told(MouseMoveEvent(CanvasCoords(moves.pending, rect)))
           ELSE UNCHANGED desk
  /\ UNCHANGED <<env, link, kbdVars, hand, layout, updates, cursor, pointer>>

\* Mutant: that of the moves.
ClickRectVariant == IF moves.rect = Unmeasured THEN layout.at ELSE moves.rect

\* The rectangle clicks and the wheel go by, measured anew.
ClickRect == layout.at

\* What a handler of these sends, if the session is active.
Acts(d) ==
  IF kbd.connected THEN moves' = [moves EXCEPT !.rect = ClickRect] /\ Told(d)
  ELSE UNCHANGED <<moves, desk>>

Here == CanvasCoords(hand.at, ClickRect)

\* mousedown, and the contextmenu some systems make of it at once.
ButtonDown(button) ==
  /\ Uses /\ hand.over /\ button \notin hand.buttons
  /\ hand' = [hand EXCEPT !.buttons = @ \cup {button}]
  /\ LET down == MouseDownEvent(Here, button)
     IN Acts(IF button = "right" /\ May("menuOnPress") THEN MouseUpEvent(down, Here, button)
                ELSE down)

\* mouseup, with the contextmenu of other systems, which comes to the same.
ButtonUp(button) ==
  /\ Uses /\ button \in hand.buttons
  /\ hand' = [hand EXCEPT !.buttons = @ \ {button}]
  /\ IF hand.over THEN Acts(MouseUpEvent(desk, Here, button)) ELSE UNCHANGED <<moves, desk>>

\* handleWheel: at most a notch, and nothing when it rounds to nothing.
Wheel(pixels, negative) ==
  /\ Uses /\ hand.over /\ UNCHANGED hand
  /\ LET round == (pixels * Notch + 50) \div 100
         step  == IF round > Notch THEN Notch ELSE round
     IN IF step = 0 THEN UNCHANGED <<moves, desk>>
        ELSE Acts([desk EXCEPT !.at = Here, !.turned = Turned(Rotation(step, negative)),
                                  !.asked = IF negative THEN -step ELSE step])

\* The mouse leaves the canvas.
MouseLeaves ==
  /\ Uses /\ hand.over /\ (hand.buttons = {} \/ May("dragsOut"))
  /\ hand' = [hand EXCEPT !.over = FALSE]
  /\ UNCHANGED <<moves, desk>>

\* The canvas moves on the page: the window has another size.
Relayout ==
  /\ May("resizes") /\ env.ends > 0 /\ layout.announced
  /\ kbd.connected \/ ~Up \/ May("resizesJoining")
  /\ env' = [env EXCEPT !.ends = @ - 1]
  /\ layout' = [at |-> 1 - layout.at, announced |-> FALSE]
  /\ desk' = [desk EXCEPT !.seen = @ /\ moves.pending # Unmeasured]
  /\ UNCHANGED <<link, kbdVars, hand, moves, updates, cursor, pointer>>

\* Its event, before the next frame: _invalidateCanvasRect.
Announce ==
  /\ ~layout.announced
  /\ layout' = [layout EXCEPT !.announced = TRUE]
  /\ moves' = [moves EXCEPT !.rect = IF moves.listening THEN Unmeasured ELSE @]
  /\ UNCHANGED <<env, link, kbdVars, hand, desk, updates, cursor, pointer>>

-----------------------------------------------------------------------------
(* The pointer.                                                            *)

\* getImageData.
Drawn(look) == look # "broken"

\* _cachePointer: a bitmap without opaque pixels takes no slot.
CachePointer(u) ==
  IF ~Drawn(u.look) THEN cursor
  ELSE IF u.look = "clear" THEN [cursor EXCEPT !.class = "null"]
  ELSE [cursor EXCEPT !.cache[u.slot] = u.look, !.class = u.slot]

\* Mutant: PTR_COLOR is shown by nothing and takes no slot.
HandlePointerVariant(u) ==
  CASE u.kind = "new" -> CachePointer(u)
    [] u.kind = "cached" /\ cursor.cache[u.slot] # None -> [cursor EXCEPT !.class = u.slot]
    [] OTHER -> cursor

\* handlePointer: a slot that was never built changes nothing, nor do pointers of the
\* system.
HandlePointer(u) ==
  CASE u.kind \in {"new", "color"} -> CachePointer(u)
    [] u.kind = "cached" /\ cursor.cache[u.slot] # None -> [cursor EXCEPT !.class = u.slot]
    [] OTHER -> cursor

\* The parts of one update, all of them.
Whole(frag) == Len(frag) = frag[1].parts /\ \A i \in DOMAIN frag : frag[i].of = frag[1].of

\* _dispatchUpdate.
DispatchUpdate(frag) ==
  IF Whole(frag) THEN [HandlePointer(frag[1].of) EXCEPT !.frag = <<>>]
  ELSE [cursor EXCEPT !.frag = <<>>, !.mixed = TRUE]

\* Mutant: a first part follows what is left.
OnFragmentVariant(f) ==
  CASE f.part = "single" -> HandlePointer(f.of)
    [] f.part = "first" -> [cursor EXCEPT !.frag = Append(@, f)]
    [] f.part = "next" /\ cursor.frag # <<>> -> [cursor EXCEPT !.frag = Append(@, f)]
    [] f.part = "last" /\ cursor.frag # <<>> -> DispatchUpdate(Append(cursor.frag, f))
    [] OTHER -> cursor

\* onUpdate: parts without a first one are skipped.
OnFragment(f) ==
  CASE f.part = "single" -> HandlePointer(f.of)
    [] f.part = "first" -> [cursor EXCEPT !.frag = <<f>>]
    [] f.part = "next" /\ cursor.frag # <<>> -> [cursor EXCEPT !.frag = Append(@, f)]
    [] f.part = "last" /\ cursor.frag # <<>> -> DispatchUpdate(Append(cursor.frag, f))
    [] OTHER -> cursor

OnUpdate ==
  /\ updates # <<>> /\ updates' = Tail(updates)
  /\ cursor' = IF kbd.connected THEN OnFragment(Head(updates)) ELSE cursor
  /\ UNCHANGED <<env, link, kbdVars, hand, layout, moves, desk, pointer>>

\* An update in one to three parts, external.
Parts(u, n) ==
  [i \in 1..n |-> [part  |-> IF n = 1 THEN "single" ELSE IF i = 1 THEN "first"
                             ELSE IF i = n THEN "last" ELSE "next",
                   of    |-> u, parts |-> n]]

Points(u, look) ==
  /\ remote.share /\ env.pointers > 0
  /\ env' = [env EXCEPT !.pointers = @ - 1]
  /\ \E n \in IF May("splits") THEN 1..3 ELSE {1} : updates' = updates \o Parts(u, n)
  /\ pointer' = [cache |-> IF u.kind \in {"new", "color"} THEN [pointer.cache EXCEPT ![u.slot] = look]
                           ELSE pointer.cache,
                 now   |-> look, told |-> TRUE]
  /\ UNCHANGED <<link, kbdVars, hand, layout, moves, desk, cursor>>

\* A new pointer; a broken one has another look than the client knows.
HostShows(kind, slot, look) ==
  /\ look = "broken" => May("breaks")
  /\ Points(Update(kind, slot, look), look)

\* One it has sent before.
HostRecalls(slot) ==
  /\ pointer.cache[slot] \in IF May("recalls") THEN Bitmaps ELSE Bitmaps \ {"clear", "broken"}
  /\ Points(Update("cached", slot, "default"), pointer.cache[slot])

\* None, or that of the system.
HostHides ==
  /\ May("hides")
  /\ \E k \in {"null", "default"} :
       Points(Update(k, "s0", "default"), IF k = "null" THEN "clear" ELSE "default")

-----------------------------------------------------------------------------
(* The end of a session and the next one.                                  *)

\* Mutant: the frame is cancelled, but still believed to come.
PointerDownVariant(tornDown) ==
  /\ IF tornDown
     THEN /\ moves' = [moves EXCEPT !.pending = Unmeasured, !.frame = FALSE, !.listening = FALSE]
          /\ cursor' = [cursor EXCEPT !.cache = NoPointers, !.class = None]
     ELSE UNCHANGED <<moves, cursor>>
  /\ updates' = <<>> /\ pointer' = NewPointer /\ desk' = NewDesk
  /\ UNCHANGED <<hand, layout>>

\* deinitialize; a redirection leaves all as it is.  What is left of an update stays.
PointerDown(tornDown) ==
  /\ IF tornDown
     THEN /\ moves' = [moves EXCEPT !.pending = Unmeasured, !.raf = FALSE, !.frame = FALSE,
                                    !.listening = FALSE]
          /\ cursor' = [cursor EXCEPT !.cache = NoPointers, !.class = None]
     ELSE UNCHANGED <<moves, cursor>>
  /\ updates' = <<>> /\ pointer' = NewPointer /\ desk' = NewDesk
  /\ UNCHANGED <<hand, layout>>

\* prepareReconnect: a window of another size is measured anew.
PointerUp ==
  /\ moves' = [moves EXCEPT !.rect = IF moves.listening \/ @ = layout.at THEN @ ELSE Unmeasured]
  /\ UNCHANGED <<hand, layout, desk, updates, cursor, pointer>>

\* The listeners that _onActive adds.
PointerActive ==
  /\ moves' = [moves EXCEPT !.listening = TRUE]
  /\ UNCHANGED <<hand, layout, desk, updates, cursor, pointer>>

PointerNext ==
  \/ \E p \in Places : MoveTo(p)
  \/ \E b \in Buttons : ButtonDown(b) \/ ButtonUp(b)
  \/ \E p \in {0, 1, 400}, negative \in BOOLEAN : Wheel(p, negative)
  \/ Flush \/ MouseLeaves \/ Relayout \/ Announce \/ OnUpdate
  \/ \E k \in {"new", "color"}, s \in Slots, look \in Bitmaps : HostShows(k, s, look)
  \/ \E s \in Slots : HostRecalls(s)
  \/ HostHides

-----------------------------------------------------------------------------
(* Properties.                                                             *)

Using == remote.share /\ kbd.connected

\* The host's mouse is the user's: when no frame is to come it is where the user
\* points, with the buttons the user holds, whatever the canvas did in between, and
\* though a move goes after the click that follows it.
MouseFollows ==
  Using /\ desk.seen /\ hand.over /\ ~moves.frame
  => desk.at = Aim /\ desk.buttons = hand.buttons

\* A click lands where the user aimed, also on a canvas that has just moved, and the
\* wheel turns as far and the way it was turned.
ActsAsMeant == desk.pressed = desk.aimed /\ desk.turned = desk.asked

\* What the page shows.
Shown ==
  CASE cursor.class = None -> "default"
    [] cursor.class = "null" -> "clear"
    [] OTHER -> cursor.cache[cursor.class]

\* The pointer is the one the host shows last, from whatever kind of update it comes;
\* no update is put together from parts of two; and after a session the page has its
\* own pointer again.
PointerAgrees ==
  /\ ~cursor.mixed
  /\ Using /\ updates = <<>> /\ pointer.told => Shown = pointer.now
  /\ ~moves.listening => Shown = "default"

MouseAgrees == MouseFollows /\ ActsAsMeant /\ PointerAgrees

=============================================================================
