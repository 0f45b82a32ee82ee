------------------------------ MODULE OrderedGfx ------------------------------
(***************************************************************************)
(* What a graphics pipeline promises its host ([MS-RDPEGFX], and the       *)
(* comment at the decode counters of rdpgfx.js): graphics PDUs take effect *)
(* as if they were performed one by one in the order of their arrival.     *)
(* They may be performed late, and PDUs that touch different surfaces or   *)
(* slots in any order; a decode may fail and then changes nothing.  The    *)
(* pictures of the H.264 decoder are in order among themselves only.       *)
(*                                                                         *)
(* A surface or a cache slot holds one picture: the number of the PDU it   *)
(* was drawn by.                                                           *)
(***************************************************************************)
EXTENDS Integers, FiniteSets, SequencesExt

CONSTANTS Surfaces, Slots, NoPicture

VARIABLES
  px,     \* the picture on each surface; 0 is a blank one
  cache,  \* the picture in each cache slot
  todo,   \* the PDUs that arrived and have not taken effect
  last    \* the PDU that arrived last

vars == <<px, cache, todo, last>>

-----------------------------------------------------------------------------

Video   == {"avc-key", "avc-delta"}
Decodes == Video \cup {"progressive"}

\* The places a PDU writes and the ones it reads.  A CREATE_SURFACE of a new
\* id writes nothing: it adopts what was drawn for the id before.
Writes(p) == IF p.kind \in Video THEN {<<"video", p.dst>>}
             ELSE IF p.kind \in {"create", "map", "end", "reset"} THEN {}
             ELSE {p.dst}
Reads(p)  == IF p.kind \in {"copy", "save", "load"} THEN {p.src} ELSE {}

Conflict(p, q) ==
  \/ Writes(p) \cap (Writes(q) \cup Reads(q)) # {}
  \/ Writes(q) \cap Reads(p) # {}

\* PDUs may be performed when no older one they conflict with stays behind.
InOrder(done, left) == \A p \in done, q \in left : q.id < p.id => ~Conflict(p, q)

\* What performing a PDU does to the pictures.
Effect(pic, p) ==
  CASE p.kind \in Decodes \cup {"fill", "raw"} ->
         [pic EXCEPT !.px[p.dst] = p.id]
    [] p.kind \in {"recreate", "delete"} -> [pic EXCEPT !.px[p.dst] = 0]
    [] p.kind = "copy" -> [pic EXCEPT !.px[p.dst] = pic.px[p.src]]
    [] p.kind = "save" -> [pic EXCEPT !.cache[p.dst] = pic.px[p.src]]
    [] p.kind = "load" /\ pic.cache[p.src] # NoPicture ->
         [pic EXCEPT !.px[p.dst] = pic.cache[p.src]]
    [] OTHER -> pic

\* A set of PDUs in the order of their arrival, and what performing them does.
Arrival(S) == CHOOSE q \in [1..Cardinality(S) -> S] :
                \A i, j \in 1..Cardinality(S) : i < j => q[i].id < q[j].id

Performed(pic, S) == FoldLeft(Effect, pic, Arrival(S))

-----------------------------------------------------------------------------

Init == /\ px = [s \in Surfaces |-> 0]
        /\ cache = [c \in Slots |-> NoPicture]
        /\ todo = {}
        /\ last = [id |-> 0, kind |-> "end", src |-> NoPicture, dst |-> NoPicture]

\* A PDU may arrive, some waiting ones are performed in their order, and some
\* decodes fail.
Next ==
  LET waiting == todo \cup (IF last' = last THEN {} ELSE {last'})
      D       == waiting \ todo'
  IN /\ last' # last => last'.id > last.id
     /\ todo' \subseteq waiting
     /\ \E failed \in SUBSET {p \in D : p.kind \in Decodes} :
          /\ InOrder(D \ failed, todo')
          /\ [px |-> px', cache |-> cache'] =
               Performed([px |-> px, cache |-> cache], D \ failed)

Spec == Init /\ [][Next]_vars

=============================================================================
