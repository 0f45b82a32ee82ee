-------------------------- MODULE RelaySessionProofs --------------------------
(***************************************************************************)
(* Proofs about RelaySession, for chunks, limits and messages of any size  *)
(* and any number of reads and frames.                                     *)
(***************************************************************************)
EXTENDS RelaySession, SequenceTheorems, TLAPS

-----------------------------------------------------------------------------
(* Chunks in a queue.                                                      *)

\* The chunks of s follow one another from lo up to hi.
Chain(s, lo, hi) ==
  /\ lo \in Nat /\ hi \in Nat
  /\ s = <<>> => lo = hi
  /\ s # <<>> => s[1].from = lo /\ s[Len(s)].to = hi
  /\ \A i \in 1..Len(s) : s[i].from < s[i].to /\ lo <= s[i].from /\ s[i].to <= hi
  /\ \A i, j \in 1..Len(s) : j = i + 1 => s[i].to = s[j].from
  /\ \A i, j \in 1..Len(s) : i < j => s[i].to <= s[j].from

\* What is left when the first chunk is taken.
LEMMA Popped ==
  ASSUME NEW s \in Seq(Chunk), NEW lo, NEW hi, Chain(s, lo, hi), s # <<>>
  PROVE  /\ Head(s) \in Chunk /\ Head(s) = s[1]
         /\ Head(s).from = lo /\ Head(s).from < Head(s).to
         /\ Tail(s) \in Seq(Chunk) /\ Chain(Tail(s), Head(s).to, hi)
         /\ Tail(s) = <<>> => s[Len(s)] = Head(s) /\ hi = Head(s).to
         /\ Tail(s) # <<>> => Tail(s)[Len(Tail(s))] = s[Len(s)]
<1> DEFINE t == Tail(s)
<1>1. Len(s) \in Nat \ {0} /\ Head(s) = s[1]
  BY EmptySeq
<1>2. /\ Head(s) \in Chunk /\ t \in Seq(Chunk) /\ Len(t) = Len(s) - 1
      /\ \A i \in 1..Len(t) : t[i] = s[i + 1]
  BY HeadTailProperties
<1>3. \A i \in 1..Len(s) : s[i] \in Chunk
  BY ElementOfSeq
<1>4. t # <<>> => Len(t) \in Nat \ {0}
  BY <1>2, EmptySeq
<1>5. t = <<>> => Len(t) = 0
  BY EmptySeq
<1>6. Head(s).from = lo /\ Head(s).from < Head(s).to /\ Head(s).to \in Nat /\ hi \in Nat
  BY <1>1, <1>2 DEF Chain, Chunk
<1>7. t = <<>> => s[Len(s)] = Head(s) /\ hi = Head(s).to
  BY <1>1, <1>2, <1>5 DEF Chain
<1>8. t # <<>> => /\ t[Len(t)] = s[Len(s)] /\ t[Len(t)].to = hi
                  /\ t[1].from = Head(s).to
  <2> SUFFICES ASSUME t # <<>> PROVE t[Len(t)] = s[Len(s)] /\ t[1] = s[2] /\ 1 \in 1..Len(s)
                                     /\ 2 \in 1..Len(s)
    BY <1>1 DEF Chain
  <2> QED
    BY <1>1, <1>2, <1>4
<1>9. \A i \in 1..Len(t) :
        /\ i + 1 \in 1..Len(s) /\ t[i].from < t[i].to /\ Head(s).to <= t[i].from /\ t[i].to <= hi
  <2> TAKE i \in 1..Len(t)
  <2>1. i + 1 \in 1..Len(s) /\ 1 \in 1..Len(s) /\ 1 < i + 1 /\ t[i] = s[i + 1]
    BY <1>1, <1>2
  <2> QED
    BY <1>1, <2>1 DEF Chain
<1>10. \A i, j \in 1..Len(t) : (j = i + 1 => t[i].to = t[j].from) /\ (i < j => t[i].to <= t[j].from)
  <2> TAKE i, j \in 1..Len(t)
  <2>1. /\ i + 1 \in 1..Len(s) /\ j + 1 \in 1..Len(s) /\ t[i] = s[i + 1] /\ t[j] = s[j + 1]
        /\ (j = i + 1 => j + 1 = (i + 1) + 1) /\ (i < j => i + 1 < j + 1)
    BY <1>1, <1>2, <1>9
  <2> QED
    BY <2>1 DEF Chain
<1> QED
  BY <1>1, <1>2, <1>6, <1>7, <1>8, <1>9, <1>10 DEF Chain

\* What is there when a chunk is queued.
LEMMA Queued ==
  ASSUME NEW s \in Seq(Chunk), NEW lo, NEW hi, Chain(s, lo, hi),
         NEW c \in Chunk, c.from = hi, c.from < c.to
  PROVE  /\ Append(s, c) \in Seq(Chunk) /\ Append(s, c) # <<>>
         /\ Append(s, c)[Len(Append(s, c))] = c
         /\ Chain(Append(s, c), lo, c.to)
<1> DEFINE t == Append(s, c)
<1>1. /\ t \in Seq(Chunk) /\ t # <<>> /\ Len(t) = Len(s) + 1 /\ t[Len(s) + 1] = c
      /\ \A i \in 1..Len(s) : t[i] = s[i]
  BY AppendProperties
<1>2. Len(s) \in Nat /\ (s = <<>> => Len(s) = 0) /\ (s # <<>> => Len(s) \in Nat \ {0})
  BY LenProperties, EmptySeq
<1>3. \A i \in 1..Len(s) : s[i] \in Chunk
  BY ElementOfSeq
<1>4. lo \in Nat /\ hi \in Nat /\ c.to \in Nat /\ lo <= hi /\ hi < c.to
  <2>1. CASE s = <<>>
    BY <2>1 DEF Chain, Chunk
  <2>2. CASE s # <<>>
    <3>1. 1 \in 1..Len(s)
      BY <1>2, <2>2
    <3>2. s[1].from < s[1].to /\ lo <= s[1].from /\ s[1].to <= hi /\ s[1] \in Chunk
      BY <1>3, <3>1 DEF Chain
    <3> QED
      BY <3>2 DEF Chain, Chunk
  <2> QED
    BY <2>1, <2>2
<1>5. t[1].from = lo
  BY <1>1, <1>2 DEF Chain
<1>6. \A i \in 1..Len(t) : t[i].from < t[i].to /\ lo <= t[i].from /\ t[i].to <= c.to
  <2> TAKE i \in 1..Len(t)
  <2>1. CASE i \in 1..Len(s)
    BY <1>1, <1>3, <1>4, <2>1 DEF Chain, Chunk
  <2>2. CASE i = Len(s) + 1
    BY <1>1, <1>4, <2>2
  <2> QED
    BY <1>1, <1>2, <2>1, <2>2
<1>7. \A i, j \in 1..Len(t) : (j = i + 1 => t[i].to = t[j].from) /\ (i < j => t[i].to <= t[j].from)
  <2> TAKE i, j \in 1..Len(t)
  <2>1. CASE i \in 1..Len(s) /\ j \in 1..Len(s)
    BY <1>1, <2>1 DEF Chain
  <2>2. CASE i \in 1..Len(s) /\ j = Len(s) + 1
    <3>1. t[i] = s[i] /\ t[j] = c /\ s[i].to <= hi
      BY <1>1, <2>2 DEF Chain
    <3>2. j = i + 1 => s # <<>> /\ i = Len(s)
      BY <1>2, <2>2
    <3> QED
      BY <3>1, <3>2 DEF Chain
  <2>3. CASE i = Len(s) + 1
    BY <1>1, <1>2, <2>3
  <2> QED
    BY <1>1, <1>2, <2>1, <2>2, <2>3
<1> QED
  BY <1>1, <1>2, <1>4, <1>5, <1>6, <1>7 DEF Chain

\* The last chunk starts after all before the queue.
LEMMA LastIsAfter ==
  ASSUME NEW s \in Seq(Chunk), NEW lo, NEW hi, Chain(s, lo, hi)
  PROVE  /\ lo \in Nat /\ hi \in Nat /\ lo <= hi
         /\ s # <<>> => lo <= s[Len(s)].from /\ s[Len(s)].from < hi /\ s[Len(s)] \in Chunk
<1>1. CASE s = <<>>
  BY <1>1 DEF Chain
<1>2. CASE s # <<>>
  <2>1. Len(s) \in 1..Len(s)
    BY <1>2, EmptySeq
  <2>2. s[Len(s)] \in Chunk
    BY <2>1, ElementOfSeq
  <2> QED
    BY <1>2, <2>1, <2>2 DEF Chain, Chunk
<1> QED
  BY <1>1, <1>2

-----------------------------------------------------------------------------
(* The inductive invariant of the queue.                                   *)

\* The browser has got what the writer has sent.
WriterInv ==
  /\ More => /\ writer.pc \in {"sends", "sent", "signals", "failed"}
             /\ writer.next.from = writer.chunk.to /\ writer.next.from < writer.next.to
  /\ writer.chunk.from <= writer.chunk.to
  /\ Holds => writer.chunk.from < writer.chunk.to
  /\ writer.pc \in {"waits", "locks", "sends"} => ws.got = Released
  /\ writer.pc \in {"sent", "signals", "drained"} => ws.got = writer.chunk.to
  /\ writer.pc = "drained" => reader.pc = "done" /\ pipe = <<>>

\* The reader is where the queue ends.
ReaderInv ==
  /\ reader.pc = "reads" => Enqueued = pos
  /\ reader.pc \in {"reserves", "full", "announced", "parked"} =>
       /\ reader.chunk.from = Enqueued /\ reader.chunk.to = pos
       /\ reader.chunk.from < reader.chunk.to
  /\ reader.pc = "done" /\ ~flags.cancelled => Enqueued = pos

\* A reader that has announced itself has a signal or will get one.
WakeInv ==
  /\ reader.pc = "announced" /\ writer.pc # "failed" => budget.freed > 0 \/ budget.waiting
  /\ NoLostWakeup

QueueInv ==
  /\ Chain(pipe, Taken, Enqueued) /\ WriterInv /\ ReaderInv
  /\ budget.limit <= Ceiling /\ BudgetExact /\ WakeInv

USE DEF TypeOK

\* Initially nothing is queued.
LEMMA InitQueue == Init => TypeOK /\ QueueInv
<1> SUFFICES ASSUME Init PROVE TypeOK /\ QueueInv
  OBVIOUS
<1> USE RelayAssumption DEF Init
<1>1. TypeOK
  BY EmptySeq DEF EnvType, ReaderType, BudgetType, WriterType, MainType, FlagsType, SocketType,
     Chunk, NoChunk, Nobody, Hazards
<1>2. Taken = 0 /\ Enqueued = 0 /\ Released = 0 /\ ~More
  BY DEF Taken, Enqueued, Released, More, Holds, NoChunk
<1>3. Chain(pipe, Taken, Enqueued)
  BY <1>2, EmptySeq DEF Chain
<1>4. WriterInv /\ ReaderInv /\ budget.limit <= Ceiling /\ BudgetExact /\ WakeInv
  BY <1>2 DEF WriterInv, ReaderInv, BudgetExact, WakeInv, NoLostWakeup, NoChunk, Holds
<1> QED
  BY <1>1, <1>3, <1>4 DEF QueueInv

\* The other tasks leave the queue alone.
LEMMA OthersKeepQueue ==
  ASSUME TypeOK, QueueInv, UNCHANGED <<pos, reader, pipe, budget, writer>>,
         ws'.got = ws.got, flags.cancelled => flags'.cancelled
  PROVE  QueueInv'
BY DEF QueueInv, WriterInv, ReaderInv, BudgetExact, WakeInv, NoLostWakeup, Taken, Enqueued,
       Released, LastFrom, More, Holds, Chain

\* The reader keeps the invariant.
LEMMA ReaderKeepsQueue ==
  ASSUME TypeOK, QueueInv, Read \/ HostEnds \/ HostRedirects \/ ReaderStep
  PROVE  QueueInv'
<1> USE RelayAssumption DEF QueueInv
<1>1. CASE UNCHANGED <<pipe, writer>> /\ pos' = pos /\ ws' = ws /\ reader'.chunk = reader.chunk
           /\ (\/ HostEnds \/ HostRedirects \/ ReaderCancelled \/ Announce \/ Wake
               \/ (Reserve \/ Recheck) /\ Full)
  <2>1. Chain(pipe, Taken, Enqueued)' /\ Released' = Released /\ LastFrom' = LastFrom
        /\ Enqueued' = Enqueued
    BY <1>1 DEF Chain, Taken, Enqueued, Released, LastFrom, More, Holds
  <2>2. WriterInv'
    BY <1>1, <2>1 DEF WriterInv, More, Holds, HostEnds, HostRedirects, ReaderCancelled, Announce,
       Wake, Reserve, Recheck
  <2>3. ReaderInv'
    BY <1>1, <2>1 DEF ReaderInv, ReaderType, FlagsType, HostEnds, HostRedirects, ReaderCancelled, Announce,
       Wake, Reserve, Recheck
  <2>4. (budget.limit <= Ceiling)' /\ BudgetExact'
    BY <1>1, <2>1 DEF BudgetExact, BudgetType, HostEnds, HostRedirects, ReaderCancelled, Announce,
       Wake, Reserve, Recheck
  <2>5. WakeInv'
    BY <1>1 DEF WakeInv, NoLostWakeup, ReaderType, BudgetType, Full, HostEnds, HostRedirects,
       ReaderCancelled, Announce, Wake, Reserve, Recheck
  <2> QED
    BY <2>1, <2>2, <2>3, <2>4, <2>5
<1>2. CASE Read
  <2>1. Chain(pipe, Taken, Enqueued)' /\ Released' = Released /\ LastFrom' = LastFrom
        /\ Enqueued' = Enqueued
    BY <1>2 DEF Read, Chain, Taken, Enqueued, Released, LastFrom, More, Holds
  <2>2. WriterInv' /\ ReaderInv'
    BY <1>2, <2>1 DEF Read, WriterInv, ReaderInv, More, Holds
  <2>3. (budget.limit <= Ceiling)' /\ BudgetExact' /\ WakeInv'
    BY <1>2, <2>1 DEF Read, BudgetExact, WakeInv, NoLostWakeup
  <2> QED
    BY <2>1, <2>2, <2>3
<1>3. CASE (Reserve \/ Recheck) /\ ~Full
  <2> DEFINE c == reader.chunk
  <2>1. /\ c \in Chunk /\ c.from = Enqueued /\ c.to = pos /\ c.from < c.to
        /\ pipe' = Append(pipe, c) /\ writer' = writer /\ ws' = ws /\ pos' = pos /\ flags' = flags
        /\ reader' = [reader EXCEPT !.pc = "reads"] /\ reader.pc # "done"
        /\ budget'.queued = budget.queued + Bytes(c) /\ budget'.limit = budget.limit
    BY <1>3 DEF Reserve, Recheck, Enqueue, ReaderInv, ReaderType, BudgetType
  <2>2. pipe' # <<>> /\ pipe'[Len(pipe')] = c /\ Chain(pipe', Taken, c.to)
    BY <2>1, Queued
  <2>3. /\ Taken' = Taken /\ Enqueued' = c.to /\ Released' = Released /\ LastFrom' = c.from
        /\ More' = More /\ Holds' = Holds
    BY <2>1, <2>2 DEF Taken, Enqueued, Released, LastFrom, More, Holds
  <2>4. Chain(pipe, Taken, Enqueued)'
    BY <2>2, <2>3 DEF Chain
  <2>5. WriterInv'
    BY <2>1, <2>3 DEF WriterInv
  <2>6. ReaderInv' /\ WakeInv'
    BY <2>1, <2>3 DEF ReaderInv, WakeInv, NoLostWakeup, ReaderType
  <2>7. BudgetExact'
    <3> SUFFICES ASSUME writer.pc # "failed"
                 PROVE  /\ budget'.queued = Enqueued' - Released'
                        /\ budget'.queued <= Ceiling \/ Released' = LastFrom'
      BY <2>1 DEF BudgetExact
    <3>1. /\ Enqueued \in Nat /\ budget.queued = Enqueued - Released /\ Released \in Nat
          /\ budget.queued \in Nat /\ budget.limit \in Nat /\ c.to \in Nat
      BY <2>1 DEF BudgetExact, Chain, Released, WriterType, BudgetType, Chunk
    <3>2. budget.queued = 0 \/ budget.queued + Bytes(c) <= budget.limit
      BY <1>3, <2>1, <3>1 DEF Full, Bytes, Chunk
    <3> QED
      BY <2>1, <2>3, <3>1, <3>2 DEF Bytes
  <2> QED
    BY <2>1, <2>4, <2>5, <2>6, <2>7
<1> QED
  BY <1>1, <1>2, <1>3 DEF HostEnds, HostRedirects, ReaderStep, ReaderCancelled, Announce, Wake,
     Reserve, Recheck, ReaderType

\* A fragment is taken from the queue with the one that follows it.
LEMMA SendKeepsQueue ==
  ASSUME TypeOK, NEW c \in Chunk, NEW bytes \in Nat, NEW hi,
         Chain(pipe, c.to, hi), c.from < c.to, Send(c, bytes)
  PROVE  /\ writer'.pc = "sends" /\ writer'.chunk = c /\ Released' = c.from
         /\ pipe' \in Seq(Chunk) /\ writer' \in WriterType
         /\ Chain(pipe', Taken', hi) /\ Enqueued' = hi
         /\ LastFrom' = IF pipe = <<>> THEN c.from ELSE pipe[Len(pipe)].from
         /\ More' => writer'.next.from = c.to /\ writer'.next.from < writer'.next.to
<1> DEFINE more == bytes + Bytes(c) < MaxMessage /\ pipe # <<>>
<1>1. /\ writer' = [pc |-> "sends", chunk |-> c, bytes |-> bytes + Bytes(c),
                    next |-> IF more THEN Head(pipe) ELSE NoChunk]
      /\ pipe' = IF more THEN Tail(pipe) ELSE pipe
  BY DEF Send
<1>2. Released' = c.from /\ writer'.pc = "sends" /\ writer'.chunk = c
  BY <1>1 DEF Released, Holds
<1>3. bytes + Bytes(c) \in Nat
  BY DEF Bytes, Chunk
<1>4. CASE more
  <2>1. /\ Head(pipe) \in Chunk /\ Head(pipe).from = c.to /\ Head(pipe).from < Head(pipe).to
        /\ Tail(pipe) \in Seq(Chunk) /\ Chain(Tail(pipe), Head(pipe).to, hi)
        /\ Tail(pipe) = <<>> => pipe[Len(pipe)] = Head(pipe) /\ hi = Head(pipe).to
        /\ Tail(pipe) # <<>> => Tail(pipe)[Len(Tail(pipe))] = pipe[Len(pipe)]
    BY <1>4, Popped
  <2>2. writer'.next = Head(pipe) /\ pipe' = Tail(pipe) /\ pipe # <<>>
    BY <1>1, <1>4
  <2>3. More' /\ Taken' = Head(pipe).to
    BY <2>1, <2>2 DEF More, Taken, NoChunk, Chunk
  <2>4. Enqueued' = hi
    BY <2>1, <2>2, <2>3 DEF Enqueued, Chain
  <2>5. LastFrom' = pipe[Len(pipe)].from
    BY <2>1, <2>2, <2>3 DEF LastFrom
  <2> QED
    BY <1>1, <1>2, <1>3, <1>4, <2>1, <2>2, <2>3, <2>4, <2>5 DEF WriterType
<1>5. CASE ~more
  <2>1. writer'.next = NoChunk /\ pipe' = pipe /\ NoChunk \in Chunk
    BY <1>1, <1>5 DEF NoChunk, Chunk
  <2>2. ~More' /\ Taken' = c.to
    BY <1>2, <2>1 DEF More, Taken
  <2>3. Enqueued' = hi /\ LastFrom' = IF pipe = <<>> THEN c.from ELSE pipe[Len(pipe)].from
    BY <1>2, <2>1, <2>2 DEF Enqueued, LastFrom, Chain
  <2> QED
    BY <1>1, <1>2, <1>3, <1>5, <2>1, <2>2, <2>3 DEF WriterType
<1> QED
  BY <1>4, <1>5

\* The writer keeps the invariant.
LEMMA WriterKeepsQueue ==
  ASSUME TypeOK, QueueInv, WriterStep
  PROVE  QueueInv'
<1> USE RelayAssumption DEF QueueInv
<1>0. /\ writer.chunk \in Chunk /\ writer.next \in Chunk /\ writer.bytes \in Nat
      /\ pos \in Nat /\ ws.got \in Nat /\ budget.queued \in Nat /\ budget.limit \in Nat
      /\ NoChunk \in Chunk
  BY DEF WriterType, BudgetType, SocketType, NoChunk, Chunk
<1>1. CASE Take
  <2> DEFINE c == Head(pipe)
  <2>1. /\ writer.pc = "waits" /\ pipe # <<>> /\ pipe' = Tail(pipe) /\ budget' = budget
        /\ writer' = [writer EXCEPT !.pc = "locks", !.chunk = c, !.bytes = 0]
        /\ reader' = reader /\ ws' = ws /\ pos' = pos /\ flags' = flags
    BY <1>1 DEF Take, hostVars
  <2>2. ~More /\ Taken = writer.chunk.to /\ Released = writer.chunk.to /\ ws.got = Released
    BY <2>1 DEF WriterInv, Taken, Released, Holds
  <2>3. /\ c \in Chunk /\ c.from = Taken /\ c.from < c.to /\ Chain(pipe', c.to, Enqueued)
        /\ pipe' = <<>> => pipe[Len(pipe)] = c /\ Enqueued = c.to
        /\ pipe' # <<>> => pipe'[Len(pipe')] = pipe[Len(pipe)]
    BY <2>1, Popped
  <2>4. writer'.pc = "locks" /\ writer'.chunk = c /\ writer'.next = writer.next
    BY <2>1 DEF WriterType
  <2>5. /\ ~More' /\ Holds' /\ Taken' = c.to /\ Released' = c.from
        /\ Enqueued' = Enqueued /\ LastFrom' = LastFrom
    BY <2>1, <2>2, <2>3, <2>4 DEF More, Holds, Taken, Released, Enqueued, LastFrom, Chain
  <2>6. Chain(pipe, Taken, Enqueued)'
    BY <2>3, <2>5 DEF Chain
  <2>7. WriterInv'
    BY <2>1, <2>2, <2>3, <2>4, <2>5 DEF WriterInv, Chunk
  <2>8. ReaderInv' /\ BudgetExact' /\ WakeInv'
    BY <2>1, <2>2, <2>3, <2>4, <2>5 DEF ReaderInv, BudgetExact, WakeInv, NoLostWakeup
  <2> QED
    BY <2>1, <2>6, <2>7, <2>8
<1>2. CASE TakeLock
  <2> DEFINE c == writer.chunk
  <2>1. /\ writer.pc = "locks" /\ Send(c, writer.bytes) /\ budget' = budget
        /\ reader' = reader /\ ws' = ws /\ pos' = pos /\ flags' = flags
    BY <1>2 DEF TakeLock, hostVars
  <2>2. ~More /\ Taken = c.to /\ Released = c.from /\ ws.got = c.from /\ c.from < c.to
    BY <2>1 DEF WriterInv, Taken, Released, Holds
  <2>3. /\ writer'.pc = "sends" /\ writer'.chunk = c /\ Released' = c.from
        /\ Chain(pipe', Taken', Enqueued) /\ Enqueued' = Enqueued
        /\ LastFrom' = IF pipe = <<>> THEN c.from ELSE pipe[Len(pipe)].from
        /\ More' => writer'.next.from = c.to /\ writer'.next.from < writer'.next.to
    BY <1>0, <2>1, <2>2, SendKeepsQueue
  <2>4. LastFrom' = LastFrom
    BY <2>2, <2>3 DEF LastFrom
  <2>5. WriterInv'
    BY <1>0, <2>1, <2>2, <2>3 DEF WriterInv, Holds, Chunk
  <2>6. ReaderInv' /\ BudgetExact' /\ WakeInv'
    BY <2>1, <2>2, <2>3, <2>4 DEF ReaderInv, BudgetExact, WakeInv, NoLostWakeup
  <2> QED
    BY <2>1, <2>3, <2>5, <2>6 DEF Chain
<1>3. CASE Sent
  <2>1. /\ writer.pc = "sends" /\ writer'.pc = "sent" /\ writer'.chunk = writer.chunk
        /\ writer'.next = writer.next /\ ws'.got = writer.chunk.to
        /\ budget' = budget /\ pipe' = pipe /\ reader' = reader /\ pos' = pos /\ flags' = flags
    BY <1>3 DEF Sent, hostVars, WriterType, SocketType
  <2>2. /\ More' = More /\ Taken' = Taken /\ Released' = Released /\ Enqueued' = Enqueued
        /\ LastFrom' = LastFrom
    BY <2>1 DEF More, Holds, Taken, Released, Enqueued, LastFrom
  <2>3. WriterInv' /\ ReaderInv' /\ BudgetExact' /\ WakeInv'
    BY <2>1, <2>2 DEF WriterInv, ReaderInv, BudgetExact, WakeInv, NoLostWakeup, Holds
  <2> QED
    BY <2>1, <2>2, <2>3 DEF Chain
<1>4. CASE Release
  <2> DEFINE c == writer.chunk
  <2>1. /\ writer.pc = "sent" /\ writer'.pc = "signals" /\ writer'.chunk = c
        /\ writer'.next = writer.next /\ ws' = ws /\ budget'.queued = budget.queued - Bytes(c)
        /\ budget'.limit = budget.limit /\ budget'.freed = budget.freed
        /\ budget'.waiting = budget.waiting
        /\ pipe' = pipe /\ reader' = reader /\ pos' = pos /\ flags' = flags
    BY <1>4 DEF Release, hostVars, WriterType, BudgetType
  <2>2. /\ More' = More /\ Taken' = Taken /\ Released = c.from /\ Released' = c.to
        /\ Enqueued' = Enqueued /\ c.from < c.to
    BY <2>1 DEF More, Holds, Taken, Released, Enqueued, WriterInv
  <2>3. WriterInv' /\ ReaderInv' /\ WakeInv'
    BY <2>1, <2>2 DEF WriterInv, ReaderInv, WakeInv, NoLostWakeup, Holds
  <2>4. BudgetExact'
    <3>1. budget.queued = Enqueued - c.from /\ (budget.queued <= Ceiling \/ c.from = LastFrom)
      BY <2>1, <2>2 DEF BudgetExact
    <3>2. Taken \in Nat /\ Enqueued \in Nat /\ c.to <= Taken
      BY <1>0, LastIsAfter DEF Taken, WriterInv, Chunk
    <3>3. pipe # <<>> => Taken <= pipe[Len(pipe)].from /\ pipe[Len(pipe)] \in Chunk
      BY LastIsAfter
    <3>4. c.from = LastFrom => pipe = <<>> /\ ~More
      BY <1>0, <2>2, <3>2, <3>3 DEF LastFrom, WriterInv, Chunk
    <3>5. c.from = LastFrom => Enqueued = c.to
      BY <3>4 DEF Enqueued, Taken
    <3>6. budget'.queued = Enqueued' - Released'
      BY <1>0, <2>1, <2>2, <3>1, <3>2 DEF Bytes, Chunk
    <3>7. budget'.queued <= Ceiling
      BY <1>0, <2>1, <2>2, <3>1, <3>2, <3>5 DEF Bytes, Chunk
    <3> QED
      BY <3>6, <3>7 DEF BudgetExact
  <2> QED
    BY <2>1, <2>2, <2>3, <2>4 DEF Chain
<1>5. CASE Signal
  <2>0. /\ writer.pc = "signals" /\ reader' = reader /\ ws' = ws /\ pos' = pos /\ flags' = flags
        /\ budget'.queued = budget.queued /\ budget'.waiting = FALSE /\ budget'.limit <= Ceiling
        /\ budget'.freed = IF budget.waiting THEN budget.freed + 1 ELSE budget.freed
    BY <1>0, <1>5 DEF Signal, hostVars, BudgetType, Limits
  <2>1. budget.freed \in Nat
    BY DEF BudgetType
  <2>2. WakeInv'
    BY <2>0, <2>1 DEF WakeInv, NoLostWakeup
  <2>3. CASE More
    <3> DEFINE c == writer.next
    <3>1. Send(c, writer.bytes) /\ c.from = writer.chunk.to /\ c.from < c.to /\ Taken = c.to
          /\ Released = c.from /\ ws.got = c.from
      BY <1>5, <2>0, <2>3 DEF Signal, WriterInv, Taken, Released, Holds
    <3>2. /\ writer'.pc = "sends" /\ writer'.chunk = c /\ Released' = c.from
          /\ Chain(pipe', Taken', Enqueued) /\ Enqueued' = Enqueued
          /\ LastFrom' = IF pipe = <<>> THEN c.from ELSE pipe[Len(pipe)].from
          /\ More' => writer'.next.from = c.to /\ writer'.next.from < writer'.next.to
      BY <1>0, <3>1, SendKeepsQueue
    <3>3. LastFrom' = LastFrom
      BY <2>3, <3>2 DEF LastFrom
    <3>4. WriterInv'
      BY <1>0, <2>0, <3>1, <3>2 DEF WriterInv, Holds, Chunk
    <3>5. ReaderInv' /\ BudgetExact'
      BY <2>0, <3>1, <3>2, <3>3 DEF ReaderInv, BudgetExact
    <3> QED
      BY <2>0, <2>2, <3>2, <3>4, <3>5 DEF Chain
  <2>4. CASE ~More
    <3>1. /\ writer'.pc = "waits" /\ writer'.chunk = writer.chunk /\ writer'.next = writer.next
          /\ pipe' = pipe
      BY <1>5, <2>4 DEF Signal, WriterType
    <3>2. /\ ~More' /\ Taken' = Taken /\ Released' = Released /\ Enqueued' = Enqueued
          /\ LastFrom' = LastFrom
      BY <2>0, <2>4, <3>1 DEF More, Holds, Taken, Released, Enqueued, LastFrom
    <3>3. WriterInv' /\ ReaderInv' /\ BudgetExact'
      BY <2>0, <2>4, <3>1, <3>2 DEF WriterInv, ReaderInv, BudgetExact, Holds, Released
    <3> QED
      BY <2>0, <2>2, <3>1, <3>2, <3>3 DEF Chain
  <2> QED
    BY <2>3, <2>4
<1>6. CASE Drained \/ WriterFails
  <2>1. /\ writer'.pc \in {"drained", "failed"} /\ writer'.chunk = writer.chunk
        /\ writer'.next = writer.next /\ (writer'.pc = "drained" => Drained)
        /\ ws' = ws /\ budget' = budget /\ pipe' = pipe /\ reader' = reader /\ pos' = pos /\ flags' = flags
    BY <1>6 DEF Drained, WriterFails, hostVars, WriterType
  <2>2. More' = More /\ Taken' = Taken /\ Enqueued' = Enqueued /\ LastFrom' = LastFrom
    BY <2>1 DEF More, Taken, Enqueued, LastFrom
  <2>3. Drained => /\ ~More /\ Released = writer.chunk.to /\ Released' = writer.chunk.to
                   /\ writer.pc = "waits" /\ pipe = <<>> /\ reader.pc = "done"
    BY <2>1 DEF Drained, WriterInv, Released, Holds
  <2>4. WriterInv' /\ ReaderInv' /\ BudgetExact' /\ WakeInv'
    BY <2>1, <2>2, <2>3 DEF WriterInv, ReaderInv, BudgetExact, WakeInv, NoLostWakeup, Holds
  <2> QED
    BY <2>1, <2>2, <2>4 DEF Chain
<1> QED
  BY <1>1, <1>2, <1>3, <1>4, <1>5, <1>6 DEF WriterStep

-----------------------------------------------------------------------------
(* Every step.                                                             *)

\* The steps of the reader and the writer, and those of the others.
QueueStep  == Read \/ HostEnds \/ HostRedirects \/ ReaderStep \/ WriterStep
OthersStep == Receive \/ PumpStep \/ SendCancelled \/ MainStep \/ BrowserLeaves \/ Forced \/ Quiet

\* The reader and the writer keep the types.
LEMMA QueueStepKeepsTypes ==
  ASSUME TypeOK, QueueInv, QueueStep
  PROVE  TypeOK'
<1> USE RelayAssumption DEF QueueInv, hostVars
<1>0. /\ NoChunk \in Chunk /\ writer.chunk \in Chunk /\ writer.next \in Chunk
      /\ writer.bytes \in Nat /\ reader.chunk \in Chunk
  BY DEF WriterType, ReaderType, NoChunk, Chunk
<1>1. CASE Read
  <2>1. PICK n \in Sizes : /\ pos' = pos + n
                           /\ reader' = [pc |-> "reserves", chunk |-> [from |-> pos, to |-> pos + n]]
    BY <1>1 DEF Read
  <2>2. n \in Nat /\ [from |-> pos, to |-> pos + n] \in Chunk
    BY <2>1 DEF Chunk
  <2>3. pos' \in Nat /\ reader' \in ReaderType
    BY <2>1, <2>2 DEF ReaderType
  <2>4. env' = [env EXCEPT !.reads = env.reads - 1] /\ env.reads - 1 \in Nat
    BY <1>1 DEF Read, EnvType
  <2>5. env' \in EnvType
    BY <2>4 DEF EnvType
  <2> QED
    BY <1>1, <2>3, <2>5 DEF Read
<1>2. CASE HostEnds \/ HostRedirects \/ ReaderCancelled
  <2>1. reader' \in ReaderType /\ flags' \in FlagsType
    BY <1>2 DEF HostEnds, HostRedirects, ReaderCancelled, ReaderType, FlagsType
  <2> QED
    BY <1>2, <2>1 DEF HostEnds, HostRedirects, ReaderCancelled
<1>3. CASE Announce \/ Wake
  <2>1. reader' \in ReaderType
    BY <1>3 DEF Announce, Wake, ReaderType
  <2>2. CASE Announce
    BY <2>1, <2>2 DEF Announce, BudgetType
  <2>3. CASE Wake
    <3>1. budget' = [budget EXCEPT !.freed = budget.freed - 1] /\ budget.freed - 1 \in Nat
      BY <2>3 DEF Wake, BudgetType
    <3>2. budget' \in BudgetType
      BY <3>1 DEF BudgetType
    <3> QED
      BY <2>1, <2>3, <3>2 DEF Wake
  <2> QED
    BY <1>3, <2>2, <2>3
<1>4. CASE Reserve \/ Recheck
  <2>1. reader' \in ReaderType
    BY <1>4 DEF Reserve, Recheck, Enqueue, ReaderType
  <2>2. Append(pipe, reader.chunk) \in Seq(Chunk)
    BY <1>0, AppendProperties
  <2>3. Bytes(reader.chunk) \in Nat
    BY <1>0, <1>4 DEF Reserve, Recheck, ReaderInv, Bytes, Chunk
  <2>4. budget.queued + Bytes(reader.chunk) \in Nat
    BY <2>3 DEF BudgetType
  <2>5. /\ pipe' \in Seq(Chunk)
        /\ \/ budget' = budget
           \/ budget' = [budget EXCEPT !.queued = budget.queued + Bytes(reader.chunk)]
           \/ budget' = [budget EXCEPT !.queued = budget.queued + Bytes(reader.chunk), !.waiting = FALSE]
    BY <1>4, <2>2 DEF Reserve, Recheck, Enqueue
  <2>6. budget' \in BudgetType
    BY <2>4, <2>5 DEF BudgetType
  <2> QED
    BY <1>4, <2>1, <2>5, <2>6 DEF Reserve, Recheck
<1>5. CASE Take
  <2>1. Head(pipe) \in Chunk /\ pipe' \in Seq(Chunk)
    BY <1>5, Popped DEF Take
  <2>2. writer' \in WriterType
    BY <1>5, <2>1 DEF Take, WriterType
  <2> QED
    BY <1>5, <2>1, <2>2 DEF Take
<1>6. CASE TakeLock
  <2>1. Taken = writer.chunk.to /\ writer.chunk.from < writer.chunk.to /\ Send(writer.chunk, writer.bytes)
    BY <1>6 DEF TakeLock, WriterInv, Taken, Holds
  <2>2. writer' \in WriterType /\ pipe' \in Seq(Chunk)
    BY <1>0, <2>1, SendKeepsQueue
  <2> QED
    BY <1>6, <2>2 DEF TakeLock
<1>7. CASE Sent
  <2>1. writer' \in WriterType /\ ws' \in SocketType
    BY <1>0, <1>7 DEF Sent, WriterType, SocketType, More, Chunk
  <2> QED
    BY <1>7, <2>1 DEF Sent
<1>8. CASE Release
  <2>1. writer' \in WriterType /\ writer.pc = "sent"
    BY <1>8 DEF Release, WriterType
  <2>2. /\ budget.queued = Enqueued - writer.chunk.from /\ Taken <= Enqueued
        /\ Taken \in Nat /\ Enqueued \in Nat
    BY <2>1, LastIsAfter DEF BudgetExact, Released, Holds
  <2>3. writer.chunk.to <= Taken /\ writer.chunk.from < writer.chunk.to
    BY <1>0, <2>1 DEF WriterInv, Taken, Holds, Chunk
  <2>4. budget.queued - Bytes(writer.chunk) \in Nat
    <3>1. writer.chunk.from \in Nat /\ writer.chunk.to \in Nat
      BY <1>0 DEF Chunk
    <3> QED
      BY <2>2, <2>3, <3>1 DEF Bytes
  <2>5. budget' = [budget EXCEPT !.queued = budget.queued - Bytes(writer.chunk)]
    BY <1>8 DEF Release
  <2>6. budget' \in BudgetType
    BY <2>4, <2>5 DEF BudgetType
  <2> QED
    BY <1>8, <2>1, <2>6 DEF Release
<1>9. CASE Signal
  <2>1. budget' \in BudgetType /\ lock' \in {Nobody, "writer", "pump"}
    <3>1. PICK limit \in IF More THEN {budget.limit} ELSE Limits :
            budget' = [budget EXCEPT !.waiting = FALSE, !.limit = limit,
                                     !.freed = IF budget.waiting THEN budget.freed + 1 ELSE budget.freed]
      BY <1>9 DEF Signal
    <3>2. limit \in Nat /\ budget.freed \in Nat /\ budget.freed + 1 \in Nat
      BY <3>1 DEF Limits, BudgetType
    <3>3. budget' \in BudgetType
      BY <3>1, <3>2 DEF BudgetType
    <3> QED
      BY <1>9, <3>3 DEF Signal
  <2>2. writer' \in WriterType /\ pipe' \in Seq(Chunk)
    <3>1. CASE More
      <4>1. Taken = writer.next.to /\ writer.next.from < writer.next.to /\ Send(writer.next, writer.bytes)
        BY <1>9, <3>1 DEF Signal, WriterInv, Taken
      <4> QED
        BY <1>0, <4>1, SendKeepsQueue
    <3>2. CASE ~More
      BY <1>9, <3>2 DEF Signal, WriterType
    <3> QED
      BY <3>1, <3>2
  <2> QED
    BY <1>9, <2>1, <2>2 DEF Signal
<1>10. CASE Drained \/ WriterFails
  <2>1. writer' \in WriterType /\ lock' \in {Nobody, "writer", "pump"}
    BY <1>10 DEF Drained, WriterFails, WriterType
  <2> QED
    BY <1>10, <2>1 DEF Drained, WriterFails
<1> QED
  BY <1>1, <1>2, <1>3, <1>4, <1>5, <1>6, <1>7, <1>8, <1>9, <1>10
  DEF QueueStep, ReaderStep, WriterStep

\* The others keep them, and the queue.
LEMMA OthersStepKeepsAll ==
  ASSUME TypeOK, OthersStep
  PROVE  /\ TypeOK' /\ UNCHANGED <<pos, reader, pipe, budget, writer>>
         /\ ws'.got = ws.got /\ (flags.cancelled => flags'.cancelled)
<1> USE DEF hostVars
<1>1. CASE Receive
  <2>1. flags' \in FlagsType /\ (flags.cancelled => flags'.cancelled)
    BY <1>1 DEF Receive, FlagsType
  <2>2. env' = [env EXCEPT !.frames = env.frames - 1] /\ env.frames - 1 \in Nat
    BY <1>1 DEF Receive, EnvType
  <2>3. env' \in EnvType
    BY <2>2 DEF EnvType
  <2> QED
    BY <1>1, <2>1, <2>3 DEF Receive
<1>2. CASE ReceiveEnds \/ Write \/ Pong
  BY <1>2 DEF ReceiveEnds, Write, Pong, PumpGoes
<1>3. CASE PongSent \/ PongFails
  <2>1. ws' \in SocketType /\ ws'.got = ws.got
    BY <1>3 DEF PongSent, PongFails, Frame, SocketType
  <2> QED
    BY <1>3, <2>1 DEF PongSent, PongFails, PumpGoes, Unlocked
<1>4. CASE ReceiveCancelled \/ PumpCancelled \/ SendCancelled
  <2>1. ws' \in SocketType /\ ws'.got = ws.got
    BY <1>4 DEF ReceiveCancelled, PumpCancelled, SendCancelled, Aborted, SocketType
  <2> QED
    BY <1>4, <2>1 DEF ReceiveCancelled, PumpCancelled, SendCancelled, PumpGoes
<1>5. CASE OnePumpEnded
  BY <1>5 DEF OnePumpEnded, MainType
<1>6. CASE Tell \/ Cancel
  <2>1. main' \in MainType /\ flags' \in FlagsType /\ (flags.cancelled => flags'.cancelled)
    BY <1>6 DEF Tell, Cancel, MainGoes, HandsOver, MainType, FlagsType
  <2> QED
    BY <1>6, <2>1 DEF Tell, Cancel, MainGoes
<1>7. CASE Told \/ Finish
  <2>1. main' \in MainType
    BY <1>7 DEF Told, Finish, MainGoes, MainType
  <2>2. CASE Told
    BY <2>1, <2>2 DEF Told, Frame, SocketType, MainGoes
  <2>3. CASE Finish
    <3>1. \/ ws' = ws
          \/ \E told \in SUBSET {"redirect", "error"} : ws' = [ws EXCEPT !.state = "closed", !.told = told]
      BY <2>3 DEF Finish, SocketType
    <3>2. ws' \in SocketType /\ ws'.got = ws.got
      BY <3>1 DEF SocketType
    <3> QED
      BY <2>1, <2>3, <3>2 DEF Finish, MainGoes
  <2> QED
    BY <1>7, <2>2, <2>3
<1>8. CASE BrowserLeaves \/ Forced
  <2>1. ws' \in SocketType /\ ws'.got = ws.got /\ flags' \in FlagsType
        /\ (flags.cancelled => flags'.cancelled)
    BY <1>8 DEF BrowserLeaves, Forced, SocketType, FlagsType
  <2> QED
    BY <1>8, <2>1 DEF BrowserLeaves, Forced
<1>9. CASE Quiet
  BY <1>9 DEF Quiet, vars
<1> QED
  BY <1>1, <1>2, <1>3, <1>4, <1>5, <1>6, <1>7, <1>8, <1>9
  DEF OthersStep, PumpStep, MainStep

\* Types and queue are inductive together.
LEMMA QueueIsInductive ==
  ASSUME TypeOK, QueueInv, [Next]_vars
  PROVE  TypeOK' /\ QueueInv'
<1>1. CASE QueueStep
  BY <1>1, QueueStepKeepsTypes, ReaderKeepsQueue, WriterKeepsQueue DEF QueueStep
<1>2. CASE OthersStep
  BY <1>2, OthersStepKeepsAll, OthersKeepQueue
<1>3. CASE UNCHANGED vars
  BY <1>3, OthersKeepQueue DEF vars
<1> QED
  BY <1>1, <1>2, <1>3 DEF Next, QueueStep, OthersStep

\* What the invariant says of the stream.
LEMMA QueueKeepsStream ==
  ASSUME TypeOK, QueueInv
  PROVE  StreamKept
<1>1. ~More \/ writer.pc # "drained"
  BY DEF QueueInv, WriterInv
<1>2. writer.pc = "sends" => writer.chunk.from = ws.got
  BY DEF QueueInv, WriterInv, Released, Holds
<1>3. writer.pc = "drained" /\ ~flags.cancelled => ws.got = pos
  BY <1>1 DEF QueueInv, WriterInv, ReaderInv, Enqueued, Taken
<1> QED
  BY <1>2, <1>3 DEF StreamKept

\* Whatever the sizes, the limits and the faults, the browser gets the host's stream
\* without a gap, the budget of the queue is exact, and no signal to the reader is lost.
THEOREM StreamIsKept == Spec => [](TypeOK /\ StreamKept /\ BudgetExact /\ NoLostWakeup)
<1> DEFINE Inv == TypeOK /\ QueueInv
<1>1. Init => Inv
  BY InitQueue
<1>2. Inv /\ [Next]_vars => Inv'
  BY QueueIsInductive
<1>3. Inv => TypeOK /\ StreamKept /\ BudgetExact /\ NoLostWakeup
  BY QueueKeepsStream DEF QueueInv, WakeInv
<1> HIDE DEF Inv
<1> QED
  BY <1>1, <1>2, <1>3, PTL DEF Spec

-----------------------------------------------------------------------------
(* Messages are whole.                                                     *)

\* No ping is under way as the stream ends, the host takes input for as long as it is
\* connected, and a leg that ends with a redirection ends in no other way.
Orderly ==
  /\ ~May("pingsLast") /\ ~May("writeFails")
  /\ May("redirects") => ~May("forced") /\ ~May("policy")
  /\ May("token") /\ May("forced") => ~May("pings")

\* Who sends has the lock, and keeps it between the fragments of a message.
LockInv ==
  /\ lock = "writer" <=> writer.pc \in {"sends", "sent", "signals"}
  /\ lock = "pump" <=> pump = "sends"
  /\ ws.fragment /\ Open => lock = "writer"
  /\ writer.pc \in {"sent", "signals"} => ws.fragment = More

Pongs == pump \in {"pongs", "sends"}

\* When the browser is told to come back, without the lock, nobody else sends.
EndInv ==
  /\ flags.cancelled => May("forced") \/ main.pc \in {"joins", "over"}
  /\ flags.redirected => reader.pc = "done" /\ May("redirects")
  /\ flags.policy => May("policy")
  /\ Pongs => May("pings")
  /\ reader.pc = "done" /\ (May("token") \/ flags.redirected) /\ ~flags.cancelled => ~Pongs
  /\ pump = "done" /\ Open /\ ~flags.cancelled /\ ~flags.policy =>
       ToWsEnded \/ (reader.pc = "done" /\ ~flags.redirected)
  /\ main.pc # "relays" =>
       (main.first = "toWs" /\ ToWsEnded) \/ (main.first = "toRdp" /\ pump = "done")
  /\ main.pc = "sends" => ToWsEnded /\ ~Pongs

\* A leg stays orderly.
LEMMA MayStays ==
  ASSUME TypeOK, [Next]_vars
  PROVE  env'.may = env.may
<1>1. CASE Read \/ Receive
  BY <1>1 DEF Read, Receive, EnvType
<1> QED
  BY <1>1 DEF Next, vars, HostEnds, HostRedirects, ReaderStep, Reserve, Announce, Recheck, Wake,
     ReaderCancelled, WriterStep, Take, TakeLock, Sent, Release, Signal, Drained, WriterFails,
     PumpStep, PumpGoes, ReceiveEnds, Write, Pong, PongSent, PongFails, ReceiveCancelled,
     PumpCancelled, SendCancelled, MainStep, MainGoes, OnePumpEnded, Tell, Told, Cancel, Finish,
     BrowserLeaves, Forced, Quiet

\* The steps of the writer keep the lock's invariant.
LEMMA WriterKeepsLock ==
  ASSUME TypeOK, LockInv, WriterStep
  PROVE  LockInv' /\ ws'.whole = ws.whole
<1> USE DEF LockInv, Open, hostVars, Nobody
<1>1. CASE Take \/ Drained
  BY <1>1 DEF Take, Drained, WriterType, More
<1>2. CASE TakeLock
  <2>1. writer'.pc = "sends"
    BY <1>2 DEF TakeLock, Send
  <2> QED
    BY <1>2, <2>1 DEF TakeLock
<1>3. CASE Sent
  <2>1. writer'.pc = "sent" /\ writer'.next = writer.next /\ ws'.fragment = More /\ ws'.whole = ws.whole
    BY <1>3 DEF Sent, WriterType, SocketType
  <2>2. More' = More
    BY <2>1 DEF More
  <2> QED
    BY <1>3, <2>1, <2>2 DEF Sent
<1>4. CASE Release
  <2>1. writer'.pc = "signals" /\ writer'.next = writer.next
    BY <1>4 DEF Release, WriterType
  <2>2. More' = More
    BY <2>1 DEF More
  <2> QED
    BY <1>4, <2>1, <2>2 DEF Release
<1>5. CASE Signal
  <2>1. CASE More
    <3>1. writer'.pc = "sends"
      BY <1>5, <2>1 DEF Signal, Send
    <3> QED
      BY <1>5, <2>1, <3>1 DEF Signal
  <2>2. CASE ~More
    <3>1. writer'.pc = "waits" /\ lock' = "nobody"
      BY <1>5, <2>2 DEF Signal, WriterType
    <3> QED
      BY <1>5, <2>2, <3>1 DEF Signal
  <2> QED
    BY <2>1, <2>2
<1>6. CASE WriterFails
  <2>1. writer'.pc = "failed"
    BY <1>6 DEF WriterFails, WriterType
  <2> QED
    BY <1>6, <2>1 DEF WriterFails
<1> QED
  BY <1>1, <1>2, <1>3, <1>4, <1>5, <1>6 DEF WriterStep

\* So do those of the pump to the host, whose messages are whole.
LEMMA PumpKeepsLock ==
  ASSUME TypeOK, LockInv, PumpStep \/ Receive \/ SendCancelled
  PROVE  LockInv' /\ ws'.whole = ws.whole
<1> USE DEF LockInv, Open, hostVars, Nobody, PumpGoes
<1>1. writer' = writer /\ More' = More
  BY DEF PumpStep, Receive, SendCancelled, ReceiveEnds, Write, Pong, PongSent, PongFails,
     ReceiveCancelled, PumpCancelled, More
<1>2. CASE Receive \/ ReceiveEnds \/ Write \/ Pong \/ PumpCancelled
  BY <1>1, <1>2 DEF Receive, ReceiveEnds, Write, Pong, PumpCancelled
<1>3. CASE ReceiveCancelled \/ SendCancelled
  <2>1. /\ ws'.whole = ws.whole /\ ws'.fragment = ws.fragment /\ ws'.state # "open"
        /\ lock' = lock
    BY <1>3 DEF ReceiveCancelled, SendCancelled, Aborted, SocketType
  <2> QED
    BY <1>1, <1>3, <2>1 DEF ReceiveCancelled, SendCancelled
<1>4. CASE PongSent
  <2>1. ~ws.fragment /\ lock = "pump" /\ lock' = "nobody"
    BY <1>4 DEF PongSent, Unlocked
  <2>2. ws'.whole = ws.whole /\ ws'.fragment = ws.fragment /\ ws'.state = ws.state
    BY <1>4, <2>1 DEF PongSent, Frame, SocketType
  <2> QED
    BY <1>1, <1>4, <2>1, <2>2 DEF PongSent
<1>5. CASE PongFails
  BY <1>1, <1>5 DEF PongFails, Unlocked
<1> QED
  BY <1>2, <1>3, <1>4, <1>5 DEF PumpStep

\* And those of the reader and of the outside.
LEMMA RestKeepsLock ==
  ASSUME TypeOK, LockInv,
         Read \/ HostEnds \/ HostRedirects \/ ReaderStep \/ BrowserLeaves \/ Forced \/ UNCHANGED vars
  PROVE  LockInv' /\ ws'.whole = ws.whole
<1>1. CASE BrowserLeaves
  BY <1>1 DEF BrowserLeaves, LockInv, Open, More, SocketType
<1>2. CASE ~BrowserLeaves
  <2>1. UNCHANGED <<writer, lock, pump, ws>>
    BY <1>2 DEF Read, HostEnds, HostRedirects, ReaderStep, Reserve, Announce, Recheck, Wake,
       ReaderCancelled, Forced, vars
  <2> QED
    BY <2>1 DEF LockInv, Open, More
<1> QED
  BY <1>1, <1>2

\* RunAsync sends without the lock, but when nobody has it.
LEMMA MainKeepsLock ==
  ASSUME TypeOK, LockInv, EndInv, MainStep
  PROVE  LockInv' /\ ws'.whole = ws.whole
<1> USE DEF LockInv, Open, hostVars, Nobody, MainGoes
<1>1. writer' = writer /\ More' = More /\ lock' = lock /\ pump' = pump
  BY DEF MainStep, OnePumpEnded, Tell, Told, Cancel, Finish, More
<1>2. CASE OnePumpEnded \/ Tell \/ Cancel
  BY <1>1, <1>2 DEF OnePumpEnded, Tell, Cancel
<1>3. CASE Told
  <2>1. Open => ~ws.fragment
    BY <1>3 DEF Told, EndInv, ToWsEnded
  <2>2. ws'.whole = ws.whole /\ ws'.fragment = ws.fragment /\ ws'.state = ws.state
    BY <1>3, <2>1 DEF Told, Frame, SocketType
  <2> QED
    BY <1>1, <2>2
<1>4. CASE Finish
  <2>1. ws'.whole = ws.whole /\ ws'.fragment = ws.fragment /\ (ws'.state = "open" => ws.state = "open")
    BY <1>4 DEF Finish, SocketType
  <2> QED
    BY <1>1, <2>1
<1> QED
  BY <1>2, <1>3, <1>4 DEF MainStep

\* The host's and the outside's steps keep the invariant of the end.
LEMMA HostKeepsEnd ==
  ASSUME TypeOK, Orderly, EndInv,
         \/ Read \/ HostEnds \/ HostRedirects \/ ReaderStep \/ SendCancelled
         \/ BrowserLeaves \/ Forced \/ UNCHANGED vars
  PROVE  EndInv'
<1> USE DEF EndInv, Pongs, hostVars
<1>0. env'.may = env.may
  BY MayStays DEF Next
<1>1. CASE HostEnds
  <2>1. reader'.pc = "done" /\ (May("token") => ~Pongs)
    BY <1>1 DEF HostEnds, Silent, Orderly, ReaderType
  <2> QED
    BY <1>0, <1>1, <2>1 DEF HostEnds, ToWsEnded, Open, May
<1>2. CASE HostRedirects
  <2>1. /\ reader'.pc = "done" /\ ~Pongs /\ May("redirects")
        /\ flags'.cancelled = flags.cancelled /\ flags'.policy = flags.policy
        /\ flags'.redirected /\ reader.pc = "reads" /\ ~flags.cancelled
    BY <1>2 DEF HostRedirects, Silent, Orderly, ReaderType, FlagsType
  <2>2. pump = "done" => ~Open \/ flags.policy
    BY <2>1 DEF ToWsEnded
  <2>3. ~flags.policy
    BY <2>1 DEF Orderly
  <2> QED
    BY <1>0, <1>2, <2>1, <2>2, <2>3 DEF HostRedirects, ToWsEnded, Open, May
<1>3. CASE Read \/ ReaderStep
  <2>1. /\ reader.pc # "done" /\ UNCHANGED <<writer, pump, main, flags, ws>>
        /\ reader'.pc = "done" => flags.cancelled
    BY <1>3 DEF Read, ReaderStep, Reserve, Enqueue, Announce, Recheck, Wake, ReaderCancelled, ReaderType
  <2> QED
    BY <1>0, <2>1 DEF ToWsEnded, Open, May
<1>4. CASE BrowserLeaves \/ SendCancelled
  <2>1. ws'.state # "open"
    BY <1>4 DEF BrowserLeaves, SendCancelled, Aborted, SocketType
  <2> QED
    BY <1>0, <1>4, <2>1 DEF BrowserLeaves, SendCancelled, ToWsEnded, Open, May
<1>5. CASE Forced
  <2>1. /\ flags'.cancelled /\ flags'.redirected = flags.redirected /\ flags'.policy = flags.policy
        /\ May("forced")
    BY <1>5 DEF Forced, FlagsType
  <2> QED
    BY <1>0, <1>5, <2>1 DEF Forced, ToWsEnded, Open, May
<1>6. CASE UNCHANGED vars
  BY <1>0, <1>6 DEF vars, ToWsEnded, Open, May
<1> QED
  BY <1>1, <1>2, <1>3, <1>4, <1>5, <1>6

\* So do the writer's: what has ended stays so.
LEMMA WriterKeepsEnd ==
  ASSUME TypeOK, EndInv, WriterStep
  PROVE  EndInv'
<1>1. /\ UNCHANGED <<reader, pump, main, flags>> /\ writer.pc \notin {"drained", "failed"}
      /\ ws'.state = ws.state
  BY DEF WriterStep, Take, TakeLock, Sent, Release, Signal, Drained, WriterFails, hostVars, SocketType
<1>2. env'.may = env.may
  BY MayStays DEF Next
<1> QED
  BY <1>1, <1>2 DEF EndInv, Pongs, ToWsEnded, Open, May

\* And those of the pump to the host, which does not end before the rest while the
\* redirection is under way.
LEMMA PumpKeepsEnd ==
  ASSUME TypeOK, Orderly, EndInv, PumpStep \/ Receive
  PROVE  EndInv'
<1> USE DEF EndInv, Pongs, hostVars, PumpGoes
<1>0. env'.may = env.may
  BY MayStays DEF Next
<1>1. CASE Receive
  <2>1. UNCHANGED <<reader, writer, main, ws>> /\ pump = "receives" /\ ~flags.cancelled /\ Open
        /\ flags'.cancelled = flags.cancelled /\ flags'.redirected = flags.redirected
    BY <1>1 DEF Receive, FlagsType
  <2>2. \/ pump' = "writes" /\ flags' = flags
        \/ pump' = "pongs" /\ flags' = flags /\ May("pings") /\ reader.pc # "done"
        \/ pump' = "done" /\ flags'.policy /\ May("policy")
    BY <1>1 DEF Receive, FlagsType, Orderly
  <2> QED
    BY <1>0, <2>1, <2>2 DEF ToWsEnded, Open, May
<1>2. CASE ReceiveEnds
  BY <1>0, <1>2 DEF ReceiveEnds, ToWsEnded, Open, May
<1>3. CASE Write
  <2>1. pump' = "done" => reader.pc = "done" /\ (flags.redirected => ToWsEnded)
    BY <1>3 DEF Write, Orderly
  <2> QED
    BY <1>0, <1>3, <2>1 DEF Write, ToWsEnded, Open, May
<1>4. CASE Pong
  BY <1>0, <1>4 DEF Pong, ToWsEnded, Open, May
<1>5. CASE PongSent \/ PongFails
  <2>1. ws'.state = ws.state
    BY <1>5 DEF PongSent, PongFails, Frame, SocketType
  <2> QED
    BY <1>0, <1>5, <2>1 DEF PongSent, PongFails, ToWsEnded, Open, May
<1>6. CASE ReceiveCancelled \/ PumpCancelled
  BY <1>0, <1>6 DEF ReceiveCancelled, PumpCancelled, ToWsEnded, May
<1> QED
  BY <1>1, <1>2, <1>3, <1>4, <1>5, <1>6 DEF PumpStep

\* RunAsync tells the browser when the pumps have nothing left to send.
LEMMA MainKeepsEnd ==
  ASSUME TypeOK, Orderly, EndInv, MainStep
  PROVE  EndInv'
<1> USE DEF EndInv, Pongs, hostVars, MainGoes
<1>0. env'.may = env.may
  BY MayStays DEF Next
<1>1. CASE OnePumpEnded
  <2>1. main'.pc = "tells" /\ ((main'.first = "toWs" /\ ToWsEnded) \/ (main'.first = "toRdp" /\ pump = "done"))
    BY <1>1 DEF OnePumpEnded
  <2> QED
    BY <1>0, <1>1, <2>1 DEF OnePumpEnded, ToWsEnded, Open, May
<1>2. CASE Tell
  <2>1. /\ main.pc = "tells" /\ main'.first = main.first /\ main'.pc \in {"sends", "cancels"}
        /\ main'.pc = "sends" => Open /\ (flags.redirected \/ HandsOver)
        /\ flags'.cancelled = flags.cancelled /\ flags'.redirected = flags.redirected
        /\ flags'.policy = flags.policy /\ UNCHANGED <<reader, writer, pump, ws>>
    BY <1>2 DEF Tell, MainType, FlagsType
  <2>2. CASE flags.redirected
    <3>1. May("redirects") /\ ~flags.cancelled /\ ~flags.policy /\ ~Pongs
      BY <2>1, <2>2 DEF Orderly
    <3>2. Open => ToWsEnded
      BY <2>1, <2>2, <3>1
    <3> QED
      BY <1>0, <2>1, <3>1, <3>2 DEF ToWsEnded, Open, May
  <2>3. CASE ~flags.redirected /\ HandsOver
    <3>1. ToWsEnded /\ reader.pc = "done" /\ May("token")
      BY <2>1, <2>3 DEF HandsOver, ToWsEnded
    <3>2. ~Pongs
      BY <2>1, <3>1 DEF Orderly
    <3> QED
      BY <1>0, <2>1, <3>1, <3>2 DEF ToWsEnded, Open, May
  <2>4. CASE ~flags.redirected /\ ~HandsOver
    BY <1>0, <2>1, <2>4 DEF ToWsEnded, Open, May
  <2> QED
    BY <2>2, <2>3, <2>4
<1>3. CASE Told
  <2>1. main'.pc = "cancels" /\ main'.first = main.first /\ ws'.state = ws.state
    BY <1>3 DEF Told, Frame, MainType, SocketType
  <2> QED
    BY <1>0, <1>3, <2>1 DEF Told, ToWsEnded, Open, May
<1>4. CASE Cancel
  <2>1. /\ main'.pc = "joins" /\ main'.first = main.first /\ flags'.redirected = flags.redirected
        /\ flags'.policy = flags.policy /\ flags'.cancelled
    BY <1>4 DEF Cancel, MainType, FlagsType
  <2> QED
    BY <1>0, <1>4, <2>1 DEF Cancel, ToWsEnded, Open, May
<1>5. CASE Finish
  <2>1. /\ main'.pc = "over" /\ main'.first = main.first /\ (ws'.state = "open" => ws.state = "open")
    BY <1>5 DEF Finish, MainType, SocketType
  <2> QED
    BY <1>0, <1>5, <2>1 DEF Finish, ToWsEnded, Open, May
<1> QED
  BY <1>1, <1>2, <1>3, <1>4, <1>5 DEF MainStep

\* Messages are whole in a leg that is orderly.
WholeInv == Orderly => LockInv /\ EndInv /\ ws.whole

\* Initially nobody sends.
LEMMA InitWhole == Init => WholeInv
<1> SUFFICES ASSUME Init PROVE LockInv /\ EndInv /\ ws.whole
  BY DEF WholeInv
<1> QED
  BY DEF Init, LockInv, EndInv, Pongs, More, NoChunk, Nobody, ToWsEnded

\* Every step keeps them whole.
LEMMA WholeIsInductive ==
  ASSUME TypeOK, WholeInv, [Next]_vars
  PROVE  WholeInv'
<1>1. Orderly' => Orderly
  BY MayStays DEF Orderly, May
<1> SUFFICES ASSUME Orderly, LockInv, EndInv, ws.whole
             PROVE  LockInv' /\ EndInv' /\ ws'.whole
  BY <1>1 DEF WholeInv
<1>2. CASE WriterStep
  BY <1>2, WriterKeepsLock, WriterKeepsEnd
<1>3. CASE PumpStep \/ Receive
  BY <1>3, PumpKeepsLock, PumpKeepsEnd
<1>4. CASE SendCancelled
  BY <1>4, PumpKeepsLock, HostKeepsEnd
<1>5. CASE MainStep
  BY <1>5, MainKeepsLock, MainKeepsEnd
<1>6. CASE \/ Read \/ HostEnds \/ HostRedirects \/ ReaderStep \/ BrowserLeaves \/ Forced
           \/ UNCHANGED vars
  BY <1>6, RestKeepsLock, HostKeepsEnd
<1> QED
  BY <1>2, <1>3, <1>4, <1>5, <1>6 DEF Next, Quiet

\* No two tasks send at a time then.
LEMMA WholeMessages ==
  ASSUME WholeInv, Orderly
  PROVE  MessagesWhole
<1>1. LockInv /\ EndInv /\ ws.whole
  BY DEF WholeInv
<1>2. ~(WriterSends /\ PumpSends)
  BY <1>1 DEF LockInv, WriterSends, PumpSends
<1>3. ~(WriterSends /\ MainSends) /\ ~(PumpSends /\ MainSends)
  BY <1>1 DEF EndInv, Pongs, ToWsEnded, WriterSends, PumpSends, MainSends
<1> QED
  BY <1>1, <1>2, <1>3 DEF MessagesWhole

\* The relay is what it should be to both sides, in every orderly leg: the browser gets
\* the host's stream, in whole messages, through a budget that never blocks for good.
THEOREM RelayIsCoherent == Spec => [](Orderly => Coherent)
<1> DEFINE Inv == TypeOK /\ QueueInv /\ WholeInv
<1>1. Init => Inv
  BY InitQueue, InitWhole
<1>2. Inv /\ [Next]_vars => Inv'
  BY QueueIsInductive, WholeIsInductive
<1>3. Inv => (Orderly => Coherent)
  BY QueueKeepsStream, WholeMessages DEF QueueInv, WakeInv, Coherent
<1> HIDE DEF Inv
<1> QED
  BY <1>1, <1>2, <1>3, PTL DEF Spec

-----------------------------------------------------------------------------
(* The browser is told.                                                    *)

\* A leg that is not forced, whose message under way is not cut off as the policy ends
\* it, and that is not ended by the browser's side while the redirection is on its way.
Unhurried ==
  /\ ~May("forced") /\ ~May("slowAtEnd")
  /\ May("redirects") => ~May("writeFails") /\ ~May("policy")

\* Until RunAsync cancels, the WebSocket is open unless the browser has left; a
\* redirection is only found before the pumps end, and a leg ended by the policy leaves
\* nothing behind whose cancellation aborts the WebSocket.
ToldInv ==
  /\ flags.cancelled <=> main.pc \in {"joins", "over"}
  /\ ~flags.cancelled => ws.state \in {"open", "left"}
  /\ flags.redirected => May("redirects") /\ reader.pc = "done"
  /\ flags.policy => May("policy") /\ pump = "done"
  /\ main.pc # "relays" => (main.first = "toWs" /\ ToWsEnded) \/ (main.first = "toRdp" /\ pump = "done")
  /\ May("redirects") /\ pump = "done" /\ ws.state = "open" /\ ~flags.cancelled => reader.pc = "done"
  /\ main.pc \in {"relays", "tells"} => ~flags.armed
  /\ main.pc \in {"cancels", "joins", "over"} /\ (flags.redirected \/ flags.armed) /\ ws.state # "left" =>
       "redirect" \in ws.told
  /\ flags.policy => \/ ws.state = "left"
                     \/ ws.state = "open" /\ main.pc # "over"
                     \/ "error" \in ws.told

\* It holds in a leg that is not hurried.
TellInv == Unhurried => ToldInv

\* The host's and the reader's steps keep it: a redirection is found by a reader that
\* has not ended, so neither has the pump it belongs to.
LEMMA HostKeepsTold ==
  ASSUME TypeOK, Unhurried, ToldInv,
         Read \/ HostEnds \/ HostRedirects \/ ReaderStep \/ UNCHANGED vars
  PROVE  ToldInv'
<1> USE DEF ToldInv, hostVars
<1>0. env'.may = env.may
  BY MayStays DEF Next, Quiet
<1>1. CASE HostRedirects
  <2>1. /\ May("redirects") /\ ~flags.cancelled /\ reader.pc = "reads" /\ reader'.pc = "done"
        /\ flags'.cancelled = flags.cancelled /\ flags'.policy = flags.policy
        /\ flags'.armed = flags.armed /\ flags'.redirected
        /\ UNCHANGED <<writer, pump, main, ws>>
    BY <1>1 DEF HostRedirects, ReaderType, FlagsType
  <2>2. main.pc # "relays" => ws.state = "left"
    BY <2>1 DEF ToWsEnded
  <2> QED
    BY <1>0, <2>1, <2>2 DEF ToWsEnded, May
<1>2. CASE Read \/ HostEnds \/ ReaderStep
  <2>1. /\ reader.pc # "done" /\ UNCHANGED <<writer, pump, main, flags, ws>>
    BY <1>2 DEF Read, HostEnds, ReaderStep, Reserve, Enqueue, Announce, Recheck, Wake,
       ReaderCancelled, ReaderType
  <2> QED
    BY <1>0, <2>1 DEF ToWsEnded, May
<1>3. CASE UNCHANGED vars
  BY <1>0, <1>3 DEF vars, ToWsEnded, May
<1> QED
  BY <1>1, <1>2, <1>3

\* The writer's steps keep it, and the browser's.
LEMMA WriterKeepsTold ==
  ASSUME TypeOK, Unhurried, ToldInv, WriterStep \/ BrowserLeaves \/ Forced \/ SendCancelled
  PROVE  ToldInv'
<1> USE DEF ToldInv, hostVars
<1>0. env'.may = env.may
  BY MayStays DEF Next
<1>1. CASE WriterStep
  <2>1. /\ UNCHANGED <<reader, pump, main, flags>> /\ writer.pc \notin {"drained", "failed"}
        /\ ws'.state = ws.state /\ ws'.told = ws.told
    BY <1>1 DEF WriterStep, Take, TakeLock, Sent, Release, Signal, Drained, WriterFails, SocketType
  <2> QED
    BY <1>0, <2>1 DEF ToWsEnded, May
<1>2. CASE BrowserLeaves
  <2>1. ws'.state = "left" /\ UNCHANGED <<reader, writer, pump, main, flags>>
    BY <1>2 DEF BrowserLeaves, SocketType
  <2> QED
    BY <1>0, <2>1 DEF ToWsEnded, May
<1>3. CASE Forced
  BY <1>3 DEF Forced, Unhurried
<1>4. CASE SendCancelled
  <2>1. /\ ws.state = "open" /\ ws'.state = "aborted" /\ ws'.told = ws.told /\ flags.cancelled
        /\ ~flags.policy /\ UNCHANGED <<reader, writer, pump, main, flags>>
    BY <1>4 DEF SendCancelled, Aborted, Open, SocketType, Unhurried
  <2> QED
    BY <1>0, <2>1 DEF ToWsEnded, May
<1> QED
  BY <1>1, <1>2, <1>3, <1>4

\* The pump to the host ends with the policy's mark while the WebSocket is open, and
\* otherwise, where a redirection may be on its way, only behind the reader.
LEMMA PumpKeepsTold ==
  ASSUME TypeOK, Unhurried, ToldInv, PumpStep \/ Receive
  PROVE  ToldInv'
<1> USE DEF ToldInv, hostVars, PumpGoes
<1>0. env'.may = env.may
  BY MayStays DEF Next
<1>1. CASE Receive
  <2>1. /\ UNCHANGED <<reader, writer, main, ws>> /\ pump = "receives" /\ ~flags.cancelled
        /\ ws.state = "open" /\ flags'.cancelled = flags.cancelled
        /\ flags'.redirected = flags.redirected /\ flags'.armed = flags.armed
    BY <1>1 DEF Receive, Open, FlagsType
  <2>2. \/ pump' \in {"writes", "pongs"} /\ flags' = flags
        \/ pump' = "done" /\ flags'.policy /\ May("policy") /\ ~May("redirects")
    BY <1>1 DEF Receive, FlagsType, Unhurried
  <2>3. ~flags.policy
    BY <2>1
  <2>4. main.pc # "over"
    BY <2>1 DEF ToWsEnded
  <2> QED
    BY <1>0, <2>1, <2>2, <2>3, <2>4 DEF ToWsEnded, May
<1>2. CASE ReceiveEnds
  BY <1>0, <1>2 DEF ReceiveEnds, ToWsEnded, Open, May
<1>3. CASE Write
  <2>1. pump' = "done" => ~May("redirects") \/ reader.pc = "done"
    BY <1>3 DEF Write, Unhurried
  <2> QED
    BY <1>0, <1>3, <2>1 DEF Write, ToWsEnded, May
<1>4. CASE Pong \/ PongFails \/ PumpCancelled
  BY <1>0, <1>4 DEF Pong, PongFails, PumpCancelled, ToWsEnded, May
<1>5. CASE PongSent
  <2>1. ws'.state = ws.state /\ ws'.told = ws.told
    BY <1>5 DEF PongSent, Frame, SocketType
  <2> QED
    BY <1>0, <1>5, <2>1 DEF PongSent, ToWsEnded, May
<1>6. CASE ReceiveCancelled
  <2>1. /\ flags.cancelled /\ pump = "receives" /\ pump' = "done" /\ ws'.told = ws.told
        /\ ws.state = "left" => ws'.state = "left"
        /\ ws'.state = "left" => ws.state = "left"
        /\ UNCHANGED <<reader, writer, main, flags>>
    BY <1>6 DEF ReceiveCancelled, Aborted, SocketType
  <2> QED
    BY <1>0, <2>1 DEF ToWsEnded, May
<1> QED
  BY <1>1, <1>2, <1>3, <1>4, <1>5, <1>6 DEF PumpStep

\* RunAsync tells a browser that is there before it cancels, and why at the end.
LEMMA MainKeepsTold ==
  ASSUME TypeOK, Unhurried, ToldInv, MainStep
  PROVE  ToldInv'
<1> USE DEF ToldInv, hostVars, MainGoes
<1>0. env'.may = env.may
  BY MayStays DEF Next
<1>1. CASE OnePumpEnded
  <2>1. /\ main.pc = "relays" /\ main'.pc = "tells"
        /\ (main'.first = "toWs" /\ ToWsEnded) \/ (main'.first = "toRdp" /\ pump = "done")
        /\ UNCHANGED <<reader, writer, pump, flags, ws>>
    BY <1>1 DEF OnePumpEnded
  <2> QED
    BY <1>0, <2>1 DEF ToWsEnded, May
<1>2. CASE Tell
  <2>1. /\ main.pc = "tells" /\ main'.first = main.first
        /\ main'.pc \in {"sends", "cancels"}
        /\ main'.pc = "cancels" => ~(Open /\ (flags.redirected \/ HandsOver))
        /\ flags'.cancelled = flags.cancelled /\ flags'.redirected = flags.redirected
        /\ flags'.policy = flags.policy /\ flags'.armed = HandsOver
        /\ UNCHANGED <<reader, writer, pump, ws>>
    BY <1>2 DEF Tell, MainType, FlagsType
  <2>2. main'.pc = "cancels" /\ ws.state # "left" => ~flags.redirected /\ ~flags'.armed
    BY <2>1 DEF Open
  <2> QED
    BY <1>0, <2>1, <2>2 DEF ToWsEnded, May
<1>3. CASE Told
  <2>1. /\ main.pc = "sends" /\ main'.pc = "cancels" /\ main'.first = main.first
        /\ UNCHANGED <<reader, writer, pump, flags>>
    BY <1>3 DEF Told, MainType
  <2>2. ws' = ws \/ (Open /\ ws' = [ws EXCEPT !.whole = @ /\ ~ws.fragment, !.told = @ \cup {"redirect"}])
    BY <1>3 DEF Told, Frame
  <2>3. ws'.state = ws.state /\ ws.told \subseteq ws'.told
    BY <2>2 DEF SocketType
  <2>4. Open => "redirect" \in ws'.told
    BY <1>3 DEF Told, Frame, SocketType
  <2> QED
    BY <1>0, <2>1, <2>3, <2>4 DEF ToWsEnded, Open, May
<1>4. CASE Cancel
  <2>1. /\ main.pc = "cancels" /\ main'.pc = "joins" /\ main'.first = main.first
        /\ flags'.redirected = flags.redirected /\ flags'.armed = flags.armed
        /\ flags'.policy = flags.policy /\ flags'.cancelled
        /\ UNCHANGED <<reader, writer, pump, ws>>
    BY <1>4 DEF Cancel, MainType, FlagsType
  <2> QED
    BY <1>0, <2>1 DEF ToWsEnded, May
<1>5. CASE Finish
  <2>1. /\ main.pc = "joins" /\ main'.pc = "over" /\ main'.first = main.first
        /\ ws.told \subseteq ws'.told
        /\ Open /\ flags.policy => "error" \in ws'.told
        /\ ws.state = "left" <=> ws'.state = "left"
        /\ UNCHANGED <<reader, writer, pump, flags>>
    BY <1>5 DEF Finish, Open, MainType, SocketType
  <2>2. flags.cancelled \/ ws'.state \in {"open", "left"}
    BY <1>5, <2>1 DEF Finish, Open
  <2> QED
    BY <1>0, <1>5, <2>1, <2>2 DEF Finish, ToWsEnded, Open, May
<1> QED
  BY <1>1, <1>2, <1>3, <1>4, <1>5 DEF MainStep

\* Every step keeps it.
LEMMA TellIsInductive ==
  ASSUME TypeOK, TellInv, [Next]_vars
  PROVE  TellInv'
<1>1. Unhurried' => Unhurried
  BY MayStays DEF Unhurried, May
<1> SUFFICES ASSUME Unhurried, ToldInv PROVE ToldInv'
  BY <1>1 DEF TellInv
<1> QED
  BY HostKeepsTold, WriterKeepsTold, PumpKeepsTold, MainKeepsTold DEF Next, Quiet

\* In every leg that is not hurried, whatever the sizes and the numbers of reads and
\* frames, a browser that is still there is told to come back when the next leg is
\* prepared for it, and why it must not when the policy ended the leg.
THEOREM BrowserIsTold == Spec => [](Unhurried => EndIsTold)
<1> DEFINE Inv == TypeOK /\ QueueInv /\ TellInv
<1>1. Init => Inv
  <2>1. Init => ToldInv
    BY DEF Init, ToldInv
  <2> QED
    BY <2>1, InitQueue DEF TellInv
<1>2. Inv /\ [Next]_vars => Inv'
  BY QueueIsInductive, TellIsInductive
<1>3. Inv => (Unhurried => EndIsTold)
  BY DEF TellInv, ToldInv, EndIsTold
<1> HIDE DEF Inv
<1> QED
  BY <1>1, <1>2, <1>3, PTL DEF Spec

=============================================================================
