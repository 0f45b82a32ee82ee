-------------------------- MODULE DesktopScaleProofs --------------------------
(***************************************************************************)
(* Proofs about RdpConnection and DesktopScale, for any sizes, channels,   *)
(* windows and environments: what the client is once it has taken what is  *)
(* on its way is what the host believes it is; and the sizes of host,      *)
(* client, canvas and window follow each other.                            *)
(***************************************************************************)
EXTENDS DesktopScale, FiniteSetTheorems, SequenceTheorems, TLAPS

-----------------------------------------------------------------------------
(* The types, with those of what is on its way.                            *)

UpKinds ==
  {"connect-initial", "erect-domain", "attach-user", "join", "client-info", "confirm-active",
   "finalize", "probe-reply", "input", "layout"}
DownKinds ==
  Final \cup {"connect-response", "attach-confirm", "join-confirm", "licence", "demand-active",
              "deactivate-all", "error-info", "ultimatum", "probe", "output", "display-create",
              "display-caps", "display-close"}

UpPDUs   == [kind : UpKinds, share : Nat, size : Sizes \cup {NoSize}]
DownPDUs == [kind : DownKinds, share : Nat]

IsLayout(p) == p.kind = "layout"

\* A share that was demanded has a number.
Begun == host.ph \in {"demanded", "finalizing", "active"} => host.share > 0

Types ==
  /\ Begun /\ ConnTypeOK /\ ScaleTypeOK /\ (st = "join" => join # <<>>)
  /\ up \in Seq(UpPDUs) /\ down \in Seq(DownPDUs)
  /\ \A i \in 1..Len(up) : IsLayout(up[i]) => up[i].size \in Sizes

-----------------------------------------------------------------------------
(* What the client becomes by what is on its way to it.                    *)

Modes == [st : States, fin : SUBSET Final, again : BOOLEAN, share : Nat]
Mode  == [st |-> st, fin |-> fin, again |-> again, share |-> share]

Confirms(m) == m.st \in {"capabilities", "active"}

\* By a demand of share sh, and by a finalization PDU.
Demanded(m, sh) ==
  IF Confirms(m)
  THEN [st |-> IF m.st = "active" \/ m.again THEN "active" ELSE "finalization",
        fin |-> {}, again |-> FALSE, share |-> sh]
  ELSE IF m.st = "licensing" THEN [m EXCEPT !.st = "capabilities"] ELSE m

Finalized(m, k) ==
  IF m.st # "finalization" THEN m
  ELSE [m EXCEPT !.fin = @ \cup {k},
                 !.st = IF m.fin \cup {k} = Final THEN "active" ELSE "finalization"]

After(m, p) ==
  CASE p.kind = "demand-active"  -> Demanded(m, p.share)
    [] p.kind \in Final          -> Finalized(m, p.kind)
    [] p.kind = "licence"        -> IF m.st = "licensing" THEN [m EXCEPT !.st = "capabilities"] ELSE m
    [] p.kind = "deactivate-all" ->
         IF m.st = "active" THEN [m EXCEPT !.st = "capabilities", !.again = TRUE]
         ELSE IF m.st = "licensing" THEN [m EXCEPT !.st = "capabilities"] ELSE m
    [] p.kind = "error-info"     ->
         IF m.st \in {"finalization", "active", "closed"} THEN [m EXCEPT !.st = "closed"]
         ELSE [m EXCEPT !.st = "capabilities"]
    [] p.kind = "ultimatum"      -> [m EXCEPT !.st = "closed"]
    [] OTHER                     -> m

\* What the host demands is the next share, and output to a client that is not active
\* it draws before it has finalized the client's share.
Fits(m, p) ==
  /\ m.st \in Slow \cup {"closed"}
  /\ p.kind = "demand-active" => m.st # "closed" /\ p.share = m.share + 1
  /\ p.kind = "output" => m.st = "active" \/ (m.st = "finalization" /\ p.share + 1 = m.share)
  /\ p.kind \notin {"connect-response", "attach-confirm", "join-confirm"}

\* The modes the client goes through as it takes q.
RunOf(s, q, m) ==
  /\ s \in [1..(Len(q) + 1) -> Modes]
  /\ s[1] = m /\ s[Len(q) + 1].st \in Slow \cup {"closed"}
  /\ \A i \in 1..Len(q) : s[i + 1] = After(s[i], q[i]) /\ Fits(s[i], q[i])
  /\ \A i \in 1..Len(q) : s[i].share <= s[Len(q) + 1].share

\* What the client has confirmed, or will.
Shared(m, h)  == m.share = h.share /\ (m.st = "active" \/ (m.st = "finalization" /\ m.fin = {}))
\* A demand that is not heard.
Unheard(m, h) == m.share + 1 = h.share /\ m.st \in {"capabilities", "finalization"}

\* The host's phase is that of a client that has taken everything.
Match(m, h) ==
  /\ h.ph = "licence"    => m.st = "licensing" /\ h.share = 0
  /\ h.ph = "caps"       => m.st \in {"licensing", "capabilities", "finalization"}
  /\ h.ph \in {"licence", "caps"} => m.share = h.share
  /\ h.ph = "demanded"   => Shared(m, h) \/ Unheard(m, h)
  /\ h.ph = "finalizing" => Shared(m, h)
  /\ h.ph = "active"     => m.st = "active" /\ m.share = h.share
  /\ h.ph = "gone"       => m.st = "closed"

HasUp(q, kind, sh) == \E i \in 1..Len(q) : q[i].kind = kind /\ q[i].share = sh

\* A demand that is heard is answered by what the host waits for.
Owed(s, q, u, h) ==
  /\ h.ph = "demanded" /\ s[Len(q) + 1].share = h.share =>
       \/ \E i \in 1..Len(q) : q[i].kind = "demand-active" /\ q[i].share = h.share /\ Confirms(s[i])
       \/ HasUp(u, "confirm-active", h.share)
  /\ h.ph = "finalizing" => HasUp(u, "finalize", h.share)

ViewInv ==
  host.ph # "mcs" =>
    \E s \in [1..(Len(down) + 1) -> Modes] :
      /\ RunOf(s, down, Mode) /\ Match(s[Len(down) + 1], host)
      /\ Owed(s, down, up, host)

\* What the client confirms it then finalizes, and it is a share it has, of number sh at most.
UpOK(q, sh) ==
  /\ \A i \in 1..Len(q) : q[i].kind = "confirm-active" =>
       i < Len(q) /\ q[i + 1].kind = "finalize" /\ q[i + 1].share = q[i].share
  /\ \A i \in 1..Len(q) :
       /\ q[i].kind \in {"probe-reply", "input", "layout", "confirm-active", "finalize"}
       /\ q[i].kind \in {"confirm-active", "finalize"} => q[i].share <= sh

UpInv == host.ph # "mcs" => UpOK(up, share)

\* Before the host knows the client one thing at a time is on its way.
HandInv ==
  /\ host.ph = "mcs" =>
       /\ share = 0 /\ host.share = 0 /\ fin = {} /\ again = FALSE
       /\ \/ /\ st = "basic"
             /\ \/ up = <<Just("connect-initial")>> /\ down = <<>>
                \/ up = <<>> /\ down = <<Down("connect-response", 0)>>
          \/ /\ st = "attach"
             /\ \/ up = <<Just("erect-domain"), Just("attach-user")>> /\ down = <<>>
                \/ up = <<Just("attach-user")>> /\ down = <<>>
                \/ up = <<>> /\ down = <<Down("attach-confirm", 0)>>
          \/ /\ st = "join"
             /\ \/ up = <<Just("join")>> /\ down = <<>>
                \/ up = <<>> /\ down = <<Down("join-confirm", 0)>>
          \/ st = "licensing" /\ up = <<Just("client-info")>> /\ down = <<>>
  /\ host.ph # "mcs" => st \in Slow \cup {"closed"}

\* What the client's state says of its share.
ModeOK(m) ==
  /\ m.st = "licensing" => m.share = 0 /\ ~m.again
  /\ m.st = "capabilities" => (m.again <=> m.share > 0)
  /\ m.st = "finalization" => m.share = 1 /\ ~m.again /\ m.fin # Final
  /\ m.st = "active" => m.share > 0
  /\ m.st \in {"capabilities", "active"} /\ m.share = 1 => m.fin = Final

ShareInv == ModeOK(Mode)

ConnInv ==
  HandInv /\ UpInv /\ ViewInv /\ ShareInv /\ LaterOutputDrawn /\ CloseOnce /\ ActiveOncePerShare

-----------------------------------------------------------------------------
(* The sizes.                                                              *)

NoLayout(q) == \A i \in 1..Len(q) : ~IsLayout(q[i])
LastLayout(q, z) ==
  \E i \in 1..Len(q) : IsLayout(q[i]) /\ q[i].size = z /\ \A j \in (i + 1)..Len(q) : ~IsLayout(q[j])

\* The scale of all layouts, and a layout that is of another resolution.
Scaled(q, w)  == \A i \in 1..Len(q) : IsLayout(q[i]) => q[i].size.scale = w
Tells(q, res) == \E i \in 1..Len(q) : IsLayout(q[i]) /\ q[i].size.res # res

NoCaps(q) == \A i \in 1..Len(q) : q[i].kind # "display-caps"

\* The host has its Display Control channel, and keeps it.
Reached == host.ph # "gone" /\ ~May("displayCloses")

\* A size that is pending is in use, and the page is told it by and by.
SizesOf ==
  /\ desk.pending \in {NoSize, desk.size}
  /\ desk.pending = NoSize => page.size = desk.size
  /\ screen.canvas = desk.size.res

SizeInv ==
  /\ SizesOf
  /\ ~May("displayCloses") =>
       host.display = "ready" \/ (~display.caps /\ NoCaps(down) /\ NoLayout(up))
  /\ Reached =>
       \/ LastLayout(up, desk.size)
       \/ NoLayout(up) /\ IF May("ignoresScale") THEN desk.size.res = host.size.res ELSE desk.size = host.size

\* The steps that are over, or as good as over.
Nudged == scale.step \in {2, 3} \/ (scale.step = 1 /\ scale.from = 1)

\* The host has the scale, or a layout it does not take for a change of the scale alone
\* is on its way to it.
ScaleInv ==
  /\ env.size.scale = IF May("gfx") /\ May("scales") THEN SessionScale ELSE 100
  /\ ~scale.applied =>
       /\ desk.size = env.size /\ desk.pending = NoSize /\ ~desk.sent
       /\ NoLayout(up) /\ scale.step = Undefined
  /\ scale.target = env.size.res
  /\ scale.due = "none" /\ canResize => scale.applied
  /\ scale.applied => desk.size.scale = WantedScale
  /\ scale.applied /\ scale.step = Undefined => May("gfx") \/ ~May("scales")
  /\ Scaled(up, WantedScale)
  /\ host.size = env.size \/ host.size.scale = WantedScale
  /\ scale.applied /\ Nudged /\ Reached => host.size.scale = WantedScale \/ Tells(up, host.size.res)

FillInv ==
  ~May("early") =>
    /\ ~screen.resizing => IF ~scale.applied \/ Running THEN screen.window = env.size.res
                           ELSE Near(screen.canvas, screen.window)
    /\ scale.step = 2 /\ scale.from = 2 => screen.canvas = scale.target


-----------------------------------------------------------------------------
(* Sequences.                                                              *)

LEMMA Popped ==
  ASSUME NEW S, NEW q \in Seq(S), q # <<>>
  PROVE  /\ Len(q) \in Nat \ {0} /\ Head(q) = q[1] /\ Head(q) \in S
         /\ Tail(q) \in Seq(S) /\ Len(Tail(q)) = Len(q) - 1
         /\ \A i \in 1..Len(Tail(q)) : i + 1 \in 1..Len(q) /\ Tail(q)[i] = q[i + 1]
<1>1. Len(q) \in Nat \ {0} /\ Head(q) = q[1]
  BY EmptySeq
<1>2. /\ Head(q) \in S /\ Tail(q) \in Seq(S) /\ Len(Tail(q)) = Len(q) - 1
      /\ \A i \in 1..Len(Tail(q)) : Tail(q)[i] = q[i + 1]
  BY HeadTailProperties
<1> QED
  BY <1>1, <1>2

LEMMA Joined ==
  ASSUME NEW S, NEW q \in Seq(S), NEW a \in Seq(S)
  PROVE  /\ q \o a \in Seq(S) /\ Len(q \o a) = Len(q) + Len(a)
         /\ Len(q) \in Nat /\ Len(a) \in Nat
         /\ \A i \in 1..Len(q) : (q \o a)[i] = q[i]
         /\ \A i \in 1..Len(a) : (q \o a)[Len(q) + i] = a[i]
         /\ \A i \in 1..Len(q \o a) :
              i \in 1..Len(q) \/ (i - Len(q) \in 1..Len(a) /\ (q \o a)[i] = a[i - Len(q)])
<1> DEFINE r == q \o a
<1>1. r \in Seq(S) /\ Len(r) = Len(q) + Len(a)
  BY ConcatProperties
<1>2. Len(q) \in Nat /\ Len(a) \in Nat
  BY LenProperties
<1>3. \A i \in 1..Len(r) : r[i] = IF i <= Len(q) THEN q[i] ELSE a[i - Len(q)]
  BY ConcatProperties
<1> HIDE DEF r
<1> QED
  <2>1. /\ \A i \in 1..Len(q) : r[i] = q[i]
        /\ \A i \in 1..Len(a) : r[Len(q) + i] = a[i]
        /\ \A i \in 1..Len(r) : i \in 1..Len(q) \/ (i - Len(q) \in 1..Len(a) /\ r[i] = a[i - Len(q)])
    BY <1>1, <1>2, <1>3
  <2> QED
    BY <1>1, <1>2, <2>1 DEF r

\* A sequence in two parts.
LEMMA Tacked ==
  ASSUME NEW S, NEW a \in Seq(S), NEW b \in Seq(S), NEW c \in Seq(S), Len(c) = Len(a) + Len(b),
         \A i \in 1..Len(a) : a[i] = c[i], \A i \in 1..Len(b) : b[i] = c[Len(a) + i]
  PROVE  a \o b = c
<1> DEFINE r == a \o b
<1>1. /\ r \in Seq(S) /\ Len(r) = Len(a) + Len(b) /\ Len(a) \in Nat /\ Len(b) \in Nat
      /\ \A i \in 1..Len(a) : r[i] = a[i]
      /\ \A i \in 1..Len(r) : i \in 1..Len(a) \/ (i - Len(a) \in 1..Len(b) /\ r[i] = b[i - Len(a)])
  BY Joined
<1> HIDE DEF r
<1>2. ASSUME NEW i \in 1..Len(r) PROVE r[i] = c[i]
  <2>1. CASE i \in 1..Len(a)
    BY <1>1, <2>1
  <2>2. CASE i \notin 1..Len(a)
    <3>1. i - Len(a) \in 1..Len(b) /\ r[i] = b[i - Len(a)]
      BY <1>1, <2>2
    <3>2. Len(a) + (i - Len(a)) = i
      BY <1>1
    <3> QED
      BY <3>1, <3>2
  <2> QED
    BY <2>1, <2>2
<1>3. r = c
  BY <1>1, <1>2, SeqEqual
<1> QED
  BY <1>3 DEF r

LEMMA Shorter ==
  ASSUME NEW t, NEW n \in Nat, n > 1, Len(t) = n - 1
  PROVE  t # <<>>
<1>1. Len(<<>>) = 0
  OBVIOUS
<1> QED
  BY <1>1

LEMMA OneOf ==
  ASSUME NEW S, NEW x \in S
  PROVE  <<x>> \in Seq(S) /\ Len(<<x>>) = 1 /\ <<x>>[1] = x
OBVIOUS

LEMMA TwoOf ==
  ASSUME NEW S, NEW x \in S, NEW y \in S
  PROVE  <<x, y>> \in Seq(S) /\ Len(<<x, y>>) = 2 /\ <<x, y>>[1] = x /\ <<x, y>>[2] = y
OBVIOUS

LEMMA OneAndOne ==
  ASSUME NEW S, NEW x \in S, NEW y \in S
  PROVE  <<x>> \o <<y>> = <<x, y>>
<1> DEFINE a == <<x>>
           b == <<y>>
           c == <<x, y>>
<1>1. /\ a \in Seq(S) /\ Len(a) = 1 /\ a[1] = x
      /\ b \in Seq(S) /\ Len(b) = 1 /\ b[1] = y
      /\ c \in Seq(S) /\ Len(c) = 2 /\ c[1] = x /\ c[2] = y
  BY OneOf, TwoOf
<1> HIDE DEF a, b, c
<1>3. Len(c) = Len(a) + Len(b) /\ \A i \in 1..Len(a) : a[i] = c[i]
  BY <1>1
<1>4. \A i \in 1..Len(b) : b[i] = c[Len(a) + i]
  BY <1>1
<1>2. a \o b = c
  BY <1>1, <1>3, <1>4, Tacked
<1> QED
  BY <1>2 DEF a, b, c

LEMMA TwoAndTwo ==
  ASSUME NEW S, NEW a \in Seq(S), NEW b \in Seq(S), NEW c \in Seq(S),
         Len(a) = 2, Len(b) = 2, Len(c) = 4,
         a[1] = c[1], a[2] = c[2], b[1] = c[3], b[2] = c[4]
  PROVE  a \o b = c
<1>1. Len(c) = Len(a) + Len(b) /\ \A i \in 1..Len(a) : a[i] = c[i]
  OBVIOUS
<1>2. \A i \in 1..Len(b) : b[i] = c[Len(a) + i]
  OBVIOUS
<1> QED
  BY <1>1, <1>2, Tacked

-----------------------------------------------------------------------------
(* The types.                                                              *)

UpTypes(q)   == q \in Seq(UpPDUs) /\ \A i \in 1..Len(q) : IsLayout(q[i]) => q[i].size \in Sizes
DownTypes(q) == q \in Seq(DownPDUs)

LEMMA UpMore ==
  ASSUME NEW q, NEW a, UpTypes(q), UpTypes(a)
  PROVE  UpTypes(q \o a)
<1> DEFINE r == q \o a
<1>1. /\ r \in Seq(UpPDUs) /\ \A i \in 1..Len(q) : r[i] = q[i]
      /\ \A i \in 1..Len(r) :
           i \in 1..Len(q) \/ (i - Len(q) \in 1..Len(a) /\ r[i] = a[i - Len(q)])
  BY Joined DEF UpTypes
<1> HIDE DEF r
<1>2. UpTypes(r)
  BY <1>1 DEF UpTypes
<1> QED
  BY <1>2 DEF r

LEMMA UpLess ==
  ASSUME NEW q, UpTypes(q), q # <<>>
  PROVE  UpTypes(Tail(q))
BY Popped DEF UpTypes

LEMMA UpOne ==
  ASSUME NEW p \in UpPDUs, IsLayout(p) => p.size \in Sizes
  PROVE  UpTypes(<<p>>)
BY OneOf DEF UpTypes

LEMMA UpTwo ==
  ASSUME NEW p \in UpPDUs, NEW r \in UpPDUs, ~IsLayout(p), ~IsLayout(r)
  PROVE  UpTypes(<<p, r>>)
BY TwoOf DEF UpTypes

LEMMA PlainPDU ==
  ASSUME NEW k \in UpKinds, NEW s \in Nat, NEW z \in Sizes \cup {NoSize}
  PROVE  Up(k, s, z) \in UpPDUs /\ (IsLayout(Up(k, s, z)) <=> k = "layout")
BY DEF Up, UpPDUs, IsLayout

LEMMA JustPDU ==
  ASSUME NEW k \in UpKinds
  PROVE  Just(k) \in UpPDUs /\ (IsLayout(Just(k)) <=> k = "layout")
BY PlainPDU DEF Just

\* What the client says as it takes a PDU.
Handshakes == {<<Just("erect-domain"), Just("attach-user")>>, <<Just("client-info")>>, <<Just("join")>>}
Confirmation(sh, size) == <<Up("confirm-active", sh, size), Up("finalize", sh, NoSize)>>
Answers == Handshakes \cup {<<Just("probe-reply")>>}
             \cup {Confirmation(sh, size) : sh \in Nat, size \in Sizes}

LEMMA AnswerTypes == \A a \in Answers : UpTypes(a)
<1>1. UpTypes(<<Just("erect-domain"), Just("attach-user")>>)
  BY UpTwo, JustPDU DEF UpKinds
<1>2. ASSUME NEW k \in {"client-info", "join", "probe-reply"} PROVE UpTypes(<<Just(k)>>)
  BY UpOne, JustPDU DEF UpKinds
<1>3. ASSUME NEW sh \in Nat, NEW size \in Sizes PROVE UpTypes(Confirmation(sh, size))
  <2>1. /\ Up("confirm-active", sh, size) \in UpPDUs /\ ~IsLayout(Up("confirm-active", sh, size))
        /\ Up("finalize", sh, NoSize) \in UpPDUs /\ ~IsLayout(Up("finalize", sh, NoSize))
    BY PlainPDU DEF UpKinds
  <2> QED
    BY <2>1, UpTwo DEF Confirmation
<1> QED
  BY <1>1, <1>2, <1>3 DEF Answers, Handshakes

LEMMA JoinsTypes == Joins \in Seq({"user", "io", "message"} \cup Channels) /\ Joins # <<>>
<1> DEFINE T == {"user", "io", "message"} \cup Channels
<1>1. SetToSeq(Channels) \in Seq(Channels)
  <2> DEFINE n == Cardinality(Channels)
  <2>1. n \in Nat /\ \E f : ExistsBijection(1..n, Channels)
    BY ConnectionAssumption, FS_CardinalityType
  <2>2. PICK f \in [1..n -> Channels] : IsInjective(f)
    BY <2>1 DEF ExistsBijection, Bijection, Injection, IsInjective
  <2>3. SetToSeq(Channels) \in [1..n -> Channels]
    BY <2>2 DEF SetToSeq
  <2> QED
    BY <2>1, <2>3
<1>2. SetToSeq(Channels) \in Seq(T)
  BY <1>1
<1> DEFINE a == <<"user", "io">>
           b == IF May("messageChannel") THEN <<"message">> ELSE <<>>
           c == a \o SetToSeq(Channels)
<1>3. a \in Seq(T) /\ Len(a) = 2
  BY TwoOf
<1>4. b \in Seq(T)
  <2>1. <<"message">> \in Seq(T) /\ <<>> \in Seq(T)
    OBVIOUS
  <2> QED
    BY <2>1
<1>5. Joins = c \o b
  BY DEF Joins
<1> HIDE DEF a, b
<1> DEFINE d == SetToSeq(Channels)
<1>6. c \in Seq(T) /\ Len(c) >= 2
  <2>1. d \in Seq(T)
    BY <1>2
  <2> HIDE DEF d
  <2>2. a \o d \in Seq(T) /\ Len(a \o d) = Len(a) + Len(d) /\ Len(d) \in Nat
    BY <1>3, <2>1, Joined
  <2>3. a \o d \in Seq(T) /\ Len(a \o d) >= 2
    BY <1>3, <2>2
  <2> QED
    BY <2>3 DEF d
<1> HIDE DEF c
<1>7. c \o b \in Seq(T) /\ Len(c \o b) >= 2
  BY <1>4, <1>6, Joined
<1> QED
  <2>1. Joins \in Seq(T) /\ Len(Joins) >= 2
    BY <1>5, <1>7
  <2> QED
    BY <2>1


LEMMA TakeFacts ==
  ASSUME Types, down # <<>>
  PROVE  /\ Head(down) \in DownPDUs /\ Head(down).share \in Nat /\ Head(down).kind \in DownKinds
         /\ Tail(down) \in Seq(DownPDUs)
<1>1. Head(down) \in DownPDUs /\ Tail(down) \in Seq(DownPDUs)
  BY Popped DEF Types
<1> QED
  BY <1>1 DEF DownPDUs

\* What a step of the client that takes a PDU does to the queues.
LEMMA FeedQueues ==
  ASSUME Types, Feed
  PROVE  /\ down # <<>> /\ down' = Tail(down) /\ UNCHANGED <<env, host>>
         /\ up' = up \/ \E a \in Answers : up' = up \o a
<1>1. /\ <<Just("erect-domain"), Just("attach-user")>> \in Answers /\ <<Just("client-info")>> \in Answers
      /\ <<Just("join")>> \in Answers /\ <<Just("probe-reply")>> \in Answers
  BY DEF Answers, Handshakes
<1>2. desk.size \in Sizes
  BY DEF Types, ConnTypeOK
<1>3. CASE OnConnectResponse
  BY <1>1, <1>3 DEF OnConnectResponse, Take, Send
<1>4. CASE OnAttachUserConfirm
  BY <1>1, <1>4 DEF OnAttachUserConfirm, Take, Send
<1>5. CASE OnChannelJoinConfirm
  BY <1>1, <1>5 DEF OnChannelJoinConfirm, Take, Send
<1>6. CASE OnLicensing \/ OnDeactivateAll \/ OnLostDeactivate \/ OnErrorInfo \/ OnUltimatum
  BY <1>6 DEF OnLicensing, OnDeactivateAll, OnLostDeactivate, OnErrorInfo, OnUltimatum, Take
<1>7. CASE OnFastPath \/ OnDisplayCreate \/ OnDisplayCaps \/ OnDisplayClose \/ OnIgnored
  BY <1>7 DEF OnFastPath, OnDisplayCreate, OnDisplayCaps, OnDisplayClose, OnIgnored, Take
<1>8. CASE OnFinalization
  BY <1>8 DEF OnFinalization, Take
<1>9. CASE OnAutoDetect
  BY <1>1, <1>9 DEF OnAutoDetect, Take, Send
<1>10. ASSUME NEW re, Take("demand-active"), ConfirmActive(Head(down).share, re)
       PROVE  up' = up \o Confirmation(Head(down).share, desk.size)
                /\ Confirmation(Head(down).share, desk.size) \in Answers
  <2>1. Head(down).share \in Nat
    BY <1>10, TakeFacts DEF Take
  <2> QED
    BY <1>2, <1>10, <2>1 DEF ConfirmActive, Send, Confirmation, Answers
<1>11. CASE OnDemandActive
  <2>1. CASE st = "capabilities"
    BY <1>10, <1>11, <2>1 DEF OnDemandActive, Take
  <2>2. CASE st # "capabilities"
    BY <1>11, <2>2 DEF OnDemandActive, Take
  <2> QED
    BY <2>1, <2>2
<1>12. CASE OnRedemand
  BY <1>10, <1>12 DEF OnRedemand, Take
<1> QED
  BY <1>3, <1>4, <1>5, <1>6, <1>7, <1>8, <1>9, <1>11, <1>12 DEF Feed

PageTypes == [active : Nat, closed : Nat, drawn : Nat, lost : SUBSET Nat, size : Sizes]

LEMMA PageSteps ==
  ASSUME page \in PageTypes
  PROVE  /\ [page EXCEPT !.active = @ + 1] \in PageTypes /\ [page EXCEPT !.closed = @ + 1] \in PageTypes
         /\ [page EXCEPT !.drawn = @ + 1] \in PageTypes
         /\ \A n \in Nat : [page EXCEPT !.lost = @ \cup {n}] \in PageTypes
         /\ \A s \in Sizes : [page EXCEPT !.size = s] \in PageTypes
BY DEF PageTypes

LEMMA FeedClient ==
  ASSUME Types, Feed
  PROVE  /\ st' \in States /\ join' \in Seq({"user", "io", "message"} \cup Channels)
         /\ (st' = "join" => join' # <<>>)
         /\ fin' \in SUBSET Final /\ share' \in Nat /\ again' \in BOOLEAN
         /\ desk' \in [size : Sizes, pending : Sizes \cup {NoSize}, sent : BOOLEAN]
         /\ display' \in [open : BOOLEAN, caps : BOOLEAN]
         /\ page' \in PageTypes
<1> USE DEF Types, ConnTypeOK, States
<1>0. page \in PageTypes
  BY DEF PageTypes
<1>1. CASE OnConnectResponse
  BY <1>0, PageSteps, <1>1 DEF OnConnectResponse, Take
<1>2. CASE OnAttachUserConfirm
  BY <1>0, PageSteps, <1>2, JoinsTypes DEF OnAttachUserConfirm, Take
<1>3. CASE OnChannelJoinConfirm
  <2>1. join # <<>>
    BY <1>3 DEF OnChannelJoinConfirm
  <2>2. /\ Tail(join) \in Seq({"user", "io", "message"} \cup Channels)
        /\ Len(join) \in Nat /\ Len(Tail(join)) = Len(join) - 1
    BY <2>1, Popped
  <2>3. Len(join) > 1 => Tail(join) # <<>>
    BY <2>2, Shorter
  <2> QED BY <1>0, <1>3, <2>2, <2>3 DEF OnChannelJoinConfirm, Take
<1>4. CASE OnLicensing \/ OnLostDeactivate \/ OnAutoDetect \/ OnIgnored
  BY <1>0, PageSteps, <1>4 DEF OnLicensing, OnLostDeactivate, OnAutoDetect, OnIgnored, clientVars
<1>5. ASSUME Take("demand-active"), NEW re, ConfirmActive(Head(down).share, re),
             UNCHANGED <<join, desk, display>>
      PROVE  /\ st' \in States \ {"join"} /\ fin' \in SUBSET Final /\ share' \in Nat /\ again' \in BOOLEAN
             /\ page' \in PageTypes
  <2>1. Head(down).share \in Nat
    BY <1>0, PageSteps, <1>5, TakeFacts DEF Take
  <2> QED
    BY <1>0, PageSteps, <1>5, <2>1 DEF ConfirmActive
<1>6. CASE OnDemandActive
  <2>1. CASE st = "capabilities"
    BY <1>0, PageSteps, <1>5, <1>6, <2>1 DEF OnDemandActive
  <2>2. CASE st # "capabilities"
    BY <1>0, PageSteps, <1>6, <2>2 DEF OnDemandActive
  <2> QED
    BY <2>1, <2>2
<1>7. CASE OnRedemand
  BY <1>0, PageSteps, <1>5, <1>7 DEF OnRedemand
<1>8. CASE OnFinalization
  BY <1>0, PageSteps, <1>8 DEF OnFinalization, Take
<1>9. CASE OnDeactivateAll
  <2>1. CASE desk.pending # NoSize
    <3>1. desk.pending \in Sizes
      BY <2>1
    <3>2. [desk EXCEPT !.size = desk.pending, !.pending = NoSize]
            \in [size : Sizes, pending : Sizes \cup {NoSize}, sent : BOOLEAN]
      BY <3>1
    <3> QED
      BY <1>0, PageSteps, <1>9, <2>1, <3>1, <3>2 DEF OnDeactivateAll
  <2>2. CASE desk.pending = NoSize
    BY <1>0, PageSteps, <1>9, <2>2 DEF OnDeactivateAll
  <2> QED
    BY <2>1, <2>2
<1>10. CASE OnErrorInfo \/ OnUltimatum
  BY <1>0, PageSteps, <1>10 DEF OnErrorInfo, OnUltimatum, Close
<1>11. CASE OnFastPath
  <2>1. Head(down).share \in Nat
    BY <1>11, TakeFacts DEF OnFastPath, Take
  <2> QED
    BY <1>0, PageSteps, <1>11, <2>1 DEF OnFastPath
<1>12. CASE OnDisplayCreate \/ OnDisplayCaps \/ OnDisplayClose
  BY <1>0, PageSteps, <1>12 DEF OnDisplayCreate, OnDisplayCaps, OnDisplayClose
<1> QED
  BY <1>1, <1>2, <1>3, <1>4, <1>6, <1>7, <1>8, <1>9, <1>10, <1>11, <1>12 DEF Feed

\* All of a step that takes a PDU.
LEMMA FedTypes ==
  ASSUME Types, Fed
  PROVE  Types'
<1>1. Feed
  BY DEF Fed
<1>2. ConnTypeOK'
  <2>1. UNCHANGED <<env, host>>
    BY <1>1, FeedQueues
  <2> QED
    BY <1>1, <2>1, FeedClient DEF Types, ConnTypeOK, PageTypes
<1>3. ScaleTypeOK'
  <2>1. /\ Due \in {"active", "ready", "none"} /\ scale' = [scale EXCEPT !.due = IF st = "closed" THEN "none" ELSE Due]
        /\ screen' = screen \/ (desk.pending # NoSize /\ screen' = [screen EXCEPT !.canvas = desk.pending.res])
    BY DEF Fed, Due
  <2>2. desk.pending # NoSize => desk.pending.res \in Nat
    BY DEF Types, ConnTypeOK, Sizes
  <2>3. scale' \in [due : {"none", "active", "ready"}, applied : BOOLEAN, step : Undefined..3,
                    from : Undefined..2, timer : BOOLEAN, target : Nat]
    BY <2>1 DEF Types, ScaleTypeOK
  <2> HIDE DEF Due
  <2>4. screen' \in [canvas : Nat, window : Nat, resizing : BOOLEAN, settled : BOOLEAN]
    BY <2>1, <2>2 DEF Types, ScaleTypeOK
  <2> QED
    BY <2>3, <2>4 DEF ScaleTypeOK
<1>4. UpTypes(up')
  <2>1. UpTypes(up)
    BY DEF Types, UpTypes
  <2> QED
    BY <1>1, <2>1, FeedQueues, AnswerTypes, UpMore
<1>5. down' \in Seq(DownPDUs)
  BY <1>1, FeedQueues, TakeFacts
<1> QED
  BY <1>1, <1>2, <1>3, <1>4, <1>5, FeedClient, FeedQueues DEF Types, UpTypes, Begun


-----------------------------------------------------------------------------
(* The steps of the page and of the host.                                  *)

ScaleTypes  == [due : {"none", "active", "ready"}, applied : BOOLEAN, step : Undefined..3,
                from : Undefined..2, timer : BOOLEAN, target : Nat]
ScreenTypes == [canvas : Nat, window : Nat, resizing : BOOLEAN, settled : BOOLEAN]
DeskTypes   == [size : Sizes, pending : Sizes \cup {NoSize}, sent : BOOLEAN]

\* A layout is sent, if at all, from a client that can resize.
Sends(size) ==
  \/ UNCHANGED <<desk, up>>
  \/ /\ canResize /\ desk' = [size |-> size, pending |-> size, sent |-> TRUE]
     /\ up' = up \o <<Up("layout", 0, size)>>

LEMMA SendsTypes ==
  ASSUME Types, NEW size \in Sizes, Sends(size)
  PROVE  desk' \in DeskTypes /\ UpTypes(up')
<1>1. desk \in DeskTypes /\ UpTypes(up)
  BY DEF Types, ConnTypeOK, DeskTypes, UpTypes
<1>2. UpTypes(<<Up("layout", 0, size)>>)
  <2>1. Up("layout", 0, size) \in UpPDUs /\ Up("layout", 0, size).size = size
    BY DEF Up, UpPDUs, UpKinds
  <2> QED
    BY <2>1, UpOne
<1>3. [size |-> size, pending |-> size, sent |-> TRUE] \in DeskTypes
  BY DEF DeskTypes
<1> QED
  BY <1>1, <1>2, <1>3, UpMore DEF Sends

LEMMA WantedType == WantedScale \in Nat /\ 0 < Threshold /\ Threshold \in Nat /\ Nudge \in Nat /\ Nudge > 0
BY ScaleAssumption DEF WantedScale

\* What a step of the scale does.
Stepped(s, n) ==
  /\ scale' \in ScaleTypes /\ scale'.step = n /\ scale'.due = s.due
  /\ scale'.applied = s.applied /\ scale'.target = s.target
  /\ scale'.from = (IF n > 2 \/ ~canResize THEN s.from ELSE n)
  /\ StepSize(s.target, n) \in Sizes /\ Sends(StepSize(s.target, n))
  /\ n <= 2 /\ canResize => desk'.size = StepSize(s.target, n)
  /\ screen' \in ScreenTypes
  /\ screen' = IF n > 0 /\ desk' # desk
               THEN [screen EXCEPT !.canvas = StepSize(s.target, n).res] ELSE screen

LEMMA RunsStep ==
  ASSUME Types, NEW s \in ScaleTypes, NEW n \in 0..3, RunScaleStep(s, n)
  PROVE  Stepped(s, n)
<1> USE DEF Stepped
<1>1. StepSize(s.target, n) \in Sizes
  BY WantedType DEF StepSize, Sizes, ScaleTypes
<1>2. screen \in ScreenTypes
  BY DEF Types, ScaleTypeOK, ScreenTypes
<1>3. CASE n > 2 \/ ~canResize
  <2>1. scale' = [s EXCEPT !.step = n] /\ UNCHANGED <<desk, up, screen>>
    BY <1>3 DEF RunScaleStep
  <2>2. n \in Undefined..3
    BY DEF Undefined
  <2> QED
    BY <1>1, <1>2, <1>3, <2>1, <2>2 DEF Sends, ScaleTypes
<1>4. CASE ~(n > 2 \/ ~canResize)
  <2>1. /\ scale' = [s EXCEPT !.step = n, !.from = n, !.timer = TRUE]
        /\ Layout(StepSize(s.target, n), n > 0) /\ canResize
    BY <1>4 DEF RunScaleStep
  <2>2. n \in Undefined..3 /\ n \in Undefined..2
    BY <1>4 DEF Undefined
  <2>3. /\ scale' \in ScaleTypes /\ scale'.step = n /\ scale'.due = s.due /\ scale'.from = n
        /\ scale'.applied = s.applied /\ scale'.target = s.target
    BY <2>1, <2>2 DEF ScaleTypes
  <2> DEFINE z == StepSize(s.target, n)
  <2>4. z.res \in Nat /\ [screen EXCEPT !.canvas = z.res] \in ScreenTypes
    BY <1>1, <1>2 DEF Sizes, ScreenTypes
  <2> HIDE DEF z
  <2>5. CASE WorthSending(z)
    <3>1. /\ desk' = [size |-> z, pending |-> z, sent |-> TRUE] /\ up' = up \o <<Up("layout", 0, z)>>
          /\ screen' = IF n > 0 THEN [screen EXCEPT !.canvas = z.res] ELSE screen
      BY <2>1, <2>5 DEF Layout, SendMonitorLayout, Send, z
    <3>2. desk' # desk /\ desk'.size = z
      BY <2>5, <3>1 DEF WorthSending
    <3> QED
      BY <1>1, <1>2, <1>4, <2>1, <2>3, <2>4, <3>1, <3>2 DEF Sends, z
  <2>6. CASE ~WorthSending(z)
    <3>1. UNCHANGED <<desk, up, screen>> /\ desk.size = z
      BY <2>1, <2>6 DEF Layout, SendMonitorLayout, WorthSending, z
    <3> QED
      BY <1>1, <1>2, <1>4, <2>3, <3>1 DEF Sends, z
  <2> QED
    BY <2>5, <2>6
<1> QED
  BY <1>3, <1>4


\* A layout of the page, and what of the scale it changes.
Stays(s) == scale' = s /\ UNCHANGED <<desk, up, screen>>

LEMMA Advances ==
  ASSUME Types, NEW s \in ScaleTypes, AdvanceScaleStep(s)
  PROVE  \/ Stays(s)
         \/ /\ s.step \in 0..2 /\ s.from = s.step
            /\ Stepped([s EXCEPT !.from = Undefined, !.timer = FALSE], s.step + 1)
<1>1. CASE s.step \notin 0..2 \/ s.from # s.step
  BY <1>1 DEF AdvanceScaleStep, Stays
<1>2. CASE s.step \in 0..2 /\ s.from = s.step
  <2>1. [s EXCEPT !.from = Undefined, !.timer = FALSE] \in ScaleTypes /\ s.step + 1 \in 0..3
    <3>1. Undefined \in Undefined..2
      BY DEF Undefined
    <3>2. s.step + 1 \in 0..3
      BY <1>2
    <3> QED
      BY <3>1, <3>2 DEF ScaleTypes
  <2>2. RunScaleStep([s EXCEPT !.from = Undefined, !.timer = FALSE], s.step + 1)
    BY <1>2 DEF AdvanceScaleStep
  <2> QED
    BY <1>2, <2>1, <2>2, RunsStep
<1> QED
  BY <1>1, <1>2

\* The first layout over the graphics pipeline.
FirstLayout(s) ==
  /\ canResize /\ May("gfx") /\ ~s.applied /\ scale' = [s EXCEPT !.applied = TRUE] /\ screen' = screen
  /\ desk'.size = [res |-> screen.canvas, scale |-> WantedScale]
  /\ Sends([res |-> screen.canvas, scale |-> WantedScale])

LEMMA Applies ==
  ASSUME Types, NEW s \in ScaleTypes, ApplyInitialScale(s)
  PROVE  \/ Stays(s) /\ (s.applied \/ ~canResize)
         \/ FirstLayout(s)
         \/ /\ canResize /\ ~May("scales") /\ ~s.applied
            /\ Stays([s EXCEPT !.applied = TRUE])
         \/ /\ canResize /\ May("scales") /\ ~May("gfx") /\ ~s.applied
            /\ Stepped([s EXCEPT !.target = screen.canvas, !.applied = TRUE], 0)
<1>1. CASE s.applied \/ ~canResize
  BY <1>1 DEF ApplyInitialScale, Stays
<1>2. CASE ~s.applied /\ canResize /\ May("gfx")
  <2> DEFINE z == [res |-> screen.canvas, scale |-> WantedScale]
  <2>1. scale' = [s EXCEPT !.applied = TRUE] /\ SendMonitorLayout(z) /\ screen' = screen
    BY <1>2 DEF ApplyInitialScale, Layout
  <2> HIDE DEF z
  <2>2. desk'.size = z /\ Sends(z)
    BY <1>2, <2>1 DEF SendMonitorLayout, Send, Sends, WorthSending
  <2> QED
    BY <1>2, <2>1, <2>2 DEF FirstLayout, z
<1>3. CASE ~s.applied /\ canResize /\ ~May("gfx") /\ ~May("scales")
  BY <1>3 DEF ApplyInitialScale, Stays
<1>4. CASE ~s.applied /\ canResize /\ ~May("gfx") /\ May("scales")
  <2>1. screen.canvas \in Nat
    BY DEF Types, ScaleTypeOK
  <2>2. [s EXCEPT !.target = screen.canvas, !.applied = TRUE] \in ScaleTypes
    BY <2>1 DEF ScaleTypes
  <2>3. RunScaleStep([s EXCEPT !.target = screen.canvas, !.applied = TRUE], 0)
    BY <1>4 DEF ApplyInitialScale, ScaleSteps
  <2> QED
    BY <1>4, <2>2, <2>3, RunsStep
<1> QED
  BY <1>1, <1>2, <1>3, <1>4

\* A layout that follows the window.
LEMMA Resizes ==
  ASSUME Types, ResizeTimer
  PROVE  /\ [res |-> screen.window, scale |-> WantedScale] \in Sizes
         /\ Sends([res |-> screen.window, scale |-> WantedScale])
         /\ \/ /\ UNCHANGED <<desk, up>> /\ screen' = [screen EXCEPT !.resizing = FALSE]
               /\ \/ ~canResize \/ ~screen.settled \/ Near(screen.window, screen.canvas)
                  \/ desk.size.res = screen.window
            \/ /\ desk' # desk /\ canResize
               /\ desk'.size = [res |-> screen.window, scale |-> WantedScale]
               /\ screen' = [screen EXCEPT !.resizing = FALSE, !.canvas = screen.window]
<1> DEFINE z == [res |-> screen.window, scale |-> WantedScale]
<1>1. z \in Sizes
  BY WantedType DEF Types, ScaleTypeOK, Sizes
<1>2. CASE ~canResize \/ ~screen.settled \/ Near(screen.window, screen.canvas)
  <2>1. screen' = [screen EXCEPT !.resizing = FALSE] /\ UNCHANGED <<desk, up>>
    BY <1>2 DEF ResizeTimer
  <2> QED
    BY <1>1, <1>2, <2>1 DEF Sends
<1>3. CASE ~(~canResize \/ ~screen.settled \/ Near(screen.window, screen.canvas))
  <2>1. /\ SendMonitorLayout(z) /\ canResize
        /\ screen' = IF WorthSending(z) THEN [screen EXCEPT !.resizing = FALSE, !.canvas = screen.window]
                     ELSE [screen EXCEPT !.resizing = FALSE]
    BY <1>3 DEF ResizeTimer
  <2> HIDE DEF z
  <2>2. CASE WorthSending(z)
    <3>1. desk' = [size |-> z, pending |-> z, sent |-> TRUE] /\ up' = up \o <<Up("layout", 0, z)>>
      BY <2>1, <2>2 DEF SendMonitorLayout, Send
    <3>2. desk' # desk /\ desk'.size = z
      BY <2>2, <3>1 DEF WorthSending
    <3> QED
      BY <1>1, <2>1, <2>2, <3>1, <3>2 DEF Sends, z
  <2>3. CASE ~WorthSending(z)
    <3>1. UNCHANGED <<desk, up>> /\ desk.size = z
      BY <2>1, <2>3 DEF SendMonitorLayout, WorthSending
    <3>2. z.res = screen.window
      BY DEF z
    <3> QED
      BY <1>1, <2>1, <2>3, <3>1, <3>2 DEF Sends, z
  <2> QED
    BY <2>2, <2>3
<1> QED
  BY <1>2, <1>3

\* What a step of the page may send.
LEMMA PageSends ==
  ASSUME Types, Callback \/ ScaleTimer \/ ResizeTimer
  PROVE  /\ ConnectionRests
         /\ \E size \in Sizes : size.scale = WantedScale /\ Sends(size)
         /\ scale' \in ScaleTypes /\ screen' \in ScreenTypes
<1>1. scale \in ScaleTypes /\ screen \in ScreenTypes
  BY DEF Types, ScaleTypeOK, ScaleTypes, ScreenTypes
<1>2. ConnectionRests
  BY DEF Callback, ScaleTimer, ResizeTimer
<1>3. [res |-> 0, scale |-> WantedScale] \in Sizes
  BY WantedType DEF Sizes
<1>4. ASSUME NEW s \in ScaleTypes, Stays(s)
      PROVE  /\ \E size \in Sizes : size.scale = WantedScale /\ Sends(size)
             /\ scale' \in ScaleTypes /\ screen' \in ScreenTypes
  <2>1. Sends([res |-> 0, scale |-> WantedScale])
    BY <1>4 DEF Stays, Sends
  <2> QED
    BY <1>1, <1>3, <1>4, <2>1 DEF Stays
<1>5. ASSUME NEW s, NEW n, Stepped(s, n)
      PROVE  /\ \E size \in Sizes : size.scale = WantedScale /\ Sends(size)
             /\ scale' \in ScaleTypes /\ screen' \in ScreenTypes
  <2>1. StepSize(s.target, n).scale = WantedScale
    BY DEF StepSize
  <2> QED
    BY <1>5, <2>1 DEF Stepped
<1>6. ASSUME NEW s \in ScaleTypes, AdvanceScaleStep(s)
      PROVE  /\ \E size \in Sizes : size.scale = WantedScale /\ Sends(size)
             /\ scale' \in ScaleTypes /\ screen' \in ScreenTypes
  BY <1>4, <1>5, <1>6, Advances
<1>7. ASSUME NEW s \in ScaleTypes, ApplyInitialScale(s)
      PROVE  /\ \E size \in Sizes : size.scale = WantedScale /\ Sends(size)
             /\ scale' \in ScaleTypes /\ screen' \in ScreenTypes
  <2>1. [s EXCEPT !.applied = TRUE] \in ScaleTypes
    BY DEF ScaleTypes
  <2>2. CASE FirstLayout(s)
    <3>1. [res |-> screen.canvas, scale |-> WantedScale] \in Sizes
      BY <1>1, WantedType DEF Sizes, ScreenTypes
    <3> QED
      BY <1>1, <2>1, <2>2, <3>1 DEF FirstLayout
  <2> QED
    BY <1>4, <1>5, <1>7, <2>1, <2>2, Applies
<1>8. CASE Callback
  <2>1. [scale EXCEPT !.due = "none"] \in ScaleTypes
    BY <1>1 DEF ScaleTypes
  <2>2. AdvanceScaleStep([scale EXCEPT !.due = "none"]) \/ ApplyInitialScale([scale EXCEPT !.due = "none"])
    BY <1>8 DEF Callback
  <2> QED
    BY <1>2, <1>6, <1>7, <2>1, <2>2
<1>9. CASE ScaleTimer
  <2>1. [scale EXCEPT !.timer = FALSE] \in ScaleTypes
    BY <1>1 DEF ScaleTypes
  <2>2. AdvanceScaleStep([scale EXCEPT !.timer = FALSE])
    BY <1>9 DEF ScaleTimer
  <2> QED
    BY <1>2, <1>6, <2>1, <2>2
<1>10. CASE ResizeTimer
  <2>1. scale' = scale
    BY <1>10 DEF ResizeTimer
  <2>2. screen' \in ScreenTypes
    BY <1>1, <1>10, Resizes DEF ScreenTypes
  <2> QED
    BY <1>1, <1>2, <1>10, <2>1, <2>2, Resizes
<1> QED
  BY <1>8, <1>9, <1>10


HostTypes == [ph : {"mcs", "licence", "caps", "demanded", "finalizing", "active", "gone"},
              share : Nat, size : Sizes, drawn : Nat, probes : Nat, replies : Nat,
              display : {"none", "open", "ready"}]
EnvTypes  == [may : SUBSET Hazards, shares : Nat, draws : Nat, resizes : Nat, size : Sizes]

LEMMA PageTypesKept ==
  ASSUME Types, PageNext
  PROVE  Types'
<1> DEFINE Ok == /\ env' \in EnvTypes /\ desk' \in DeskTypes /\ UpTypes(up')
                 /\ scale' \in ScaleTypes /\ screen' \in ScreenTypes
                 /\ UNCHANGED <<st, join, fin, share, again, display, page, down, host>>
<1>0. Ok => Types'
  <2>1. Ok => ConnTypeOK'
    BY DEF Types, ConnTypeOK, EnvTypes, DeskTypes
  <2>2. Ok => ScaleTypeOK'
    BY DEF ScaleTypeOK, ScaleTypes, ScreenTypes
  <2> QED
    BY <2>1, <2>2 DEF Types, UpTypes, Begun
<1>4. /\ env \in EnvTypes /\ desk \in DeskTypes /\ UpTypes(up)
      /\ scale \in ScaleTypes /\ screen \in ScreenTypes
  BY DEF Types, ConnTypeOK, ScaleTypeOK, EnvTypes, DeskTypes, ScaleTypes, ScreenTypes, UpTypes
<1>1. ASSUME Callback \/ ScaleTimer \/ ResizeTimer PROVE Ok
  <2>1. ConnectionRests /\ scale' \in ScaleTypes /\ screen' \in ScreenTypes
    BY <1>1, PageSends
  <2>2. PICK size \in Sizes : Sends(size)
    BY <1>1, PageSends
  <2>3. desk' \in DeskTypes /\ UpTypes(up')
    BY <2>2, SendsTypes
  <2> QED
    BY <1>4, <2>1, <2>3 DEF ConnectionRests
<1>2. ASSUME Settles PROVE Ok
  <2>1. [screen EXCEPT !.settled = TRUE] \in ScreenTypes
    BY <1>4 DEF ScreenTypes
  <2> QED
    BY <1>2, <1>4, <2>1 DEF Settles, connVars, clientVars
<1>3. ASSUME NEW res \in Windows, ViewportChanges(res) PROVE Ok
  <2>1. /\ env.resizes > 0 /\ env' = [env EXCEPT !.resizes = @ - 1]
        /\ screen' = [screen EXCEPT !.window = res, !.resizing = TRUE]
        /\ UNCHANGED <<clientVars, up, down, host, scale>>
    BY <1>3 DEF ViewportChanges
  <2>2. res \in Nat
    BY ScaleAssumption
  <2>3. [screen EXCEPT !.window = res, !.resizing = TRUE] \in ScreenTypes
    BY <1>4, <2>2 DEF ScreenTypes
  <2>4. [env EXCEPT !.resizes = @ - 1] \in EnvTypes
    <3>1. env.resizes - 1 \in Nat
      BY <1>4, <2>1 DEF EnvTypes
    <3> QED
      BY <1>4, <3>1 DEF EnvTypes
  <2> QED
    BY <1>4, <2>1, <2>3, <2>4 DEF clientVars
<1> HIDE DEF Ok
<1> QED
  BY <1>0, <1>1, <1>2, <1>3 DEF PageNext

\* What a host that takes a PDU is left with.
LEMMA HostTook ==
  ASSUME Types, NEW k, HostTakes(k)
  PROVE  /\ up # <<>> /\ up' = Tail(up) /\ UNCHANGED clientVars /\ UpTypes(up')
         /\ Head(up) = up[1] /\ Head(up) \in UpPDUs /\ up[1].kind = k /\ 1 \in 1..Len(up)
         /\ Len(up) \in Nat \ {0} /\ Len(up') = Len(up) - 1
         /\ \A i \in 1..Len(up') : i + 1 \in 1..Len(up) /\ up'[i] = up[i + 1]
<1>1. up # <<>> /\ up' = Tail(up) /\ UNCHANGED clientVars /\ Head(up).kind = k
  BY DEF HostTakes
<1>2. UpTypes(up)
  BY DEF Types, UpTypes
<1>3. /\ Head(up) = up[1] /\ Head(up) \in UpPDUs /\ Len(up) \in Nat \ {0}
      /\ Len(up') = Len(up) - 1
      /\ \A i \in 1..Len(up') : i + 1 \in 1..Len(up) /\ up'[i] = up[i + 1]
  BY <1>1, Popped DEF Types
<1> QED
  BY <1>1, <1>2, <1>3, UpLess

Finals == [i \in 1..4 |-> Down(<<"sync", "coop", "granted", "fontmap">>[i], 0)]

LEMMA PlainDown ==
  ASSUME NEW k \in DownKinds, NEW s \in Nat
  PROVE  <<Down(k, s)>> \in Seq(DownPDUs) /\ Down(k, s).kind = k /\ Down(k, s).share = s
BY DEF Down, DownPDUs

LEMMA FinalsTypes ==
  /\ Finals \in Seq(DownPDUs) /\ Len(Finals) = 4
  /\ Finals[1] = Down("sync", 0) /\ Finals[2] = Down("coop", 0)
  /\ Finals[3] = Down("granted", 0) /\ Finals[4] = Down("fontmap", 0)
<1>1. \A i \in 1..4 : Down(<<"sync", "coop", "granted", "fontmap">>[i], 0) \in DownPDUs
  <2>1. \A i \in 1..4 : <<"sync", "coop", "granted", "fontmap">>[i] \in Final
    BY DEF Final
  <2> QED
    BY <2>1 DEF Down, DownPDUs, DownKinds
<1>2. Finals \in Seq(DownPDUs) /\ Len(Finals) = 4
  BY <1>1 DEF Finals
<1>3. \A i \in 1..4 : Finals[i] = Down(<<"sync", "coop", "granted", "fontmap">>[i], 0)
  BY DEF Finals
<1> QED
  BY <1>2, <1>3

\* What the host emits, one step at a time.
LEMMA EmitTypes ==
  ASSUME Types, NEW ms \in Seq(DownPDUs), Emit(ms)
  PROVE  down' \in Seq(DownPDUs)
BY Joined DEF Types, Emit

LEMMA DrawnNat ==
  ASSUME Types, HostDraws
  PROVE  LastFinalized \in Nat
<1>1. host.share \in Nat /\ host.share > 0
  BY DEF Types, ConnTypeOK, Begun, HostDraws
<1> QED
  BY <1>1 DEF LastFinalized

LEMMA HostBegun ==
  ASSUME Types, HostNext
  PROVE  Begun'
<1>1. host.share \in Nat /\ host.share + 1 > 0
  BY DEF Types, ConnTypeOK
<1>2. CASE HostReceives
  BY <1>2 DEF Types, Begun, ConnTypeOK, HostReceives, HostReplies, HostClientInfo, HostConfirmed,
              HostFinalized, HostLayout, HostProbed
<1>3. CASE ~HostReceives
  BY <1>1, <1>3 DEF Types, Begun, ConnTypeOK, HostNext, HostLicenses, HostDemands, HostDeactivates, HostRedemands,
                    HostDraws, HostProbes, HostDisplay, HostEnds
<1> QED
  BY <1>2, <1>3

LEMMA HostTypesKept ==
  ASSUME Types, HostNext, UNCHANGED pageVars
  PROVE  Types'
<1> DEFINE Ok == /\ env' \in EnvTypes /\ host' \in HostTypes /\ UNCHANGED clientVars
                 /\ UpTypes(up') /\ down' \in Seq(DownPDUs)
<1>0. Ok => Types'
  BY HostBegun DEF Types, ConnTypeOK, ScaleTypeOK, pageVars, clientVars, EnvTypes, HostTypes, UpTypes
<1>1. host \in HostTypes /\ env \in EnvTypes /\ UpTypes(up) /\ down \in Seq(DownPDUs)
  BY DEF Types, ConnTypeOK, EnvTypes, HostTypes, UpTypes
<1>2. /\ [host EXCEPT !.drawn = @ + 1] \in HostTypes /\ [host EXCEPT !.probes = @ + 1] \in HostTypes
      /\ [host EXCEPT !.replies = @ + 1] \in HostTypes
      /\ [host EXCEPT !.ph = "demanded", !.share = @ + 1] \in HostTypes
      /\ \A p \in {"licence", "caps", "finalizing", "active", "gone"} : [host EXCEPT !.ph = p] \in HostTypes
      /\ \A d \in {"none", "open", "ready"} : [host EXCEPT !.display = d] \in HostTypes
  <2>1. [host EXCEPT !.ph = "demanded", !.share = @ + 1] \in HostTypes
    <3>1. host.share + 1 \in Nat
      BY <1>1 DEF HostTypes
    <3> QED
      BY <1>1, <3>1 DEF HostTypes
  <2>2. \A p \in {"licence", "caps", "finalizing", "active", "gone"} : [host EXCEPT !.ph = p] \in HostTypes
    BY <1>1 DEF HostTypes
  <2>3. \A d \in {"none", "open", "ready"} : [host EXCEPT !.display = d] \in HostTypes
    BY <1>1 DEF HostTypes
  <2>4. /\ [host EXCEPT !.drawn = @ + 1] \in HostTypes /\ [host EXCEPT !.probes = @ + 1] \in HostTypes
        /\ [host EXCEPT !.replies = @ + 1] \in HostTypes
    BY <1>1 DEF HostTypes
  <2> QED
    BY <2>1, <2>2, <2>3, <2>4
<1>3. /\ env.shares > 0 => [env EXCEPT !.shares = @ - 1] \in EnvTypes
      /\ env.draws > 0 => [env EXCEPT !.draws = @ - 1] \in EnvTypes
      /\ [env EXCEPT !.may = @ \ {"earlyDeactivate"}] \in EnvTypes
  BY <1>1 DEF EnvTypes
<1>4. host.share \in Nat /\ host.share + 1 \in Nat
  BY <1>1 DEF HostTypes
<1>5. <<>> \in Seq(DownPDUs) /\ \A k \in DownKinds, s \in Nat : <<Down(k, s)>> \in Seq(DownPDUs)
  BY PlainDown
<1>6. ASSUME NEW ms \in Seq(DownPDUs), Emit(ms) PROVE down' \in Seq(DownPDUs)
  BY <1>6, EmitTypes
<1> HIDE DEF Ok
<1>7. ASSUME HostReceives PROVE Ok
  <2> USE DEF Ok
  <2>1. ASSUME NEW k, NEW r \in Seq(DownPDUs), HostReplies(k, r) PROVE Ok
    BY <1>1, <1>6, <2>1, HostTook DEF HostReplies, clientVars
  <2>2. ASSUME HostClientInfo \/ HostConfirmed \/ HostProbed PROVE Ok
    <3>1. \E k : HostTakes(k)
      BY <2>2 DEF HostClientInfo, HostConfirmed, HostProbed
    <3>2. env' = env /\ down' = down /\ host' \in HostTypes
      BY <1>1, <1>2, <2>2 DEF HostClientInfo, HostConfirmed, HostProbed
    <3> QED
      BY <1>1, <3>1, <3>2, HostTook DEF clientVars
  <2>3. ASSUME HostFinalized PROVE Ok
    <3>1. HostTakes("finalize") /\ env' = env
      BY <2>3 DEF HostFinalized
    <3>2. CASE host.ph = "finalizing" /\ Head(up).share = host.share
      <4>1. host' = [host EXCEPT !.ph = "active"] /\ Emit(Finals)
        BY <2>3, <3>2 DEF HostFinalized, Finals
      <4> QED
        BY <1>1, <1>2, <1>6, <3>1, <4>1, FinalsTypes, HostTook DEF clientVars
    <3>3. CASE ~(host.ph = "finalizing" /\ Head(up).share = host.share)
      <4>1. UNCHANGED <<host, down>>
        BY <2>3, <3>3 DEF HostFinalized
      <4> QED
        BY <1>1, <3>1, <4>1, HostTook DEF clientVars
    <3> QED
      BY <3>2, <3>3
  <2>4. ASSUME HostLayout PROVE Ok
    <3>1. HostTakes("layout") /\ env' = env
      BY <2>4 DEF HostLayout
    <3>2. Head(up).size \in Sizes
      BY <3>1, HostTook DEF Types, IsLayout
    <3>3. PICK a \in BOOLEAN, re \in BOOLEAN :
            /\ host' = [host EXCEPT !.size = IF a THEN Head(up).size ELSE @, !.ph = IF re THEN "caps" ELSE @]
            /\ Emit(IF re THEN <<Down("deactivate-all", 0)>> ELSE <<>>)
      <4> DEFINE a == host.display # "none" /\ host.ph # "gone" /\ ~(May("ignoresScale") /\ Head(up).size.res = host.size.res)
                 re == a /\ May("reactivates") /\ host.ph = "active" /\ env.shares > 0
      <4>1. /\ host' = [host EXCEPT !.size = IF a THEN Head(up).size ELSE @, !.ph = IF re THEN "caps" ELSE @]
            /\ Emit(IF re THEN <<Down("deactivate-all", 0)>> ELSE <<>>)
        BY <2>4 DEF HostLayout
      <4>2. a \in BOOLEAN /\ re \in BOOLEAN
        OBVIOUS
      <4> HIDE DEF a, re
      <4> QED
        BY <4>1, <4>2
    <3>4. host' \in HostTypes
      BY <1>1, <3>2, <3>3 DEF HostTypes
    <3>5. (IF re THEN <<Down("deactivate-all", 0)>> ELSE <<>>) \in Seq(DownPDUs)
      BY <1>5 DEF DownKinds
    <3> QED
      BY <1>1, <1>6, <3>1, <3>3, <3>4, <3>5, HostTook DEF clientVars
  <2>5. HostReplies("connect-initial", <<Down("connect-response", 0)>>) => Ok
    BY <1>5, <2>1 DEF DownKinds
  <2>6. HostReplies("attach-user", <<Down("attach-confirm", 0)>>) => Ok
    BY <1>5, <2>1 DEF DownKinds
  <2>7. HostReplies("join", <<Down("join-confirm", 0)>>) => Ok
    BY <1>5, <2>1 DEF DownKinds
  <2>8. HostReplies("erect-domain", <<>>) \/ HostReplies("input", <<>>) => Ok
    BY <1>5, <2>1
  <2> HIDE DEF Ok
  <2> QED
    BY <1>7, <2>2, <2>3, <2>4, <2>5, <2>6, <2>7, <2>8 DEF HostReceives
<1> USE DEF Ok
<1>8. ASSUME HostLicenses PROVE Ok
  <2>1. (IF May("noLicence") THEN <<>> ELSE <<Down("licence", 0)>>) \in Seq(DownPDUs)
    BY <1>5 DEF DownKinds
  <2> QED
    BY <1>1, <1>2, <1>6, <1>8, <2>1 DEF HostLicenses, HostSends, clientVars
<1>9. ASSUME HostDemands \/ HostRedemands PROVE Ok
  <2>1. <<Down("demand-active", host'.share)>> \in Seq(DownPDUs)
    <3>1. host'.share = host.share + 1
      BY <1>1, <1>9 DEF HostDemands, HostRedemands, HostTypes
    <3> QED
      BY <1>4, <1>5, <3>1 DEF DownKinds
  <2> QED
    BY <1>1, <1>2, <1>3, <1>6, <1>9, <2>1 DEF HostDemands, HostRedemands, HostSends, clientVars
<1>10. ASSUME HostDeactivates PROVE Ok
  <2>1. <<Down("deactivate-all", 0)>> \in Seq(DownPDUs)
    BY <1>5 DEF DownKinds
  <2> QED
    BY <1>1, <1>2, <1>3, <1>6, <1>10, <2>1 DEF HostDeactivates, HostSends, clientVars
<1>11. ASSUME HostDraws PROVE Ok
  <2>1. <<Down("output", LastFinalized)>> \in Seq(DownPDUs)
    BY <1>4, <1>5, <1>11, DrawnNat DEF DownKinds
  <2> QED
    BY <1>1, <1>2, <1>3, <1>6, <1>11, <2>1 DEF HostDraws, HostSends, clientVars
<1>12. ASSUME HostProbes PROVE Ok
  <2>1. <<Down("probe", 0)>> \in Seq(DownPDUs)
    BY <1>5 DEF DownKinds
  <2> QED
    BY <1>1, <1>2, <1>6, <1>12, <2>1 DEF HostProbes, HostSends, clientVars
<1>13. ASSUME HostDisplay PROVE Ok
  <2>1. \A k \in {"display-create", "display-caps", "display-close"} : <<Down(k, 0)>> \in Seq(DownPDUs)
    BY <1>5 DEF DownKinds
  <2> QED
    BY <1>1, <1>2, <1>3, <1>6, <1>13, <2>1 DEF HostDisplay, HostSends, clientVars
<1>14. ASSUME HostEnds PROVE Ok
  <2>1. <<Down("ultimatum", 0)>> \in Seq(DownPDUs) /\ <<Down("error-info", 0), Down("ultimatum", 0)>> \in Seq(DownPDUs)
    BY TwoOf, <1>5 DEF DownKinds, DownPDUs, Down
  <2> QED
    BY <1>1, <1>2, <1>6, <1>14, <2>1 DEF HostEnds, HostSends, clientVars
<1> HIDE DEF Ok
<1> QED
  BY <1>0, <1>7, <1>8, <1>9, <1>10, <1>11, <1>12, <1>13, <1>14 DEF HostNext


LEMMA InputTypes ==
  ASSUME Types, SendInput, UNCHANGED pageVars
  PROVE  Types'
<1>1. UpTypes(up) /\ share \in Nat
  BY DEF Types, ConnTypeOK, UpTypes
<1>2. UpTypes(<<Up("input", share, NoSize)>>)
  <2>1. Up("input", share, NoSize) \in UpPDUs /\ ~IsLayout(Up("input", share, NoSize))
    BY <1>1, PlainPDU DEF UpKinds
  <2> QED
    BY <2>1, UpOne
<1>3. UpTypes(up')
  BY <1>1, <1>2, UpMore DEF SendInput, Send
<1> QED
  <2>1. ConnTypeOK' /\ (st' = "join" => join' # <<>>) /\ down' \in Seq(DownPDUs)
    BY DEF SendInput, clientVars, Types, ConnTypeOK
  <2>2. ScaleTypeOK'
    BY DEF pageVars, Types, ScaleTypeOK
  <2> QED
    BY <1>3, <2>1, <2>2 DEF Types, UpTypes, Begun, SendInput

LEMMA TypesNext ==
  ASSUME Types, [Next]_vars
  PROVE  Types'
<1>1. CASE UNCHANGED vars
  <2>1. UNCHANGED <<env, st, join, fin, share, desk, again, display, page, up, down, host, scale, screen>>
    BY <1>1 DEF vars, connVars, clientVars, pageVars
  <2>2. ConnTypeOK' /\ (st' = "join" => join' # <<>>)
    BY <2>1 DEF Types, ConnTypeOK
  <2>3. ScaleTypeOK'
    BY <2>1 DEF Types, ScaleTypeOK
  <2> QED
    BY <2>1, <2>2, <2>3 DEF Types, Begun
<1>2. CASE Next
  BY <1>1, <1>2, FedTypes, PageTypesKept, HostTypesKept, InputTypes DEF Next, Rest
<1> QED
  BY <1>1, <1>2

-----------------------------------------------------------------------------
(* Modes and runs of them.                                                 *)

LEMMA AfterModes ==
  ASSUME NEW m \in Modes, NEW p \in DownPDUs, Fits(m, p)
  PROVE  /\ After(m, p) \in Modes /\ After(m, p).st \in Slow \cup {"closed"}
         /\ m.share <= After(m, p).share
<1>1. /\ m.st \in States /\ m.fin \subseteq Final /\ m.again \in BOOLEAN /\ m.share \in Nat
      /\ p.share \in Nat
  BY DEF Modes, DownPDUs
<1>2. CASE p.kind = "demand-active"
  <2>1. After(m, p) = Demanded(m, p.share) /\ p.share = m.share + 1
    BY <1>2 DEF After, Fits, Final
  <2>2. [m EXCEPT !.st = "capabilities"] \in Modes
    BY DEF Modes, States
  <2>3. [st |-> IF m.st = "active" \/ m.again THEN "active" ELSE "finalization",
         fin |-> {}, again |-> FALSE, share |-> p.share] \in Modes
    BY <1>1 DEF Modes, States
  <2> QED
    BY <1>1, <2>1, <2>2, <2>3 DEF Demanded, Modes, Slow, Fits
<1>3. CASE p.kind \in Final
  <2>1. After(m, p) = Finalized(m, p.kind)
    BY <1>3 DEF After, Final
  <2>2. m.fin \cup {p.kind} \subseteq Final
    BY <1>1, <1>3
  <2>3. \A x \in {"active", "finalization"} :
          /\ [m EXCEPT !.fin = m.fin \cup {p.kind}, !.st = x] \in Modes
          /\ [m EXCEPT !.fin = m.fin \cup {p.kind}, !.st = x].share = m.share
          /\ [m EXCEPT !.fin = m.fin \cup {p.kind}, !.st = x].st = x
    BY <1>1, <2>2 DEF Modes, States
  <2>4. Finalized(m, p.kind) \in
          {m} \cup {[m EXCEPT !.fin = m.fin \cup {p.kind}, !.st = x] : x \in {"active", "finalization"}}
    BY DEF Finalized
  <2>5. m.share <= m.share /\ {"active", "finalization"} \subseteq Slow
    BY <1>1 DEF Slow
  <2>6. CASE Finalized(m, p.kind) = m
    BY <2>1, <2>5, <2>6 DEF Fits
  <2>7. CASE Finalized(m, p.kind) # m
    <3>1. PICK x \in {"active", "finalization"} :
            Finalized(m, p.kind) = [m EXCEPT !.fin = m.fin \cup {p.kind}, !.st = x]
      BY <2>4, <2>7
    <3> QED
      BY <2>1, <2>3, <2>5, <3>1
  <2> QED
    BY <2>6, <2>7
<1>4. CASE p.kind # "demand-active" /\ p.kind \notin Final
  <2>1. \A x \in {"capabilities", "closed"} : [m EXCEPT !.st = x] \in Modes /\ [m EXCEPT !.st = x].share = m.share
    BY <1>1 DEF Modes, States
  <2>2. [m EXCEPT !.st = "capabilities", !.again = TRUE] \in Modes
        /\ [m EXCEPT !.st = "capabilities", !.again = TRUE].share = m.share
    BY <1>1 DEF Modes, States
  <2> QED
    BY <1>1, <1>4, <2>1, <2>2 DEF After, Slow, Fits, Modes
<1> QED
  BY <1>2, <1>3, <1>4

\* The run of what follows the first PDU.
Later(s, q) == [i \in 1..Len(q) |-> s[i + 1]]

LEMMA RunTail ==
  ASSUME NEW q \in Seq(DownPDUs), q # <<>>, NEW m, NEW s, RunOf(s, q, m)
  PROVE  /\ Fits(m, Head(q)) /\ RunOf(Later(s, q), Tail(q), After(m, Head(q)))
         /\ Later(s, q)[Len(Tail(q)) + 1] = s[Len(q) + 1]
         /\ \A i \in 1..Len(Tail(q)) : Later(s, q)[i] = s[i + 1] /\ Tail(q)[i] = q[i + 1]
<1>1. /\ Len(q) \in Nat \ {0} /\ Head(q) = q[1] /\ Tail(q) \in Seq(DownPDUs) /\ Len(Tail(q)) = Len(q) - 1
      /\ \A i \in 1..Len(Tail(q)) : i + 1 \in 1..Len(q) /\ Tail(q)[i] = q[i + 1]
  BY Popped
<1> DEFINE n == Len(q)
           t == Later(s, q)
<1>2. /\ t \in [1..n -> Modes] /\ \A i \in 1..n : t[i] = s[i + 1]
  <2>1. \A i \in 1..n : i + 1 \in 1..(n + 1)
    BY <1>1
  <2> QED
    BY <2>1 DEF Later, RunOf
<1>3. Len(Tail(q)) + 1 = n /\ 1 \in 1..n /\ n \in 1..n
  BY <1>1
<1> HIDE DEF t
<1>4. t[1] = After(m, Head(q)) /\ t[n] = s[n + 1] /\ Fits(m, Head(q))
  BY <1>1, <1>2, <1>3 DEF RunOf
<1>5. \A i \in 1..Len(Tail(q)) : t[i + 1] = After(t[i], Tail(q)[i]) /\ Fits(t[i], Tail(q)[i])
  BY <1>1, <1>2, <1>3 DEF RunOf
<1>6. \A i \in 1..Len(Tail(q)) : t[i].share <= t[n].share
  BY <1>1, <1>2, <1>3, <1>4 DEF RunOf
<1>7. RunOf(t, Tail(q), After(m, Head(q)))
  BY <1>2, <1>3, <1>4, <1>5, <1>6 DEF RunOf
<1> QED
  BY <1>1, <1>2, <1>3, <1>4, <1>7 DEF t

\* One PDU more.
Longer(s, n, m) == [i \in 1..(n + 2) |-> IF i <= n + 1 THEN s[i] ELSE m]

LEMMA RunOne ==
  ASSUME NEW q \in Seq(DownPDUs), NEW m, NEW s, RunOf(s, q, m), NEW p \in DownPDUs,
         Fits(s[Len(q) + 1], p)
  PROVE  \E t \in [1..(Len(q \o <<p>>) + 1) -> Modes] :
           /\ RunOf(t, q \o <<p>>, m)
           /\ t[Len(q \o <<p>>) + 1] = After(s[Len(q) + 1], p)
           /\ \A i \in 1..Len(q) : t[i] = s[i] /\ (q \o <<p>>)[i] = q[i]
           /\ Len(q \o <<p>>) = Len(q) + 1 /\ Len(q) + 1 \in 1..Len(q \o <<p>>)
           /\ (q \o <<p>>)[Len(q) + 1] = p /\ t[Len(q) + 1] = s[Len(q) + 1]
<1> DEFINE n == Len(q)
           r == q \o <<p>>
           e == After(s[n + 1], p)
           t == Longer(s, n, e)
<1>1. n \in Nat /\ r \in Seq(DownPDUs) /\ Len(r) = n + 1 /\ r[n + 1] = p /\ \A i \in 1..n : r[i] = q[i]
  <2>1. <<p>> \in Seq(DownPDUs) /\ Len(<<p>>) = 1 /\ <<p>>[1] = p
    BY OneOf
  <2>2. 1 \in 1..Len(<<p>>)
    BY <2>1
  <2> HIDE DEF r
  <2>3. /\ r \in Seq(DownPDUs) /\ Len(r) = n + Len(<<p>>) /\ n \in Nat
        /\ \A i \in 1..n : r[i] = q[i]
        /\ \A i \in 1..Len(<<p>>) : r[n + i] = <<p>>[i]
    BY <2>1, Joined DEF r
  <2> QED
    BY <2>1, <2>2, <2>3
<1>2. s \in [1..(n + 1) -> Modes] /\ s[n + 1] \in Modes /\ n + 1 \in 1..(n + 1)
  BY <1>1 DEF RunOf
<1>3. e \in Modes /\ e.st \in Slow \cup {"closed"} /\ s[n + 1].share <= e.share
  BY <1>2, AfterModes
<1> HIDE DEF e
<1>4. t \in [1..(n + 2) -> Modes] /\ t[n + 2] = e /\ \A i \in 1..(n + 1) : t[i] = s[i]
  <2>1. \A i \in 1..(n + 2) : (IF i <= n + 1 THEN s[i] ELSE e) \in Modes
    BY <1>1, <1>2, <1>3
  <2>2. n + 2 \in 1..(n + 2) /\ ~(n + 2 <= n + 1) /\ \A i \in 1..(n + 1) : i \in 1..(n + 2) /\ i <= n + 1
    BY <1>1
  <2> QED
    BY <2>1, <2>2 DEF Longer
<1> HIDE DEF t, r
<1>5. \A i \in 1..(n + 1) : t[i + 1] = After(t[i], r[i]) /\ Fits(t[i], r[i])
  <2>1. \A i \in 1..n : i + 1 \in 1..(n + 1) /\ i \in 1..(n + 1)
    BY <1>1
  <2>2. \A i \in 1..n : t[i + 1] = After(t[i], r[i]) /\ Fits(t[i], r[i])
    BY <1>1, <1>4, <2>1 DEF RunOf
  <2>3. t[n + 1 + 1] = After(t[n + 1], r[n + 1]) /\ Fits(t[n + 1], r[n + 1])
    <3>1. n + 1 + 1 = n + 2
      BY <1>1
    <3> QED
      BY <1>1, <1>2, <1>4, <3>1 DEF e
  <2>4. \A i \in 1..(n + 1) : i \in 1..n \/ i = n + 1
    BY <1>1
  <2> QED
    BY <2>2, <2>3, <2>4
<1>6. \A i \in 1..(n + 1) : t[i].share <= t[n + 2].share
  <2>1. \A i \in 1..(n + 1) : s[i].share <= s[n + 1].share
    <3>1. \A i \in 1..n : s[i].share <= s[n + 1].share
      BY DEF RunOf
    <3>2. s[n + 1].share \in Nat /\ \A i \in 1..(n + 1) : i \in 1..n \/ i = n + 1
      BY <1>1, <1>2 DEF Modes
    <3> QED
      BY <3>1, <3>2
  <2>2. e.share \in Nat /\ \A i \in 1..(n + 1) : s[i].share \in Nat
    BY <1>2, <1>3 DEF Modes
  <2> QED
    BY <1>2, <1>3, <1>4, <2>1, <2>2
<1>7. t[1] = m /\ Len(r) + 1 = n + 2
  <2>1. 1 \in 1..(n + 1)
    BY <1>1
  <2> QED
    BY <1>1, <1>4, <2>1 DEF RunOf
<1>8. RunOf(t, r, m)
  BY <1>1, <1>3, <1>4, <1>5, <1>6, <1>7 DEF RunOf
<1>9. \A i \in 1..n : i \in 1..(n + 1)
  BY <1>1
<1> QED
  BY <1>1, <1>2, <1>4, <1>7, <1>8, <1>9 DEF e, r


-----------------------------------------------------------------------------
(* The client takes a PDU that fits it.                                    *)

LEMMA FedMode ==
  ASSUME Types, Feed, Fits(Mode, Head(down))
  PROVE  Mode' = After(Mode, Head(down))
<1> DEFINE p == Head(down)
<1>1. st \in Slow \cup {"closed"} /\ p.kind \notin {"connect-response", "attach-confirm", "join-confirm"}
  BY DEF Fits, Mode
<1>2. ~OnConnectResponse /\ ~OnAttachUserConfirm /\ ~OnChannelJoinConfirm
  BY <1>1 DEF OnConnectResponse, OnAttachUserConfirm, OnChannelJoinConfirm, Take
<1>3. CASE OnLicensing
  BY <1>3 DEF OnLicensing, Take, Mode, After, Final
<1> DEFINE C == [st |-> IF st = "active" \/ again THEN "active" ELSE "finalization",
                 fin |-> {}, again |-> FALSE, share |-> p.share]
<1>15. ASSUME p.kind = "demand-active"
       PROVE  After(Mode, p) = IF st \in {"capabilities", "active"} THEN C
                               ELSE IF st = "licensing" THEN [Mode EXCEPT !.st = "capabilities"] ELSE Mode
  <2>1. After(Mode, p) = Demanded(Mode, p.share)
    BY <1>15 DEF After, Final
  <2>2. Mode.st = st /\ Mode.again = again
    BY DEF Mode
  <2> QED
    BY <2>1, <2>2 DEF Demanded, Confirms
<1>4. CASE OnDemandActive
  <2>1. p.kind = "demand-active" /\ st # "active"
    BY <1>4 DEF OnDemandActive, Take
  <2>2. CASE st = "capabilities"
    <3>1. Mode' = C
      BY <1>4, <2>1, <2>2 DEF OnDemandActive, ConfirmActive, Mode
    <3> QED
      BY <1>15, <2>1, <2>2, <3>1
  <2>3. CASE st # "capabilities"
    <3>1. st' = (IF st = "licensing" THEN "capabilities" ELSE st) /\ UNCHANGED <<fin, again, share>>
      BY <1>4, <2>3 DEF OnDemandActive
    <3>2. After(Mode, p) = IF st = "licensing" THEN [Mode EXCEPT !.st = "capabilities"] ELSE Mode
      BY <1>15, <2>1, <2>3
    <3> QED
      BY <3>1, <3>2 DEF Mode
  <2> QED
    BY <2>2, <2>3
<1>5. CASE OnRedemand
  <2>1. p.kind = "demand-active" /\ st = "active"
    BY <1>5 DEF OnRedemand, Take
  <2>2. Mode' = C
    BY <1>5, <2>1 DEF OnRedemand, ConfirmActive, Mode
  <2> QED
    BY <1>15, <2>1, <2>2
<1>6. CASE OnFinalization
  <2>1. PICK k \in Final : p.kind = k
    BY <1>6 DEF OnFinalization, Take
  <2>2. After(Mode, p) = Finalized(Mode, k)
    BY <2>1 DEF After, Final
  <2>3. CASE st = "finalization"
    <3>1. fin' = fin \cup {k} /\ st' = IF fin \cup {k} = Final THEN "active" ELSE "finalization"
      BY <1>6, <2>1, <2>3 DEF OnFinalization, Take
    <3>2. UNCHANGED <<again, share>>
      BY <1>6 DEF OnFinalization
    <3> QED
      BY <2>2, <2>3, <3>1, <3>2 DEF Finalized, Mode
  <2>4. CASE st # "finalization"
    BY <1>6, <2>1, <2>2, <2>4 DEF OnFinalization, Finalized, Mode
  <2> QED
    BY <2>3, <2>4
<1>7. CASE OnDeactivateAll
  BY <1>7 DEF OnDeactivateAll, Take, Mode, After, Final
<1>8. CASE OnLostDeactivate
  BY <1>8 DEF OnLostDeactivate, Take, Mode, After, Final, Slow
<1>9. CASE OnErrorInfo
  BY <1>9 DEF OnErrorInfo, Close, Take, Mode, After, Final, Slow
<1>10. CASE OnUltimatum
  BY <1>1, <1>10 DEF OnUltimatum, Close, Take, Mode, After, Final
<1>11. CASE OnAutoDetect
  BY <1>11 DEF OnAutoDetect, Take, Mode, After, Final, clientVars
<1>12. CASE OnFastPath
  BY <1>12 DEF OnFastPath, Take, Mode, After, Final
<1>13. CASE OnDisplayCreate \/ OnDisplayCaps \/ OnDisplayClose
  BY <1>13 DEF OnDisplayCreate, OnDisplayCaps, OnDisplayClose, Take, Mode, After, Final
<1>14. CASE OnIgnored
  <2>1. st = "closed" /\ UNCHANGED <<st, fin, again, share>>
    BY <1>14 DEF OnIgnored, clientVars
  <2> QED
    BY <2>1 DEF Mode, After, Demanded, Finalized, Confirms
<1> QED
  BY <1>2, <1>3, <1>4, <1>5, <1>6, <1>7, <1>8, <1>9, <1>10, <1>11, <1>12, <1>13, <1>14 DEF Feed

\* A demand is confirmed by who can; a measurement is answered.
LEMMA FedAnswers ==
  ASSUME Types, Feed, Fits(Mode, Head(down))
  PROVE  IF Head(down).kind = "demand-active" /\ Confirms(Mode)
         THEN up' = up \o Confirmation(Head(down).share, desk.size)
         ELSE up' = up \/ up' = up \o <<Just("probe-reply")>>
<1>1. st \in Slow \cup {"closed"}
      /\ Head(down).kind \notin {"connect-response", "attach-confirm", "join-confirm"}
  BY DEF Fits, Mode
<1>2. ~OnConnectResponse /\ ~OnAttachUserConfirm /\ ~OnChannelJoinConfirm
  BY <1>1 DEF OnConnectResponse, OnAttachUserConfirm, OnChannelJoinConfirm, Take
<1>3. CASE OnLicensing \/ OnDeactivateAll \/ OnLostDeactivate \/ OnErrorInfo \/ OnUltimatum
  BY <1>3 DEF OnLicensing, OnDeactivateAll, OnLostDeactivate, OnErrorInfo, OnUltimatum, Take
<1>4. CASE OnDisplayCreate \/ OnDisplayCaps \/ OnDisplayClose \/ OnFastPath
  BY <1>4 DEF OnDisplayCreate, OnDisplayCaps, OnDisplayClose, OnFastPath, Take
<1>5. CASE OnFinalization
  BY <1>5 DEF OnFinalization, Take, Final
<1>6. CASE OnAutoDetect
  BY <1>6 DEF OnAutoDetect, Take, Send
<1>7. CASE OnIgnored
  BY <1>7 DEF OnIgnored, Mode, Confirms
<1>8. CASE OnRedemand
  BY <1>8 DEF OnRedemand, ConfirmActive, Take, Send, Mode, Confirms, Confirmation
<1>9. CASE OnDemandActive
  BY <1>9 DEF OnDemandActive, ConfirmActive, Take, Send, Mode, Confirms, Confirmation
<1> QED
  BY <1>2, <1>3, <1>4, <1>5, <1>6, <1>7, <1>8, <1>9 DEF Feed

LEMMA AfterOK ==
  ASSUME NEW m \in Modes, NEW p \in DownPDUs, Fits(m, p), ModeOK(m)
  PROVE  ModeOK(After(m, p))
<1>1. /\ m.st \in States /\ m.fin \subseteq Final /\ m.again \in BOOLEAN /\ m.share \in Nat
      /\ p.share \in Nat
  BY DEF Modes, DownPDUs
<1>2. m = [st |-> m.st, fin |-> m.fin, again |-> m.again, share |-> m.share]
  BY DEF Modes
<1>3. CASE p.kind = "demand-active"
  <2>1. After(m, p) = Demanded(m, p.share) /\ p.share = m.share + 1
    BY <1>3 DEF After, Fits, Final
  <2> QED
    BY <1>1, <1>2, <2>1 DEF Demanded, Confirms, ModeOK, Final
<1>4. CASE p.kind \in Final
  <2>1. After(m, p) = Finalized(m, p.kind)
    BY <1>4 DEF After, Final
  <2> QED
    BY <1>1, <1>2, <2>1 DEF Finalized, ModeOK
<1>5. CASE p.kind # "demand-active" /\ p.kind \notin Final
  <2>1. \/ After(m, p) = m
        \/ After(m, p) = [m EXCEPT !.st = "capabilities"] /\ (m.st = "licensing" \/ m.st = "capabilities")
        \/ After(m, p) = [m EXCEPT !.st = "capabilities", !.again = TRUE] /\ m.st = "active"
        \/ After(m, p) = [m EXCEPT !.st = "closed"]
    BY <1>1, <1>5 DEF After, Fits, Slow
  <2>2. /\ After(m, p).fin = m.fin /\ After(m, p).share = m.share
        /\ \/ After(m, p).st = m.st /\ After(m, p).again = m.again
           \/ /\ After(m, p).st = "capabilities" /\ After(m, p).again = m.again
              /\ m.st \in {"licensing", "capabilities"}
           \/ After(m, p).st = "capabilities" /\ After(m, p).again = TRUE /\ m.st = "active"
           \/ After(m, p).st = "closed"
    BY <1>2, <2>1
  <2> QED
    BY <1>1, <2>2 DEF ModeOK
<1> QED
  BY <1>3, <1>4, <1>5


-----------------------------------------------------------------------------
(* What is on its way to the host.                                         *)

LEMMA UpOKMore ==
  ASSUME NEW q \in Seq(UpPDUs), NEW a \in Seq(UpPDUs), NEW s \in Nat, NEW t \in Nat,
         UpOK(q, s), UpOK(a, t), s <= t
  PROVE  UpOK(q \o a, t)
<1> DEFINE r == q \o a
           n == Len(q)
           k == Len(a)
<1>1. /\ n \in Nat /\ k \in Nat /\ r \in Seq(UpPDUs) /\ Len(r) = n + k
      /\ \A i \in 1..n : r[i] = q[i]
      /\ \A i \in 1..k : r[n + i] = a[i]
      /\ \A i \in 1..(n + k) : i \in 1..n \/ (i - n \in 1..k /\ r[i] = a[i - n])
  BY Joined
<1>2. \A i \in 1..n : q[i].share \in Nat
  <2>1. \A i \in 1..n : q[i] \in UpPDUs
    OBVIOUS
  <2> QED
    BY <2>1 DEF UpPDUs
<1> HIDE DEF r
<1>3. ASSUME NEW i \in 1..Len(r), r[i].kind = "confirm-active"
      PROVE  i < Len(r) /\ r[i + 1].kind = "finalize" /\ r[i + 1].share = r[i].share
  <2>1. CASE i \in 1..n
    <3>1. i < n /\ q[i + 1].kind = "finalize" /\ q[i + 1].share = q[i].share
      BY <1>1, <1>3, <2>1 DEF UpOK
    <3>2. i + 1 \in 1..n
      BY <1>1, <3>1
    <3> QED
      BY <1>1, <2>1, <3>1, <3>2
  <2>2. CASE i \notin 1..n
    <3> DEFINE j == i - n
    <3>1. j \in 1..k /\ r[i] = a[j]
      BY <1>1, <2>2
    <3>2. j < k /\ a[j + 1].kind = "finalize" /\ a[j + 1].share = a[j].share
      BY <1>3, <3>1 DEF UpOK
    <3>3. j + 1 \in 1..k /\ n + (j + 1) = i + 1 /\ i < n + k
      <4>1. n \in Nat /\ k \in Nat /\ i \in Int /\ j \in 1..k /\ j < k
        BY <1>1, <3>1, <3>2
      <4> QED
        BY <4>1
    <3>4. r[i + 1] = a[j + 1]
      BY <1>1, <3>3
    <3> QED
      BY <1>1, <3>1, <3>2, <3>3, <3>4
  <2> QED
    BY <2>1, <2>2
<1>4. ASSUME NEW i \in 1..Len(r)
      PROVE  /\ r[i].kind \in {"probe-reply", "input", "layout", "confirm-active", "finalize"}
             /\ r[i].kind \in {"confirm-active", "finalize"} => r[i].share <= t
  <2>1. CASE i \in 1..n
    BY <1>1, <1>2, <2>1 DEF UpOK
  <2>2. CASE i \notin 1..n
    BY <1>1, <2>2 DEF UpOK
  <2> QED
    BY <2>1, <2>2
<1>5. UpOK(r, t)
  BY <1>3, <1>4 DEF UpOK
<1> QED
  BY <1>5 DEF r

LEMMA UpOKLess ==
  ASSUME NEW q \in Seq(UpPDUs), NEW s \in Nat, UpOK(q, s), q # <<>>
  PROVE  UpOK(Tail(q), s)
<1> DEFINE r == Tail(q)
<1>1. /\ Len(q) \in Nat \ {0} /\ Len(r) = Len(q) - 1
      /\ \A i \in 1..Len(r) : i + 1 \in 1..Len(q) /\ r[i] = q[i + 1]
  BY Popped
<1> HIDE DEF r
<1>2. ASSUME NEW i \in 1..Len(r), r[i].kind = "confirm-active"
      PROVE  i < Len(r) /\ r[i + 1].kind = "finalize" /\ r[i + 1].share = r[i].share
  <2>1. i + 1 < Len(q) /\ q[i + 1 + 1].kind = "finalize" /\ q[i + 1 + 1].share = q[i + 1].share
    BY <1>1, <1>2 DEF UpOK
  <2>2. i + 1 \in 1..Len(r) /\ i < Len(r)
    BY <1>1, <2>1
  <2> QED
    BY <1>1, <2>1, <2>2
<1>3. UpOK(r, s)
  BY <1>1, <1>2 DEF UpOK
<1> QED
  BY <1>3 DEF r

LEMMA UpOKOne ==
  ASSUME NEW p, NEW s, p.kind \in {"probe-reply", "input", "layout"}
  PROVE  UpOK(<<p>>, s)
BY DEF UpOK

LEMMA UpOKConfirmation ==
  ASSUME NEW sh \in Nat, NEW size \in Sizes
  PROVE  /\ UpOK(Confirmation(sh, size), sh) /\ Confirmation(sh, size) \in Seq(UpPDUs)
         /\ Len(Confirmation(sh, size)) = 2
         /\ Confirmation(sh, size)[1].kind = "confirm-active" /\ Confirmation(sh, size)[1].share = sh
<1>1. Confirmation(sh, size) \in Seq(UpPDUs)
  <2>1. UpTypes(Confirmation(sh, size))
    BY AnswerTypes DEF Answers
  <2> QED
    BY <2>1 DEF UpTypes
<1> DEFINE x == Up("confirm-active", sh, size)
           y == Up("finalize", sh, NoSize)
<1>2. /\ x.kind = "confirm-active" /\ x.share = sh /\ y.kind = "finalize" /\ y.share = sh
      /\ Confirmation(sh, size) = <<x, y>>
  BY DEF Up, Confirmation
<1> HIDE DEF x, y
<1>3. Len(<<x, y>>) = 2 /\ <<x, y>>[1] = x /\ <<x, y>>[2] = y
  OBVIOUS
<1>4. UpOK(<<x, y>>, sh)
  BY <1>2, <1>3 DEF UpOK
<1> QED
  BY <1>1, <1>2, <1>3, <1>4

LEMMA HasUpMore ==
  ASSUME NEW q \in Seq(UpPDUs), NEW a \in Seq(UpPDUs), NEW k, NEW sh, HasUp(q, k, sh) \/ HasUp(a, k, sh)
  PROVE  HasUp(q \o a, k, sh)
<1> DEFINE r == q \o a
<1>1. /\ Len(q) \in Nat /\ Len(a) \in Nat /\ Len(r) = Len(q) + Len(a)
      /\ \A i \in 1..Len(q) : r[i] = q[i]
      /\ \A i \in 1..Len(a) : r[Len(q) + i] = a[i]
  BY Joined
<1> HIDE DEF r
<1>2. \A i \in 1..Len(q) : i \in 1..Len(r)
  BY <1>1
<1>3. \A i \in 1..Len(a) : Len(q) + i \in 1..Len(r)
  BY <1>1
<1>4. HasUp(r, k, sh)
  BY <1>1, <1>2, <1>3 DEF HasUp
<1> QED
  BY <1>4 DEF r

LEMMA FedUp ==
  ASSUME Types, Feed, Fits(Mode, Head(down)), host.ph # "mcs", UpInv
  PROVE  UpInv'
<1>1. UpOK(up, share) /\ up \in Seq(UpPDUs) /\ share \in Nat /\ desk.size \in Sizes /\ host' = host
  BY FeedQueues DEF UpInv, Types, ConnTypeOK
<1>2. Mode' = After(Mode, Head(down)) /\ Mode \in Modes /\ Head(down) \in DownPDUs /\ Mode.share = share
  BY FedMode, FeedQueues, TakeFacts DEF Mode, Modes, Types, ConnTypeOK
<1>3. share' = After(Mode, Head(down)).share /\ share' \in Nat /\ share <= share'
  <2>1. After(Mode, Head(down)) \in Modes /\ share <= After(Mode, Head(down)).share
    BY <1>2, AfterModes
  <2>2. Mode'.share = share'
    BY DEF Mode
  <2> QED
    BY <1>2, <2>1, <2>2 DEF Modes
<1>4. UpOK(<<>>, share')
  BY DEF UpOK
<1>5. CASE Head(down).kind = "demand-active" /\ Confirms(Mode)
  <2> DEFINE a == Confirmation(Head(down).share, desk.size)
  <2>1. up' = up \o a
    BY <1>5, FedAnswers
  <2>2. share' = Head(down).share
    BY <1>3, <1>5 DEF After, Demanded, Final
  <2>3. UpOK(a, share') /\ a \in Seq(UpPDUs)
    BY <1>1, <1>3, <2>2, UpOKConfirmation
  <2> HIDE DEF a
  <2>4. UpOK(up', share')
    BY <1>1, <1>3, <2>1, <2>3, UpOKMore
  <2> QED
    BY <2>4 DEF UpInv
<1>6. CASE ~(Head(down).kind = "demand-active" /\ Confirms(Mode))
  <2>1. up' = up \/ up' = up \o <<Just("probe-reply")>>
    BY <1>6, FedAnswers
  <2>2. UpOK(<<Just("probe-reply")>>, share') /\ <<Just("probe-reply")>> \in Seq(UpPDUs)
    BY UpOKOne, JustPDU, OneOf DEF Just, Up, UpKinds
  <2>3. UpOK(up, share')
    <3>1. \A i \in 1..Len(up) : up[i].share \in Nat
      <4>1. \A i \in 1..Len(up) : up[i] \in UpPDUs
        BY <1>1
      <4> QED
        BY <4>1 DEF UpPDUs
    <3> QED
      BY <1>1, <1>3, <3>1 DEF UpOK
  <2>4. UpOK(up', share')
    BY <1>1, <1>3, <2>1, <2>2, <2>3, UpOKMore
  <2> QED
    BY <2>4 DEF UpInv
<1> QED
  BY <1>5, <1>6

LEMMA FedView ==
  ASSUME Types, Feed, host.ph # "mcs", ViewInv
  PROVE  Fits(Mode, Head(down)) /\ ViewInv'
<1>1. down # <<>> /\ down' = Tail(down) /\ host' = host /\ down \in Seq(DownPDUs) /\ up \in Seq(UpPDUs)
  BY FeedQueues DEF Types
<1>2. PICK s \in [1..(Len(down) + 1) -> Modes] :
        RunOf(s, down, Mode) /\ Match(s[Len(down) + 1], host) /\ Owed(s, down, up, host)
  BY DEF ViewInv
<1> DEFINE n == Len(down)
           t == Later(s, down)
<1>3. /\ Fits(Mode, Head(down)) /\ RunOf(t, down', After(Mode, Head(down)))
      /\ t[Len(down') + 1] = s[n + 1]
      /\ \A i \in 1..Len(down') : t[i] = s[i + 1] /\ down'[i] = down[i + 1]
  BY <1>1, <1>2, RunTail
<1>4. Mode' = After(Mode, Head(down))
  BY <1>3, FedMode
<1>5. t \in [1..(Len(down') + 1) -> Modes]
  BY <1>3 DEF RunOf
<1>6. n \in Nat \ {0} /\ Len(down') = n - 1 /\ Head(down) = down[1] /\ s[1] = Mode /\ Head(down).share \in Nat
  BY <1>1, <1>2, Popped, TakeFacts DEF RunOf
<1>7. ASSUME NEW k, NEW sh, HasUp(up, k, sh) PROVE HasUp(up', k, sh)
  <2>1. up' = up \/ \E a \in Answers : up' = up \o a
    BY FeedQueues
  <2>2. \A a \in Answers : a \in Seq(UpPDUs)
    BY AnswerTypes DEF UpTypes
  <2> QED
    BY <1>1, <1>7, <2>1, <2>2, HasUpMore
<1> HIDE DEF t
<1>8. Owed(t, down', up', host)
  <2>1. host.ph = "finalizing" => HasUp(up', "finalize", host.share)
    BY <1>2, <1>7 DEF Owed
  <2>2. ASSUME host.ph = "demanded", t[Len(down') + 1].share = host.share,
               ~HasUp(up', "confirm-active", host.share)
        PROVE  \E i \in 1..Len(down') : down'[i].kind = "demand-active" /\ down'[i].share = host.share
                                          /\ Confirms(t[i])
    <3>1. PICK i \in 1..n : down[i].kind = "demand-active" /\ down[i].share = host.share /\ Confirms(s[i])
      BY <1>2, <1>3, <1>7, <2>2 DEF Owed
    <3>2. CASE i = 1
      <4>1. up' = up \o Confirmation(host.share, desk.size) /\ host.share \in Nat
        BY <1>3, <1>6, <3>1, <3>2, FedAnswers
      <4>2. HasUp(Confirmation(host.share, desk.size), "confirm-active", host.share)
              /\ Confirmation(host.share, desk.size) \in Seq(UpPDUs)
        <5>1. desk.size \in Sizes
          BY DEF Types, ConnTypeOK
        <5> DEFINE a == Confirmation(host.share, desk.size)
        <5>2. a \in Seq(UpPDUs) /\ Len(a) = 2 /\ a[1].kind = "confirm-active" /\ a[1].share = host.share
          BY <4>1, <5>1, UpOKConfirmation
        <5>3. 1 \in 1..Len(a)
          BY <5>2
        <5> HIDE DEF a
        <5>4. HasUp(a, "confirm-active", host.share)
          BY <5>2, <5>3 DEF HasUp
        <5> QED
          BY <5>2, <5>4 DEF a
      <4>3. HasUp(up', "confirm-active", host.share)
        BY <1>1, <4>1, <4>2, HasUpMore
      <4> QED
        BY <2>2, <4>3
    <3>3. CASE i # 1
      <4>1. i - 1 \in 1..Len(down') /\ (i - 1) + 1 = i
        BY <1>6, <3>1, <3>3
      <4>2. t[i - 1] = s[i] /\ down'[i - 1] = down[i]
        BY <1>3, <4>1
      <4> QED
        BY <3>1, <4>1, <4>2
    <3> QED
      BY <3>2, <3>3
  <2> QED
    BY <2>1, <2>2 DEF Owed
<1>9. ViewInv'
  BY <1>1, <1>2, <1>3, <1>4, <1>5, <1>8 DEF ViewInv
<1> QED
  BY <1>3, <1>9


\* What the page is told.
LEMMA FedPage ==
  ASSUME Types, Feed, Fits(Mode, Head(down)), ShareInv, LaterOutputDrawn, CloseOnce, ActiveOncePerShare
  PROVE  LaterOutputDrawn' /\ CloseOnce' /\ ActiveOncePerShare'
<1> DEFINE p == Head(down)
           A(s, sh, f) == IF s = "finalization" \/ (s = "closed" /\ sh = 1 /\ f # Final) THEN sh - 1 ELSE sh
           Ok == /\ st' # "closed" => page'.lost \subseteq {0}
                 /\ page'.closed = (IF st' = "closed" THEN 1 ELSE 0)
                 /\ page'.active = A(st', share', fin')
<1>0. Ok => LaterOutputDrawn' /\ CloseOnce' /\ ActiveOncePerShare'
  BY DEF LaterOutputDrawn, CloseOnce, ActiveOncePerShare
<1>1. /\ st \in Slow \cup {"closed"} /\ p.kind \notin {"connect-response", "attach-confirm", "join-confirm"}
      /\ p.kind = "output" => st = "active" \/ (st = "finalization" /\ p.share + 1 = share)
      /\ p.kind = "demand-active" => p.share = share + 1
  BY DEF Fits, Mode
<1>2. /\ st # "closed" => page.lost \subseteq {0}
      /\ page.closed = (IF st = "closed" THEN 1 ELSE 0)
      /\ page.active = A(st, share, fin)
  BY DEF LaterOutputDrawn, CloseOnce, ActiveOncePerShare
<1>3. /\ page \in PageTypes /\ share \in Nat /\ again \in BOOLEAN
  BY DEF Types, ConnTypeOK, PageTypes
<1>4. /\ st = "licensing" => share = 0 /\ ~again
      /\ st = "capabilities" => (again <=> share > 0)
      /\ st = "finalization" => share = 1 /\ ~again /\ fin # Final
      /\ st = "active" => share > 0
      /\ st \in {"capabilities", "active"} /\ share = 1 => fin = Final
  BY DEF ShareInv, ModeOK, Mode
<1>5. /\ [page EXCEPT !.active = @ + 1].active = page.active + 1
      /\ [page EXCEPT !.active = @ + 1].lost = page.lost
      /\ [page EXCEPT !.active = @ + 1].closed = page.closed
      /\ [page EXCEPT !.closed = @ + 1].active = page.active
      /\ [page EXCEPT !.closed = @ + 1].lost = page.lost
      /\ [page EXCEPT !.closed = @ + 1].closed = page.closed + 1
  BY <1>3 DEF PageTypes
<1>6. page.active \in Nat /\ page.closed \in Nat
  BY <1>3 DEF PageTypes
<1>7. CASE OnLicensing \/ OnLostDeactivate
  <2>1. UNCHANGED <<page, share, fin>> /\ st # "closed" /\ st' # "closed"
        /\ (st' = st \/ (st = "licensing" /\ st' = "capabilities"))
    BY <1>7 DEF OnLicensing, OnLostDeactivate, Slow
  <2>2. Ok
    BY <1>2, <1>4, <2>1
  <2> QED
    BY <1>0, <2>2
<1>8. ASSUME NEW re \in BOOLEAN, p.share = share + 1, ConfirmActive(p.share, re),
             st = "active" \/ (st = "capabilities" /\ (re <=> again)), st = "active" => re
      PROVE  Ok
  <2>1. share' = share + 1 /\ fin' = {} /\ page.active = share /\ {} # Final
    BY <1>2, <1>8 DEF ConfirmActive, Final
  <2>2. CASE re
    <3>1. st' = "active" /\ page' = [page EXCEPT !.active = @ + 1]
      BY <1>8, <2>2 DEF ConfirmActive
    <3> QED
      BY <1>2, <1>3, <1>5, <1>6, <1>8, <2>1, <3>1
  <2>3. CASE ~re
    <3>1. st' = "finalization" /\ page' = page /\ st = "capabilities"
      BY <1>8, <2>3 DEF ConfirmActive
    <3> QED
      BY <1>2, <1>3, <1>8, <2>1, <3>1
  <2> QED
    BY <2>2, <2>3
<1>9. CASE OnRedemand
  <2>1. Ok
    BY <1>1, <1>8, <1>9 DEF OnRedemand, Take
  <2> QED
    BY <1>0, <2>1
<1>10. CASE OnDemandActive
  <2>1. CASE st = "capabilities"
    <3>1. Ok
      BY <1>1, <1>3, <1>8, <1>10, <2>1 DEF OnDemandActive, Take
    <3> QED
      BY <1>0, <3>1
  <2>2. CASE st # "capabilities"
    <3>1. UNCHANGED <<page, share, fin>> /\ st # "closed" /\ st' # "closed"
          /\ (st' = st \/ (st = "licensing" /\ st' = "capabilities"))
      BY <1>10, <2>2 DEF OnDemandActive, Slow
    <3>2. Ok
      BY <1>2, <1>4, <3>1
    <3> QED
      BY <1>0, <3>2
  <2> QED
    BY <2>1, <2>2
<1>11. CASE OnFinalization
  <2>1. CASE st = "finalization" /\ fin' = Final
    <3>1. st' = "active" /\ page' = [page EXCEPT !.active = @ + 1] /\ share' = share
      BY <1>11, <2>1 DEF OnFinalization
    <3>2. Ok
      BY <1>2, <1>3, <1>4, <1>5, <1>6, <2>1, <3>1
    <3> QED
      BY <1>0, <3>2
  <2>2. CASE ~(st = "finalization" /\ fin' = Final)
    <3>1. st' = st /\ page' = page /\ share' = share /\ (st # "finalization" => fin' = fin)
      BY <1>11, <2>2 DEF OnFinalization
    <3>2. Ok
      BY <1>2, <3>1
    <3> QED
      BY <1>0, <3>2
  <2> QED
    BY <2>1, <2>2
<1>12. CASE OnDeactivateAll
  <2>1. /\ page'.active = page.active /\ page'.closed = page.closed /\ page'.lost = page.lost
        /\ st = "active" /\ st' = "capabilities" /\ UNCHANGED <<share, fin>>
    BY <1>3, <1>12 DEF OnDeactivateAll, PageTypes
  <2>2. Ok
    BY <1>2, <2>1
  <2> QED
    BY <1>0, <2>2
<1>13. CASE OnErrorInfo \/ OnUltimatum
  <2>1. \/ st # "closed" /\ st' = "closed" /\ page' = [page EXCEPT !.closed = @ + 1]
        \/ page' = page /\ st' = st
        \/ page' = page /\ st \in {"licensing", "capabilities"} /\ st' = "capabilities"
    BY <1>1, <1>13 DEF OnErrorInfo, OnUltimatum, Close, Slow
  <2>2. UNCHANGED <<share, fin>>
    BY <1>13 DEF OnErrorInfo, OnUltimatum
  <2>4. ASSUME st # "closed" /\ st' = "closed" /\ page' = [page EXCEPT !.closed = @ + 1] PROVE Ok
    <3>1. page.closed = 0 /\ page'.closed = 1 /\ page'.active = page.active
      BY <1>2, <1>5, <1>6, <2>4
    <3>2. A(st', share', fin') = A(st, share, fin)
      <4>1. st \in {"licensing", "capabilities", "finalization", "active"}
        BY <1>1, <2>4 DEF Slow
      <4> QED
        BY <1>3, <1>4, <2>2, <2>4, <4>1
    <3> QED
      BY <1>2, <2>4, <3>1, <3>2
  <2>5. ASSUME page' = page /\ st' = st PROVE Ok
    BY <1>2, <2>2, <2>5
  <2>6. ASSUME page' = page /\ st \in {"licensing", "capabilities"} /\ st' = "capabilities" PROVE Ok
    BY <1>2, <2>2, <2>6
  <2>3. Ok
    BY <2>1, <2>4, <2>5, <2>6
  <2> QED
    BY <1>0, <2>3
<1>14. CASE OnAutoDetect \/ OnIgnored
  <2>1. UNCHANGED <<st, page, share, fin>>
    BY <1>14 DEF OnAutoDetect, OnIgnored, clientVars
  <2>2. Ok
    BY <1>2, <2>1
  <2> QED
    BY <1>0, <2>2
<1>15. CASE OnDisplayCreate \/ OnDisplayCaps \/ OnDisplayClose
  <2>1. UNCHANGED <<st, page, share, fin>>
    BY <1>15 DEF OnDisplayCreate, OnDisplayCaps, OnDisplayClose
  <2>2. Ok
    BY <1>2, <2>1
  <2> QED
    BY <1>0, <2>2
<1>16. CASE OnFastPath
  <2>1. Renders /\ UNCHANGED <<st, share, fin>>
    BY <1>1, <1>16 DEF OnFastPath, Take, Renders
  <2>2. Connected \/ p.share = 0
    <3>1. p.kind = "output" /\ p.share \in Nat
      BY <1>16, TakeFacts DEF OnFastPath, Take
    <3> QED
      BY <1>1, <1>2, <1>3, <1>4, <3>1 DEF Connected
  <2>3. /\ page'.active = page.active /\ page'.closed = page.closed
        /\ page'.lost = page.lost \/ page'.lost = page.lost \cup {0}
    BY <1>3, <1>16, <2>1, <2>2 DEF OnFastPath, PageTypes
  <2>4. Ok
    BY <1>2, <2>1, <2>3
  <2> QED
    BY <1>0, <2>4
<1>17. ~OnConnectResponse /\ ~OnAttachUserConfirm /\ ~OnChannelJoinConfirm
  BY <1>1 DEF OnConnectResponse, OnAttachUserConfirm, OnChannelJoinConfirm, Take
<1> HIDE DEF Ok
<1> QED
  BY <1>7, <1>9, <1>10, <1>11, <1>12, <1>13, <1>14, <1>15, <1>16, <1>17 DEF Feed

\* The hand-shake before the host knows the client.
LEMMA FedHand ==
  ASSUME Types, ConnInv, Feed, host.ph = "mcs"
  PROVE  ConnInv'
<1>1. down # <<>> /\ host' = host
  BY FeedQueues
<1>2. /\ share = 0 /\ host.share = 0 /\ fin = {} /\ again = FALSE
      /\ \/ st = "basic" /\ up = <<>> /\ down = <<Down("connect-response", 0)>>
         \/ st = "attach" /\ up = <<>> /\ down = <<Down("attach-confirm", 0)>>
         \/ st = "join" /\ up = <<>> /\ down = <<Down("join-confirm", 0)>>
  BY <1>1 DEF ConnInv, HandInv
<1>3. /\ Head(down).kind \in {"connect-response", "attach-confirm", "join-confirm"} /\ Tail(down) = <<>>
      /\ Head(down).kind = "connect-response" => st = "basic"
      /\ Head(down).kind = "attach-confirm" => st = "attach"
      /\ Head(down).kind = "join-confirm" => st = "join"
  <2>1. \A k \in DownKinds : Head(<<Down(k, 0)>>).kind = k /\ Tail(<<Down(k, 0)>>) = <<>>
    BY DEF Down
  <2>2. {"connect-response", "attach-confirm", "join-confirm"} \subseteq DownKinds
    BY DEF DownKinds
  <2> QED
    BY <1>2, <2>1, <2>2
<1>4. OnConnectResponse \/ OnAttachUserConfirm \/ OnChannelJoinConfirm
  <2>1. ~(OnLicensing \/ OnDemandActive \/ OnRedemand)
    BY <1>3 DEF OnLicensing, OnDemandActive, OnRedemand, Take
  <2>2. ~(OnFinalization \/ OnDeactivateAll \/ OnLostDeactivate)
    BY <1>3 DEF OnFinalization, OnDeactivateAll, OnLostDeactivate, Take, Final
  <2>3. ~(OnErrorInfo \/ OnUltimatum \/ OnAutoDetect \/ OnFastPath)
    BY <1>3 DEF OnErrorInfo, OnUltimatum, OnAutoDetect, OnFastPath, Take
  <2>4. ~(OnDisplayCreate \/ OnDisplayCaps \/ OnDisplayClose \/ OnIgnored)
    BY <1>2 DEF OnDisplayCreate, OnDisplayCaps, OnDisplayClose, OnIgnored, Slow
  <2> QED
    BY <2>1, <2>2, <2>3, <2>4 DEF Feed
<1>5. /\ UNCHANGED <<fin, share, again, page>> /\ down' = <<>>
      /\ \/ st = "basic" /\ st' = "attach" /\ up' = up \o <<Just("erect-domain"), Just("attach-user")>>
         \/ st = "attach" /\ st' = "licensing" /\ up' = up \o <<Just("client-info")>>
         \/ st = "attach" /\ st' = "join" /\ up' = up \o <<Just("join")>>
         \/ st = "join" /\ st' = "licensing" /\ up' = up \o <<Just("client-info")>>
         \/ st = "join" /\ st' = "join" /\ up' = up \o <<Just("join")>>
  BY <1>3, <1>4 DEF OnConnectResponse, OnAttachUserConfirm, OnChannelJoinConfirm, Take, Send
<1>6. \A x, y : up \o <<x>> = <<x>> /\ up \o <<x, y>> = <<x, y>>
  <2>1. ASSUME NEW x, NEW y PROVE up \o <<x>> = <<x>> /\ up \o <<x, y>> = <<x, y>>
    <3>1. up = <<>> /\ <<x>> \in Seq({x, y}) /\ <<x, y>> \in Seq({x, y})
      BY <1>2
    <3> QED
      BY <3>1, ConcatEmptySeq
  <2> QED
    BY <2>1
<1>7. HandInv'
  BY <1>1, <1>2, <1>5, <1>6 DEF HandInv
<1>8. ShareInv'
  BY <1>2, <1>5 DEF ShareInv, ModeOK, Mode
<1>9. LaterOutputDrawn' /\ CloseOnce' /\ ActiveOncePerShare'
  <2>1. st # "closed" /\ st # "finalization" /\ st' # "closed" /\ st' # "finalization"
    BY <1>5
  <2> QED
    BY <1>5, <2>1 DEF ConnInv, LaterOutputDrawn, CloseOnce, ActiveOncePerShare
<1> QED
  BY <1>1, <1>7, <1>8, <1>9 DEF ConnInv, UpInv, ViewInv

LEMMA ConnFed ==
  ASSUME Types, ConnInv, Feed
  PROVE  ConnInv'
<1>1. CASE host.ph # "mcs"
  <2>1. Fits(Mode, Head(down)) /\ ViewInv'
    BY <1>1, FedView DEF ConnInv
  <2>2. UpInv'
    BY <1>1, <2>1, FedUp DEF ConnInv
  <2>3. LaterOutputDrawn' /\ CloseOnce' /\ ActiveOncePerShare'
    BY <2>1, FedPage DEF ConnInv
  <2>4. Mode' = After(Mode, Head(down)) /\ Mode \in Modes /\ Head(down) \in DownPDUs
    BY <2>1, FedMode, FeedQueues, TakeFacts DEF Mode, Modes, Types, ConnTypeOK
  <2>5. ShareInv'
    BY <2>1, <2>4, AfterOK DEF ConnInv, ShareInv
  <2>6. HandInv'
    <3>1. After(Mode, Head(down)).st \in Slow \cup {"closed"} /\ Mode'.st = st'
      BY <2>1, <2>4, AfterModes DEF Mode
    <3> QED
      BY <1>1, <2>4, <3>1, FeedQueues DEF HandInv
  <2> QED
    BY <2>1, <2>2, <2>3, <2>5, <2>6 DEF ConnInv
<1>2. CASE host.ph = "mcs"
  BY <1>2, FedHand
<1> QED
  BY <1>1, <1>2


-----------------------------------------------------------------------------
(* The host.                                                               *)

LEMMA ClientRests ==
  ASSUME UNCHANGED clientVars, ShareInv, LaterOutputDrawn, CloseOnce, ActiveOncePerShare
  PROVE  ShareInv' /\ LaterOutputDrawn' /\ CloseOnce' /\ ActiveOncePerShare' /\ Mode' = Mode
<1>1. UNCHANGED <<st, join, fin, share, desk, again, display, page>>
  BY DEF clientVars
<1>2. Mode' = Mode
  BY <1>1 DEF Mode
<1> QED
  BY <1>1, <1>2 DEF ShareInv, LaterOutputDrawn, CloseOnce, ActiveOncePerShare

Fitting(m, h) == m \in Modes /\ m.st \in Slow \cup {"closed"} /\ Match(m, h)

\* The host sends one PDU.
LEMMA ViewOne ==
  ASSUME Types, ViewInv, host.ph # "mcs", Mode' = Mode, NEW p \in DownPDUs, down' = down \o <<p>>,
         \A m : Fitting(m, host) => Fits(m, p) /\ Match(After(m, p), host'),
         host'.ph = "finalizing" => HasUp(up', "finalize", host'.share),
         host'.ph = "demanded" =>
           /\ p.kind = "demand-active" /\ p.share = host'.share
           /\ \A m : Fitting(m, host) /\ After(m, p).share = host'.share => Confirms(m)
  PROVE  ViewInv'
<1>1. down \in Seq(DownPDUs) /\ Len(down) \in Nat
  BY DEF Types
<1> DEFINE n == Len(down)
<1>2. PICK s \in [1..(n + 1) -> Modes] : RunOf(s, down, Mode) /\ Match(s[n + 1], host)
  BY DEF ViewInv
<1>3. Fitting(s[n + 1], host)
  BY <1>1, <1>2 DEF RunOf, Fitting
<1>4. PICK t \in [1..(Len(down') + 1) -> Modes] :
        /\ RunOf(t, down', Mode) /\ t[Len(down') + 1] = After(s[n + 1], p)
        /\ n + 1 \in 1..Len(down') /\ down'[n + 1] = p /\ t[n + 1] = s[n + 1]
  BY <1>1, <1>2, <1>3, RunOne
<1>5. Owed(t, down', up', host')
  BY <1>3, <1>4 DEF Owed
<1>6. Match(t[Len(down') + 1], host')
  BY <1>3, <1>4
<1> QED
  BY <1>4, <1>5, <1>6 DEF ViewInv

\* The host sends nothing.
LEMMA ViewSame ==
  ASSUME ViewInv, host.ph # "mcs", Mode' = Mode, down' = down,
         \A m : Match(m, host) => Match(m, host'),
         host'.ph = "finalizing" => HasUp(up', "finalize", host'.share),
         host'.ph = "demanded" =>
           /\ host.ph = "demanded" /\ host'.share = host.share
           /\ HasUp(up, "confirm-active", host.share) => HasUp(up', "confirm-active", host.share)
  PROVE  ViewInv'
<1> DEFINE n == Len(down)
<1>1. PICK s \in [1..(n + 1) -> Modes] :
        RunOf(s, down, Mode) /\ Match(s[n + 1], host) /\ Owed(s, down, up, host)
  BY DEF ViewInv
<1>2. Owed(s, down', up', host')
  BY <1>1 DEF Owed
<1> QED
  BY <1>1, <1>2 DEF ViewInv

LEMMA RunTwo ==
  ASSUME NEW q \in Seq(DownPDUs), NEW m, NEW s, RunOf(s, q, m), NEW p \in DownPDUs, NEW r \in DownPDUs,
         Fits(s[Len(q) + 1], p), Fits(After(s[Len(q) + 1], p), r)
  PROVE  \E t \in [1..(Len(q \o <<p, r>>) + 1) -> Modes] :
           /\ RunOf(t, q \o <<p, r>>, m)
           /\ t[Len(q \o <<p, r>>) + 1] = After(After(s[Len(q) + 1], p), r)
<1> DEFINE a == q \o <<p>>
<1>1. a \in Seq(DownPDUs)
  BY OneOf, Joined
<1>2. q \o <<p, r>> = a \o <<r>>
  <2> DEFINE x == <<p>>
             y == <<r>>
  <2>1. x \in Seq(DownPDUs) /\ y \in Seq(DownPDUs)
    BY OneOf
  <2>2. x \o y = <<p, r>>
    BY OneAndOne
  <2> HIDE DEF x, y
  <2>3. (q \o x) \o y = q \o (x \o y)
    BY <2>1, ConcatAssociative
  <2> QED
    BY <2>2, <2>3 DEF x, y
<1>3. PICK t \in [1..(Len(a) + 1) -> Modes] :
        RunOf(t, a, m) /\ t[Len(a) + 1] = After(s[Len(q) + 1], p)
  BY RunOne
<1> HIDE DEF a
<1>4. \E u \in [1..(Len(a \o <<r>>) + 1) -> Modes] :
        RunOf(u, a \o <<r>>, m) /\ u[Len(a \o <<r>>) + 1] = After(t[Len(a) + 1], r)
  BY <1>1, <1>3, RunOne
<1> QED
  BY <1>2, <1>3, <1>4

\* By the host's finalization PDUs.
LEMMA AfterFinals ==
  ASSUME NEW m \in Modes, m.st = "active" \/ (m.st = "finalization" /\ m.fin = {})
  PROVE  LET a == After(m, Down("sync", 0))
             b == After(a, Down("coop", 0))
             c == After(b, Down("granted", 0))
             d == After(c, Down("fontmap", 0))
         IN /\ Fits(m, Down("sync", 0)) /\ Fits(a, Down("coop", 0)) /\ Fits(b, Down("granted", 0))
            /\ Fits(c, Down("fontmap", 0)) /\ d.st = "active" /\ d.share = m.share
<1> DEFINE a == After(m, Down("sync", 0))
           b == After(a, Down("coop", 0))
           c == After(b, Down("granted", 0))
           d == After(c, Down("fontmap", 0))
<1>1. \A k \in Final : \A x : /\ After(x, Down(k, 0)) = Finalized(x, k)
                              /\ x.st \in {"active", "finalization"} => Fits(x, Down(k, 0))
  BY DEF After, Down, Final, Fits, Slow
<1>2. {"sync", "coop", "granted", "fontmap"} = Final
  BY DEF Final
<1>3. CASE m.st = "active"
  <2>1. a = m /\ b = m /\ c = m /\ d = m
    BY <1>1, <1>2, <1>3 DEF Finalized
  <2> HIDE DEF a, b, c, d
  <2>2. /\ Fits(m, Down("sync", 0)) /\ Fits(a, Down("coop", 0)) /\ Fits(b, Down("granted", 0))
        /\ Fits(c, Down("fontmap", 0)) /\ d.st = "active" /\ d.share = m.share
    BY <1>1, <1>2, <1>3, <2>1
  <2> QED
    BY <2>2 DEF a, b, c, d
<1>4. CASE m.st = "finalization" /\ m.fin = {}
  <2> DEFINE X(f, s) == [st |-> s, fin |-> f, again |-> m.again, share |-> m.share]
  <2>1. m = X({}, "finalization")
    BY <1>4 DEF Modes
  <2>2. ASSUME NEW f, NEW k PROVE Finalized(X(f, "finalization"), k) =
          X(f \cup {k}, IF f \cup {k} = Final THEN "active" ELSE "finalization")
    BY DEF Finalized
  <2> HIDE DEF X
  <2>3. a = X({"sync"}, "finalization")
    <3>1. {} \cup {"sync"} = {"sync"} /\ {"sync"} # Final
      BY DEF Final
    <3>2. a = Finalized(X({}, "finalization"), "sync")
      BY <1>1, <1>2, <2>1
    <3> QED
      BY <2>2, <3>1, <3>2
  <2>4. b = X({"sync", "coop"}, "finalization")
    <3>1. {"sync"} \cup {"coop"} = {"sync", "coop"} /\ {"sync", "coop"} # Final
      BY DEF Final
    <3>2. b = Finalized(X({"sync"}, "finalization"), "coop")
      BY <1>1, <1>2, <2>3
    <3> QED
      BY <2>2, <3>1, <3>2
  <2>5. c = X({"sync", "coop", "granted"}, "finalization")
    <3>1. {"sync", "coop"} \cup {"granted"} = {"sync", "coop", "granted"} /\ {"sync", "coop", "granted"} # Final
      BY DEF Final
    <3>2. c = Finalized(X({"sync", "coop"}, "finalization"), "granted")
      BY <1>1, <1>2, <2>4
    <3> QED
      BY <2>2, <3>1, <3>2
  <2>6. d = X(Final, "active")
    <3>1. {"sync", "coop", "granted"} \cup {"fontmap"} = Final
      BY DEF Final
    <3>2. d = Finalized(X({"sync", "coop", "granted"}, "finalization"), "fontmap")
      BY <1>1, <1>2, <2>5
    <3> QED
      BY <2>2, <3>1, <3>2
  <2>7. \A f, s : X(f, s).st = s /\ X(f, s).share = m.share
    BY DEF X
  <2> HIDE DEF a, b, c, d
  <2>8. /\ Fits(m, Down("sync", 0)) /\ Fits(a, Down("coop", 0)) /\ Fits(b, Down("granted", 0))
        /\ Fits(c, Down("fontmap", 0)) /\ d.st = "active" /\ d.share = m.share
    BY <1>1, <1>2, <1>4, <2>3, <2>4, <2>5, <2>6, <2>7
  <2> QED
    BY <2>8 DEF a, b, c, d
<1> QED
  BY <1>3, <1>4

LEMMA RunFinals ==
  ASSUME NEW q \in Seq(DownPDUs), NEW m, NEW s, RunOf(s, q, m), NEW e \in Modes, e = s[Len(q) + 1],
         e.st = "active" \/ (e.st = "finalization" /\ e.fin = {})
  PROVE  \E t \in [1..(Len(q \o Finals) + 1) -> Modes] :
           /\ RunOf(t, q \o Finals, m)
           /\ t[Len(q \o Finals) + 1].st = "active" /\ t[Len(q \o Finals) + 1].share = e.share
<1> DEFINE f1 == Down("sync", 0)
           f2 == Down("coop", 0)
           f3 == Down("granted", 0)
           f4 == Down("fontmap", 0)
           a  == After(e, f1)
           b  == After(a, f2)
           c  == After(b, f3)
           d  == After(c, f4)
           q2 == q \o <<f1, f2>>
<1>1. f1 \in DownPDUs /\ f2 \in DownPDUs /\ f3 \in DownPDUs /\ f4 \in DownPDUs
  BY DEF Down, DownPDUs, DownKinds, Final
<1>2. Fits(e, f1) /\ Fits(a, f2) /\ Fits(b, f3) /\ Fits(c, f4) /\ d.st = "active" /\ d.share = e.share
  BY AfterFinals
<1>3. q \o Finals = q2 \o <<f3, f4>> /\ q2 \in Seq(DownPDUs)
  <2> DEFINE x == <<f1, f2>>
             y == <<f3, f4>>
  <2>1. /\ x \in Seq(DownPDUs) /\ Len(x) = 2 /\ x[1] = f1 /\ x[2] = f2
        /\ y \in Seq(DownPDUs) /\ Len(y) = 2 /\ y[1] = f3 /\ y[2] = f4
    BY <1>1, TwoOf
  <2>2. /\ Finals \in Seq(DownPDUs) /\ Len(Finals) = 4
        /\ Finals[1] = f1 /\ Finals[2] = f2 /\ Finals[3] = f3 /\ Finals[4] = f4
    BY FinalsTypes
  <2> HIDE DEF x, y, f1, f2, f3, f4
  <2>3. x \o y = Finals
    BY <2>1, <2>2, TwoAndTwo
  <2>4. (q \o x) \o y = q \o (x \o y) /\ q \o x \in Seq(DownPDUs)
    BY <2>1, ConcatAssociative, Joined
  <2> QED
    BY <2>3, <2>4 DEF x, y
<1> HIDE DEF f1, f2, f3, f4, a, b, c, d
<1>4. PICK t \in [1..(Len(q2) + 1) -> Modes] : RunOf(t, q2, m) /\ t[Len(q2) + 1] = b
  <2>1. b = After(After(e, f1), f2) /\ Fits(After(e, f1), f2)
    BY <1>2 DEF a, b
  <2> QED
    BY <1>1, <1>2, <2>1, RunTwo
<1> HIDE DEF q2
<1>5. PICK u \in [1..(Len(q2 \o <<f3, f4>>) + 1) -> Modes] :
        RunOf(u, q2 \o <<f3, f4>>, m) /\ u[Len(q2 \o <<f3, f4>>) + 1] = d
  <2>1. d = After(After(b, f3), f4) /\ Fits(After(b, f3), f4)
    BY <1>2 DEF c, d
  <2> QED
    BY <1>1, <1>2, <1>3, <1>4, <2>1, RunTwo
<1> QED
  BY <1>2, <1>3, <1>5


\* A PDU that is taken leaves the others.
LEMMA HasUpLess ==
  ASSUME NEW q \in Seq(UpPDUs), q # <<>>, NEW k, NEW sh, HasUp(q, k, sh), q[1].kind # k \/ q[1].share # sh
  PROVE  HasUp(Tail(q), k, sh)
<1> DEFINE r == Tail(q)
<1>1. /\ Len(q) \in Nat \ {0} /\ Len(r) = Len(q) - 1 /\ \A i \in 1..Len(r) : r[i] = q[i + 1]
  BY Popped
<1>2. PICK i \in 1..Len(q) : q[i].kind = k /\ q[i].share = sh
  BY DEF HasUp
<1> HIDE DEF r
<1>3. i - 1 \in 1..Len(r) /\ (i - 1) + 1 = i
  BY <1>1, <1>2
<1>4. HasUp(r, k, sh)
  BY <1>1, <1>2, <1>3 DEF HasUp
<1> QED
  BY <1>4 DEF r

\* What is left to prove of a step of the host that knows the client.
LEMMA HostStep ==
  ASSUME Types, ConnInv, UNCHANGED clientVars, host.ph # "mcs", host'.ph # "mcs", ViewInv',
         up' = up \/ (up # <<>> /\ up' = Tail(up))
  PROVE  ConnInv'
<1>1. ShareInv' /\ LaterOutputDrawn' /\ CloseOnce' /\ ActiveOncePerShare' /\ UNCHANGED <<st, share>>
  BY ClientRests DEF ConnInv, clientVars
<1>2. UpInv'
  <2>1. UpOK(up, share) /\ up \in Seq(UpPDUs) /\ share \in Nat
    BY DEF ConnInv, UpInv, Types, ConnTypeOK
  <2>2. UpOK(up', share)
    BY <2>1, UpOKLess
  <2> QED
    BY <1>1, <2>2 DEF UpInv
<1>3. HandInv'
  BY <1>1 DEF ConnInv, HandInv
<1> QED
  BY <1>1, <1>2, <1>3 DEF ConnInv

\* What the host takes from a client it knows.
LEMMA HostPops ==
  ASSUME Types, ConnInv, NEW k, HostTakes(k), host.ph # "mcs"
  PROVE  /\ up # <<>> /\ up' = Tail(up) /\ UNCHANGED clientVars /\ Mode' = Mode
         /\ up \in Seq(UpPDUs) /\ up[1].kind = k /\ Head(up) = up[1]
         /\ k \in {"probe-reply", "input", "layout", "confirm-active", "finalize"}
         /\ ViewInv /\ UpOK(up, share) /\ share \in Nat /\ host.share \in Nat
<1>1. /\ up # <<>> /\ up' = Tail(up) /\ UNCHANGED clientVars /\ up[1].kind = k /\ Head(up) = up[1]
      /\ 1 \in 1..Len(up)
  BY HostTook
<1>2. Mode' = Mode
  BY <1>1, ClientRests DEF ConnInv
<1>3. ViewInv /\ UpOK(up, share) /\ up \in Seq(UpPDUs) /\ share \in Nat /\ host.share \in Nat
  BY DEF ConnInv, UpInv, Types, ConnTypeOK
<1>4. k \in {"probe-reply", "input", "layout", "confirm-active", "finalize"}
  BY <1>1, <1>3 DEF UpOK
<1> QED
  BY <1>1, <1>2, <1>3, <1>4

LEMMA NothingEmitted ==
  ASSUME Types, Emit(<<>>)
  PROVE  down' = down
BY ConcatEmptySeq DEF Emit, Types

LEMMA ConnConfirmed ==
  ASSUME Types, ConnInv, HostConfirmed, host.ph # "mcs"
  PROVE  ConnInv'
<1>1. /\ up # <<>> /\ up' = Tail(up) /\ UNCHANGED clientVars /\ Mode' = Mode
      /\ up \in Seq(UpPDUs) /\ up[1].kind = "confirm-active" /\ Head(up) = up[1]
      /\ ViewInv /\ UpOK(up, share) /\ share \in Nat /\ host.share \in Nat /\ down' = down
  BY HostPops DEF HostConfirmed
<1>2. CASE host.ph = "demanded" /\ up[1].share = host.share
  <2>1. host' = [host EXCEPT !.ph = "finalizing"]
    BY <1>1, <1>2 DEF HostConfirmed
  <2>2. host'.ph = "finalizing" /\ host'.share = host.share
    BY <2>1 DEF Types, ConnTypeOK
  <2>3. HasUp(up', "finalize", host.share)
    <3>1. Len(up) \in Nat /\ 1 \in 1..Len(up) /\ Len(up') = Len(up) - 1 /\ \A i \in 1..Len(up') : up'[i] = up[i + 1]
      BY <1>1, Popped
    <3>2. 1 < Len(up) /\ up[1 + 1].kind = "finalize" /\ up[1 + 1].share = up[1].share
      BY <1>1, <3>1 DEF UpOK
    <3>3. 1 \in 1..Len(up')
      BY <3>1, <3>2
    <3> QED
      BY <1>2, <3>1, <3>2, <3>3 DEF HasUp
  <2>4. PICK s \in [1..(Len(down) + 1) -> Modes] : RunOf(s, down, Mode) /\ Match(s[Len(down) + 1], host)
    BY <1>1 DEF ViewInv
  <2>5. host.share <= s[Len(down) + 1].share
    <3>1. Len(down) \in Nat
      BY DEF Types
    <3>2. s[1] = Mode /\ s[1].share = share /\ share <= s[Len(down) + 1].share
      <4>1. s[1] = Mode /\ Mode.share = share
        BY <2>4 DEF RunOf, Mode
      <4>2. CASE Len(down) = 0
        BY <1>1, <4>1, <4>2
      <4>3. CASE Len(down) # 0
        <5>1. 1 \in 1..Len(down)
          BY <3>1, <4>3
        <5> QED
          BY <2>4, <4>1, <5>1 DEF RunOf
      <4> QED
        BY <4>1, <4>2, <4>3
    <3>3. up[1].share <= share
      <4>1. 1 \in 1..Len(up)
        BY <1>1, Popped
      <4> QED
        BY <1>1, <4>1 DEF UpOK
    <3>4. s[Len(down) + 1].share \in Nat
      <4>1. Len(down) + 1 \in 1..(Len(down) + 1)
        BY <3>1
      <4> QED
        BY <2>4, <4>1 DEF Modes
    <3> QED
      BY <1>1, <1>2, <3>2, <3>3, <3>4
  <2>6. Match(s[Len(down) + 1], host')
    <3>1. Shared(s[Len(down) + 1], host)
      <4>1. Len(down) + 1 \in 1..(Len(down) + 1)
        BY DEF Types
      <4>2. s[Len(down) + 1].share \in Nat
        BY <2>4, <4>1 DEF Modes
      <4> QED
        BY <1>1, <1>2, <2>4, <2>5, <4>2 DEF Match, Unheard
    <3> QED
      BY <2>2, <3>1 DEF Match, Shared
  <2>7. Owed(s, down, up', host')
    BY <2>2, <2>3 DEF Owed
  <2>8. ViewInv'
    BY <1>1, <2>4, <2>6, <2>7 DEF ViewInv
  <2> QED
    BY <1>1, <1>2, <2>2, <2>8, HostStep
<1>3. CASE ~(host.ph = "demanded" /\ up[1].share = host.share)
  <2>1. host' = host
    BY <1>1, <1>3 DEF HostConfirmed
  <2>2. host.ph = "finalizing" => HasUp(up', "finalize", host.share)
    BY <1>1, HasUpLess DEF ViewInv, Owed
  <2>3. host.ph = "demanded" /\ HasUp(up, "confirm-active", host.share) => HasUp(up', "confirm-active", host.share)
    BY <1>1, <1>3, HasUpLess
  <2>4. ViewInv'
    BY <1>1, <2>1, <2>2, <2>3, ViewSame
  <2> QED
    BY <1>1, <2>1, <2>4, HostStep
<1> QED
  BY <1>2, <1>3

LEMMA ConnFinalized ==
  ASSUME Types, ConnInv, HostFinalized, host.ph # "mcs"
  PROVE  ConnInv'
<1>1. /\ up # <<>> /\ up' = Tail(up) /\ UNCHANGED clientVars /\ Mode' = Mode
      /\ up \in Seq(UpPDUs) /\ up[1].kind = "finalize" /\ Head(up) = up[1] /\ ViewInv
  BY HostPops DEF HostFinalized
<1>2. CASE host.ph = "finalizing" /\ up[1].share = host.share
  <2>1. host' = [host EXCEPT !.ph = "active"] /\ down' = down \o Finals
    BY <1>1, <1>2 DEF HostFinalized, Emit, Finals
  <2>2. host'.ph = "active" /\ host'.share = host.share
    BY <2>1 DEF Types, ConnTypeOK
  <2>3. PICK s \in [1..(Len(down) + 1) -> Modes] : RunOf(s, down, Mode) /\ Match(s[Len(down) + 1], host)
    BY <1>1, <1>2 DEF ViewInv
  <2>4. Shared(s[Len(down) + 1], host) /\ s[Len(down) + 1] \in Modes /\ down \in Seq(DownPDUs)
    <3>1. Len(down) + 1 \in 1..(Len(down) + 1)
      BY DEF Types
    <3> QED
      BY <1>2, <2>3, <3>1 DEF Match, Types
  <2>5. PICK t \in [1..(Len(down') + 1) -> Modes] :
          /\ RunOf(t, down', Mode) /\ t[Len(down') + 1].st = "active"
          /\ t[Len(down') + 1].share = s[Len(down) + 1].share
    BY <2>1, <2>3, <2>4, RunFinals DEF Shared
  <2>6. ViewInv'
    BY <1>1, <2>2, <2>4, <2>5 DEF ViewInv, Match, Owed, Shared
  <2> QED
    BY <1>1, <1>2, <2>2, <2>6, HostStep
<1>3. CASE ~(host.ph = "finalizing" /\ up[1].share = host.share)
  <2>1. host' = host /\ down' = down
    BY <1>1, <1>3 DEF HostFinalized
  <2>2. host.ph = "finalizing" => HasUp(up', "finalize", host.share)
    BY <1>1, <1>3, HasUpLess DEF ViewInv, Owed
  <2>3. HasUp(up, "confirm-active", host.share) => HasUp(up', "confirm-active", host.share)
    BY <1>1, HasUpLess
  <2>4. ViewInv'
    BY <1>1, <2>1, <2>2, <2>3, ViewSame
  <2> QED
    BY <1>1, <2>1, <2>4, HostStep
<1> QED
  BY <1>2, <1>3

\* The host's other steps that take a PDU.
LEMMA ConnTakes ==
  ASSUME Types, ConnInv, NEW k \in {"input", "probe-reply", "layout"}, HostTakes(k), host.ph # "mcs",
         down' = down, host'.ph = host.ph, host'.share = host.share
  PROVE  ConnInv'
<1>1. /\ up # <<>> /\ up' = Tail(up) /\ UNCHANGED clientVars /\ Mode' = Mode
      /\ up \in Seq(UpPDUs) /\ up[1].kind = k /\ ViewInv
  BY HostPops
<1>2. host.ph = "finalizing" => HasUp(up', "finalize", host.share)
  BY <1>1, HasUpLess DEF ViewInv, Owed
<1>3. HasUp(up, "confirm-active", host.share) => HasUp(up', "confirm-active", host.share)
  BY <1>1, HasUpLess
<1>4. \A m : Match(m, host) => Match(m, host')
  BY DEF Match, Shared, Unheard
<1>5. ViewInv'
  BY <1>1, <1>2, <1>3, <1>4, ViewSame
<1> QED
  BY <1>1, <1>5, HostStep

LEMMA ConnLayout ==
  ASSUME Types, ConnInv, HostLayout, host.ph # "mcs"
  PROVE  ConnInv'
<1> DEFINE size == Head(up).size
           a    == host.display # "none" /\ host.ph # "gone" /\ ~(May("ignoresScale") /\ size.res = host.size.res)
           re   == a /\ May("reactivates") /\ host.ph = "active" /\ env.shares > 0
<1>1. /\ HostTakes("layout")
      /\ host' = [host EXCEPT !.size = IF a THEN size ELSE @, !.ph = IF re THEN "caps" ELSE @]
      /\ Emit(IF re THEN <<Down("deactivate-all", 0)>> ELSE <<>>)
  BY DEF HostLayout
<1>2. re \in BOOLEAN /\ (re => host.ph = "active")
  OBVIOUS
<1> HIDE DEF a, re, size
<1>3. host'.share = host.share /\ host'.ph = IF re THEN "caps" ELSE host.ph
  BY <1>1 DEF Types, ConnTypeOK
<1>4. CASE ~re
  BY <1>1, <1>3, <1>4, ConnTakes, NothingEmitted
<1>5. CASE re
  <2>1. host.ph = "active" /\ host'.ph = "caps" /\ down' = down \o <<Down("deactivate-all", 0)>>
    BY <1>1, <1>2, <1>3, <1>5 DEF Emit
  <2>2. Down("deactivate-all", 0) \in DownPDUs
    BY DEF Down, DownPDUs, DownKinds
  <2>3. \A m : Fitting(m, host) =>
          Fits(m, Down("deactivate-all", 0)) /\ Match(After(m, Down("deactivate-all", 0)), host')
    BY <1>3, <2>1 DEF Fitting, Match, Fits, After, Down, Slow, Final, Modes
  <2>4. up' = Tail(up) /\ up # <<>> /\ UNCHANGED clientVars /\ Mode' = Mode /\ ViewInv
    BY <1>1, HostPops
  <2>5. ViewInv'
    BY <2>1, <2>2, <2>3, <2>4, ViewOne
  <2> QED
    BY <2>1, <2>4, <2>5, HostStep
<1> QED
  BY <1>4, <1>5


\* The host sends one PDU of its own accord.
LEMMA ConnSends ==
  ASSUME Types, ConnInv, host.ph \notin {"mcs", "demanded"}, NEW p \in DownPDUs, HostSends(<<p>>),
         host'.ph # "mcs",
         \A m : Fitting(m, host) => Fits(m, p) /\ Match(After(m, p), host'),
         host'.ph = "finalizing" => host.ph = "finalizing" /\ host'.share = host.share,
         host'.ph = "demanded" =>
           /\ p.kind = "demand-active" /\ p.share = host'.share
           /\ \A m : Fitting(m, host) /\ After(m, p).share = host'.share => Confirms(m)
  PROVE  ConnInv'
<1>1. UNCHANGED clientVars /\ up' = up /\ down' = down \o <<p>> /\ Mode' = Mode
  BY ClientRests DEF HostSends, Emit, ConnInv
<1>2. ViewInv /\ (host'.ph = "finalizing" => HasUp(up', "finalize", host'.share))
  BY <1>1 DEF ConnInv, ViewInv, Owed
<1>3. ViewInv'
  BY <1>1, <1>2, ViewOne
<1> QED
  BY <1>1, <1>3, HostStep

\* A PDU that the client's mode does not depend on.
LEMMA PlainAfter ==
  ASSUME NEW p, p.kind \notin Final \cup {"demand-active", "licence", "deactivate-all", "error-info", "ultimatum"}
  PROVE  \A m : After(m, p) = m
BY DEF After

LEMMA ConnLicenses ==
  ASSUME Types, ConnInv, HostLicenses
  PROVE  ConnInv'
<1>1. host.ph = "licence" /\ host'.ph = "caps" /\ host'.share = host.share
  BY DEF HostLicenses, Types, ConnTypeOK
<1>2. CASE May("noLicence")
  <2>1. UNCHANGED clientVars /\ up' = up /\ down' = down /\ Mode' = Mode
    BY <1>2, NothingEmitted, ClientRests DEF HostLicenses, HostSends, ConnInv
  <2>2. \A m : Match(m, host) => Match(m, host')
    BY <1>1 DEF Match
  <2>3. ViewInv'
    BY <1>1, <2>1, <2>2, ViewSame DEF ConnInv
  <2> QED
    BY <1>1, <2>1, <2>3, HostStep
<1>3. CASE ~May("noLicence")
  <2> DEFINE p == Down("licence", 0)
  <2>1. p \in DownPDUs /\ p.kind = "licence" /\ HostSends(<<p>>)
    BY <1>3 DEF HostLicenses, Down, DownPDUs, DownKinds
  <2> HIDE DEF p
  <2>2. ASSUME NEW m, Fitting(m, host) PROVE Fits(m, p) /\ Match(After(m, p), host')
    <3>1. m \in Modes /\ m.st = "licensing" /\ m.share = host.share
      BY <1>1, <2>2 DEF Fitting, Match
    <3>2. After(m, p) = [m EXCEPT !.st = "capabilities"]
      BY <2>1, <3>1 DEF After, Final
    <3>3. After(m, p).st = "capabilities" /\ After(m, p).share = host.share
      BY <3>1, <3>2 DEF Modes
    <3> QED
      BY <1>1, <2>1, <3>1, <3>3 DEF Fits, Match, Slow
  <2> QED
    BY <1>1, <2>1, <2>2, ConnSends
<1> QED
  BY <1>2, <1>3

LEMMA ConnDemands ==
  ASSUME Types, ConnInv, HostDemands \/ HostRedemands
  PROVE  ConnInv'
<1> DEFINE p == Down("demand-active", host'.share)
<1>1. host.share \in Nat /\ host.ph \in {"caps", "active"} /\ host'.ph = "demanded" /\ host'.share = host.share + 1
  BY DEF HostDemands, HostRedemands, Types, ConnTypeOK
<1>2. p \in DownPDUs /\ p.kind = "demand-active" /\ p.share = host.share + 1 /\ HostSends(<<p>>)
  BY <1>1 DEF HostDemands, HostRedemands, Down, DownPDUs, DownKinds
<1> HIDE DEF p
<1>3. ASSUME NEW m, Fitting(m, host)
      PROVE  /\ Fits(m, p) /\ Match(After(m, p), host')
             /\ After(m, p).share = host'.share => Confirms(m)
  <2>1. /\ m \in Modes /\ m.share = host.share
        /\ m.st \in {"licensing", "capabilities", "finalization", "active"}
        /\ m.st = "active" \/ host.ph = "caps"
    BY <1>1, <1>3 DEF Fitting, Match
  <2>2. After(m, p) = Demanded(m, p.share)
    BY <1>2 DEF After, Final
  <2>3. CASE Confirms(m)
    <3>1. /\ After(m, p).share = host'.share
          /\ After(m, p).st = "active" \/ (After(m, p).st = "finalization" /\ After(m, p).fin = {})
      BY <1>1, <1>2, <2>2, <2>3 DEF Demanded
    <3> QED
      BY <1>1, <1>2, <2>1, <2>3, <3>1 DEF Fits, Match, Shared, Slow
  <2>4. CASE ~Confirms(m)
    <3>1. m.st \in {"licensing", "finalization"}
      BY <2>1, <2>4 DEF Confirms
    <3>2. After(m, p).share = host.share /\ After(m, p).st \in {"capabilities", "finalization"}
      BY <2>1, <2>2, <2>4, <3>1 DEF Demanded, Modes
    <3> QED
      BY <1>1, <1>2, <2>1, <3>2 DEF Fits, Match, Unheard, Slow
  <2> QED
    BY <2>3, <2>4
<1>4. host'.ph = "demanded" => p.share = host'.share
  BY <1>1, <1>2
<1> QED
  BY <1>1, <1>2, <1>3, <1>4, ConnSends

LEMMA ConnDeactivates ==
  ASSUME Types, ConnInv, HostDeactivates
  PROVE  ConnInv'
<1> DEFINE p == Down("deactivate-all", 0)
<1>1. host.ph \in {"caps", "active", "finalizing"} /\ host'.ph = "caps" /\ host'.share = host.share
  BY DEF HostDeactivates, Deactivable, Types, ConnTypeOK
<1>2. p \in DownPDUs /\ p.kind = "deactivate-all" /\ HostSends(<<p>>)
  BY DEF HostDeactivates, Down, DownPDUs, DownKinds
<1> HIDE DEF p
<1>3. ASSUME NEW m, Fitting(m, host) PROVE Fits(m, p) /\ Match(After(m, p), host')
  <2>1. /\ m \in Modes /\ m.share = host.share
        /\ m.st \in {"licensing", "capabilities", "finalization", "active"}
    BY <1>1, <1>3 DEF Fitting, Match, Shared
  <2>2. After(m, p).share = m.share /\ After(m, p).st \in {"licensing", "capabilities", "finalization"}
    BY <1>2, <2>1 DEF After, Final, Modes
  <2> QED
    BY <1>1, <1>2, <2>1, <2>2 DEF Fits, Match, Slow
<1> QED
  BY <1>1, <1>2, <1>3, ConnSends

\* What does not change the mode of the client.
LEMMA ConnTells ==
  ASSUME Types, ConnInv, HostDraws \/ HostProbes \/ HostDisplay
  PROVE  ConnInv'
<1> DEFINE kinds == {"probe", "display-create", "display-caps", "display-close"}
<1>1. /\ host'.ph = host.ph /\ host'.share = host.share
      /\ host.ph \in {"licence", "caps", "finalizing", "active"}
  BY DEF HostDraws, HostProbes, HostDisplay, Types, ConnTypeOK
<1>2. \E p \in DownPDUs : /\ HostSends(<<p>>) /\ p.kind \in kinds \cup {"output"}
                          /\ p.kind = "output" => host.ph = "active" \/ (host.ph = "finalizing" /\ p.share + 1 = host.share)
  <2>1. \A k \in DownKinds, s \in Nat : Down(k, s) \in DownPDUs /\ Down(k, s).kind = k
    BY DEF Down, DownPDUs
  <2>2. host.share \in Nat /\ kinds \cup {"output"} \subseteq DownKinds
    BY DEF Types, ConnTypeOK, DownKinds
  <2>3. CASE HostDraws
    <3>1. HostSends(<<Down("output", LastFinalized)>>) /\ host.ph \in {"finalizing", "active"}
          /\ LastFinalized \in Nat /\ (host.ph = "finalizing" => LastFinalized + 1 = host.share)
      BY <2>2, <2>3, DrawnNat DEF HostDraws, LastFinalized
    <3> QED
      BY <2>1, <2>2, <3>1 DEF Down
  <2>4. CASE HostProbes \/ HostDisplay
    <3>1. \E k \in kinds : HostSends(<<Down(k, 0)>>)
      BY <2>4 DEF HostProbes, HostDisplay
    <3> QED
      BY <2>1, <2>2, <3>1
  <2> QED
    BY <2>3, <2>4
<1>3. PICK p \in DownPDUs : /\ HostSends(<<p>>) /\ p.kind \in kinds \cup {"output"}
                            /\ p.kind = "output" => host.ph = "active" \/ (host.ph = "finalizing" /\ p.share + 1 = host.share)
  BY <1>2
<1>4. ASSUME NEW m, Fitting(m, host) PROVE Fits(m, p) /\ Match(After(m, p), host')
  <2>1. After(m, p) = m /\ p.kind \notin {"demand-active", "connect-response", "attach-confirm", "join-confirm"}
    BY <1>3, PlainAfter DEF Final
  <2>2. Match(m, host')
    BY <1>1, <1>4 DEF Fitting, Match, Shared
  <2>3. p.kind = "output" => m.st = "active" \/ (m.st = "finalization" /\ p.share + 1 = m.share)
    BY <1>3, <1>4 DEF Fitting, Match, Shared
  <2> QED
    BY <1>4, <2>1, <2>2, <2>3 DEF Fitting, Fits
<1> QED
  BY <1>1, <1>3, <1>4, ConnSends

LEMMA ConnEnds ==
  ASSUME Types, ConnInv, HostEnds
  PROVE  ConnInv'
<1> DEFINE x == Down("error-info", 0)
           y == Down("ultimatum", 0)
<1>1. host.ph \notin {"mcs", "gone"} /\ host'.ph = "gone"
  BY DEF HostEnds, Types, ConnTypeOK
<1>2. x \in DownPDUs /\ x.kind = "error-info" /\ y \in DownPDUs /\ y.kind = "ultimatum"
  BY DEF Down, DownPDUs, DownKinds
<1>3. /\ UNCHANGED clientVars /\ up' = up
      /\ down' = down \o <<x, y>> \/ down' = down \o <<y>>
  BY DEF HostEnds, HostSends, Emit
<1> HIDE DEF x, y
<1>4. \A m \in Modes : After(m, y).st = "closed"
  BY <1>2 DEF After, Final, Modes
<1>5. PICK s \in [1..(Len(down) + 1) -> Modes] : RunOf(s, down, Mode)
  BY <1>1 DEF ConnInv, ViewInv
<1> DEFINE m == s[Len(down) + 1]
<1>6. down \in Seq(DownPDUs) /\ m \in Modes /\ m.st \in Slow \cup {"closed"} /\ Mode' = Mode
  <2>1. Len(down) + 1 \in 1..(Len(down) + 1)
    BY DEF Types
  <2> QED
    BY <1>3, <1>5, <2>1, ClientRests DEF RunOf, Types, ConnInv
<1>7. Fits(m, x) /\ Fits(m, y)
  BY <1>2, <1>6 DEF Fits
<1>8. After(m, x) \in Modes /\ Fits(After(m, x), y)
  BY <1>2, <1>6, <1>7, AfterModes DEF Fits
<1> HIDE DEF m
<1>9. \E t \in [1..(Len(down') + 1) -> Modes] : RunOf(t, down', Mode) /\ t[Len(down') + 1].st = "closed"
  <2>1. CASE down' = down \o <<y>>
    BY <1>2, <1>4, <1>5, <1>6, <1>7, <2>1, RunOne DEF m
  <2>2. CASE down' = down \o <<x, y>>
    <3>1. After(After(m, x), y).st = "closed"
      BY <1>4, <1>8
    <3>2. /\ Fits(s[Len(down) + 1], x) /\ Fits(After(s[Len(down) + 1], x), y)
          /\ After(After(s[Len(down) + 1], x), y).st = "closed"
      BY <1>7, <1>8, <3>1 DEF m
    <3>3. \E t \in [1..(Len(down \o <<x, y>>) + 1) -> Modes] :
            /\ RunOf(t, down \o <<x, y>>, Mode)
            /\ t[Len(down \o <<x, y>>) + 1] = After(After(s[Len(down) + 1], x), y)
      BY <1>2, <1>5, <1>6, <3>2, RunTwo
    <3> QED
      BY <2>2, <3>2, <3>3
  <2> QED
    BY <1>3, <2>1, <2>2
<1>10. ViewInv'
  BY <1>1, <1>6, <1>9 DEF ViewInv, Match, Owed
<1> QED
  BY <1>1, <1>3, <1>10, HostStep

\* The host does not know the client yet.
LEMMA ConnHand ==
  ASSUME Types, ConnInv, HostNext, host.ph = "mcs"
  PROVE  ConnInv'
<1>1. /\ share = 0 /\ host.share = 0 /\ fin = {} /\ again = FALSE
      /\ \/ /\ st = "basic"
            /\ \/ up = <<Just("connect-initial")>> /\ down = <<>>
               \/ up = <<>> /\ down = <<Down("connect-response", 0)>>
         \/ /\ st = "attach"
            /\ \/ up = <<Just("erect-domain"), Just("attach-user")>> /\ down = <<>>
               \/ up = <<Just("attach-user")>> /\ down = <<>>
               \/ up = <<>> /\ down = <<Down("attach-confirm", 0)>>
         \/ /\ st = "join"
            /\ \/ up = <<Just("join")>> /\ down = <<>>
               \/ up = <<>> /\ down = <<Down("join-confirm", 0)>>
         \/ st = "licensing" /\ up = <<Just("client-info")>> /\ down = <<>>
  BY DEF ConnInv, HandInv
<1>2. \A k : Just(k).kind = k
  BY DEF Just, Up
<1>3. HostReceives
  BY DEF HostNext, HostLicenses, HostDemands, HostDeactivates, Deactivable, HostRedemands, HostDraws,
         HostProbes, HostDisplay, HostEnds
<1>4. up # <<>> /\ UNCHANGED clientVars /\ up' = Tail(up)
  BY <1>3 DEF HostReceives, HostReplies, HostClientInfo, HostConfirmed, HostFinalized, HostLayout, HostProbed,
              HostTakes
<1>5. /\ ShareInv' /\ LaterOutputDrawn' /\ CloseOnce' /\ ActiveOncePerShare' /\ Mode' = Mode
      /\ UNCHANGED <<st, share, fin, again>>
  BY <1>4, ClientRests DEF ConnInv, clientVars
<1>6. \/ st = "basic" /\ up = <<Just("connect-initial")>>
      \/ st = "attach" /\ up = <<Just("erect-domain"), Just("attach-user")>>
      \/ st = "attach" /\ up = <<Just("attach-user")>>
      \/ st = "join" /\ up = <<Just("join")>>
      \/ st = "licensing" /\ up = <<Just("client-info")>>
  BY <1>1, <1>4
<1>7. down = <<>> /\ \A a \in Seq(DownPDUs) : down \o a = a
  BY <1>1, <1>4, ConcatEmptySeq
<1>8. \A x, y : Head(<<x>>) = x /\ Tail(<<x>>) = <<>> /\ Head(<<x, y>>) = x /\ Tail(<<x, y>>) = <<y>>
  OBVIOUS
<1>9. Head(up).kind \in {"connect-initial", "erect-domain", "attach-user", "join", "client-info"}
  BY <1>2, <1>6, <1>8
<1>10. \/ HostReplies("connect-initial", <<Down("connect-response", 0)>>)
       \/ HostReplies("erect-domain", <<>>)
       \/ HostReplies("attach-user", <<Down("attach-confirm", 0)>>)
       \/ HostReplies("join", <<Down("join-confirm", 0)>>)
       \/ HostClientInfo
  <2>1. ~HostReplies("input", <<>>) /\ ~HostConfirmed /\ ~HostFinalized /\ ~HostLayout /\ ~HostProbed
    BY <1>9 DEF HostReplies, HostConfirmed, HostFinalized, HostLayout, HostProbed, HostTakes
  <2> QED
    BY <1>3, <2>1 DEF HostReceives
<1>11. \A k \in DownKinds : <<Down(k, 0)>> \in Seq(DownPDUs)
  BY PlainDown
<1>17. /\ Head(up).kind = "connect-initial" => st = "basic" /\ up' = <<>>
       /\ Head(up).kind = "erect-domain" => st = "attach" /\ up' = <<Just("attach-user")>>
       /\ Head(up).kind = "attach-user" => st = "attach" /\ up' = <<>>
       /\ Head(up).kind = "join" => st = "join" /\ up' = <<>>
       /\ Head(up).kind = "client-info" => st = "licensing" /\ up' = <<>>
  <2>1. CASE st = "basic" /\ up = <<Just("connect-initial")>>
    <3>1. Head(up) = Just("connect-initial") /\ Tail(up) = <<>>
      BY <1>8, <2>1
    <3>2. Head(up).kind = "connect-initial"
      BY <1>2, <3>1
    <3> QED
      BY <1>4, <2>1, <3>1, <3>2
  <2>2. CASE st = "attach" /\ up = <<Just("erect-domain"), Just("attach-user")>>
    <3>1. Head(up) = Just("erect-domain") /\ Tail(up) = <<Just("attach-user")>>
      BY <1>8, <2>2
    <3>2. Head(up).kind = "erect-domain"
      BY <1>2, <3>1
    <3> QED
      BY <1>4, <2>2, <3>1, <3>2
  <2>3. CASE st = "attach" /\ up = <<Just("attach-user")>>
    <3>1. Head(up) = Just("attach-user") /\ Tail(up) = <<>>
      BY <1>8, <2>3
    <3>2. Head(up).kind = "attach-user"
      BY <1>2, <3>1
    <3> QED
      BY <1>4, <2>3, <3>1, <3>2
  <2>4. CASE st = "join" /\ up = <<Just("join")>>
    <3>1. Head(up) = Just("join") /\ Tail(up) = <<>>
      BY <1>8, <2>4
    <3>2. Head(up).kind = "join"
      BY <1>2, <3>1
    <3> QED
      BY <1>4, <2>4, <3>1, <3>2
  <2>5. CASE st = "licensing" /\ up = <<Just("client-info")>>
    <3>1. Head(up) = Just("client-info") /\ Tail(up) = <<>>
      BY <1>8, <2>5
    <3>2. Head(up).kind = "client-info"
      BY <1>2, <3>1
    <3> QED
      BY <1>4, <2>5, <3>1, <3>2
  <2> QED
    BY <1>6, <2>1, <2>2, <2>3, <2>4, <2>5
<1>18. ASSUME NEW k, NEW r \in Seq(DownPDUs), HostReplies(k, r)
       PROVE  Head(up).kind = k /\ down' = r /\ host' = host
  BY <1>7, <1>18 DEF HostReplies, HostTakes, Emit
<1>12. CASE HostReplies("connect-initial", <<Down("connect-response", 0)>>)
  <2>1. st = "basic" /\ up' = <<>> /\ down' = <<Down("connect-response", 0)>> /\ host' = host
    BY <1>11, <1>12, <1>17, <1>18 DEF DownKinds
  <2> QED
    BY <1>1, <1>5, <2>1 DEF ConnInv, HandInv, UpInv, ViewInv
<1>13. CASE HostReplies("erect-domain", <<>>)
  <2>1. st = "attach" /\ up' = <<Just("attach-user")>> /\ down' = <<>> /\ host' = host
    BY <1>13, <1>17, <1>18, EmptySeq
  <2> QED
    BY <1>1, <1>5, <2>1 DEF ConnInv, HandInv, UpInv, ViewInv
<1>14. CASE HostReplies("attach-user", <<Down("attach-confirm", 0)>>)
  <2>1. st = "attach" /\ up' = <<>> /\ down' = <<Down("attach-confirm", 0)>> /\ host' = host
    BY <1>11, <1>14, <1>17, <1>18 DEF DownKinds
  <2> QED
    BY <1>1, <1>5, <2>1 DEF ConnInv, HandInv, UpInv, ViewInv
<1>15. CASE HostReplies("join", <<Down("join-confirm", 0)>>)
  <2>1. st = "join" /\ up' = <<>> /\ down' = <<Down("join-confirm", 0)>> /\ host' = host
    BY <1>11, <1>15, <1>17, <1>18 DEF DownKinds
  <2> QED
    BY <1>1, <1>5, <2>1 DEF ConnInv, HandInv, UpInv, ViewInv
<1>16. CASE HostClientInfo
  <2>1. st = "licensing" /\ up' = <<>> /\ down' = <<>> /\ host'.ph = "licence" /\ host'.share = 0
    <3>1. st = "licensing" /\ up' = <<>> /\ down' = <<>>
      BY <1>7, <1>16, <1>17 DEF HostClientInfo, HostTakes
    <3> QED
      BY <1>1, <1>16, <3>1 DEF HostClientInfo, Types, ConnTypeOK
  <2>2. HandInv' /\ UpInv'
    BY <1>5, <2>1 DEF HandInv, UpInv, UpOK, Slow
  <2>3. ViewInv'
    <3> DEFINE s == [i \in 1..1 |-> Mode]
    <3>1. Mode \in Modes /\ Mode.st = "licensing" /\ Mode.share = 0
      BY <1>1, <2>1 DEF Mode, Modes, Types, ConnTypeOK
    <3>2. s \in [1..1 -> Modes] /\ s[1] = Mode
      BY <3>1
    <3>3. Len(down') = 0
      BY <2>1
    <3> HIDE DEF s
    <3>4. RunOf(s, down', Mode')
      BY <1>5, <3>1, <3>2, <3>3 DEF RunOf, Slow
    <3>5. Match(s[Len(down') + 1], host') /\ Owed(s, down', up', host')
      BY <2>1, <3>1, <3>2, <3>3 DEF Match, Owed
    <3> QED
      BY <3>2, <3>3, <3>4, <3>5 DEF ViewInv
  <2> QED
    BY <1>5, <2>2, <2>3 DEF ConnInv
<1> QED
  BY <1>10, <1>12, <1>13, <1>14, <1>15, <1>16

LEMMA ConnHost ==
  ASSUME Types, ConnInv, HostNext
  PROVE  ConnInv'
<1>1. CASE host.ph = "mcs"
  BY <1>1, ConnHand
<1>2. CASE host.ph # "mcs"
  <2>1. CASE HostReceives
    <3>1. ~HostClientInfo
      BY <1>2, HostPops DEF HostClientInfo
    <3>2. ASSUME NEW k, NEW r, k \in {"connect-initial", "erect-domain", "attach-user", "join"}
          PROVE  ~HostReplies(k, r)
      BY <1>2, <3>2, HostPops DEF HostReplies
    <3>3. HostReplies("input", <<>>) => ConnInv'
      BY <1>2, ConnTakes, NothingEmitted DEF HostReplies
    <3>4. HostProbed => ConnInv'
      <4>1. HostProbed => host'.ph = host.ph /\ host'.share = host.share
        BY DEF HostProbed, Types, ConnTypeOK
      <4> QED
        BY <1>2, <4>1, ConnTakes DEF HostProbed
    <3> QED
      BY <1>2, <2>1, <3>1, <3>2, <3>3, <3>4, ConnConfirmed, ConnFinalized, ConnLayout DEF HostReceives
  <2>2. CASE ~HostReceives
    BY <2>2, ConnLicenses, ConnDemands, ConnDeactivates, ConnTells, ConnEnds DEF HostNext
  <2> QED
    BY <2>1, <2>2
<1> QED
  BY <1>1, <1>2


-----------------------------------------------------------------------------
(* The page, and the initial states.                                       *)

LEMMA ConnQueue ==
  ASSUME Types, ConnInv, UNCHANGED <<st, fin, share, again, page, down, host>>,
         \/ up' = up
         \/ st = "active" /\ \E p \in UpPDUs : p.kind \in {"input", "layout"} /\ up' = up \o <<p>>
  PROVE  ConnInv'
<1>1. Mode' = Mode /\ ShareInv' /\ LaterOutputDrawn' /\ CloseOnce' /\ ActiveOncePerShare'
  BY DEF Mode, ConnInv, ShareInv, LaterOutputDrawn, CloseOnce, ActiveOncePerShare
<1>2. CASE up' = up
  BY <1>1, <1>2 DEF ConnInv, HandInv, UpInv, ViewInv
<1>3. CASE up' # up
  <2>1. PICK p \in UpPDUs : st = "active" /\ p.kind \in {"input", "layout"} /\ up' = up \o <<p>>
    BY <1>3
  <2>2. host.ph # "mcs" /\ HandInv'
    BY <2>1 DEF ConnInv, HandInv, Slow
  <2>3. up \in Seq(UpPDUs) /\ <<p>> \in Seq(UpPDUs) /\ share \in Nat
    BY DEF Types, ConnTypeOK
  <2>4. UpOK(up, share) /\ UpOK(<<p>>, share)
    BY <2>1, <2>2, UpOKOne DEF ConnInv, UpInv
  <2>5. UpInv'
    <3>1. share <= share
      BY <2>3
    <3>2. UpOK(up', share)
      BY <2>1, <2>3, <2>4, <3>1, UpOKMore
    <3> QED
      BY <3>2 DEF UpInv
  <2>6. \A k, sh : HasUp(up, k, sh) => HasUp(up', k, sh)
    BY <2>1, <2>3, HasUpMore
  <2>7. ViewInv'
    <3>1. PICK s \in [1..(Len(down) + 1) -> Modes] :
            RunOf(s, down, Mode) /\ Match(s[Len(down) + 1], host) /\ Owed(s, down, up, host)
      BY <2>2 DEF ConnInv, ViewInv
    <3>2. Owed(s, down, up', host)
      BY <2>6, <3>1 DEF Owed
    <3> QED
      BY <1>1, <3>1, <3>2 DEF ViewInv
  <2> QED
    BY <1>1, <2>2, <2>5, <2>7 DEF ConnInv
<1> QED
  BY <1>2, <1>3

LEMMA ConnPage ==
  ASSUME Types, ConnInv, PageNext
  PROVE  ConnInv'
<1>1. CASE Callback \/ ScaleTimer \/ ResizeTimer
  <2>1. ConnectionRests
    BY <1>1, PageSends
  <2>2. PICK size \in Sizes : Sends(size)
    BY <1>1, PageSends
  <2>3. Up("layout", 0, size) \in UpPDUs /\ Up("layout", 0, size).kind = "layout"
    BY PlainPDU DEF UpKinds, Up
  <2>4. up' = up \/ (st = "active" /\ up' = up \o <<Up("layout", 0, size)>>)
    BY <2>2 DEF Sends, canResize
  <2> QED
    BY <2>1, <2>3, <2>4, ConnQueue DEF ConnectionRests
<1>2. CASE Settles
  BY <1>2, ConnQueue DEF Settles, connVars, clientVars
<1>3. ASSUME NEW res \in Windows, ViewportChanges(res) PROVE ConnInv'
  BY <1>3, ConnQueue DEF ViewportChanges, clientVars
<1> QED
  BY <1>1, <1>2, <1>3 DEF PageNext

LEMMA ConnNext ==
  ASSUME Types, ConnInv, [Next]_vars
  PROVE  ConnInv'
<1>1. CASE UNCHANGED vars
  BY <1>1, ConnQueue DEF vars, connVars, clientVars
<1>2. CASE Fed
  BY <1>2, ConnFed DEF Fed
<1>3. CASE SendInput
  <2>1. /\ st = "active" /\ up' = up \o <<Up("input", share, NoSize)>>
        /\ UNCHANGED <<st, fin, share, again, page, down, host>>
    BY <1>3 DEF SendInput, Send, clientVars
  <2>2. Up("input", share, NoSize) \in UpPDUs /\ Up("input", share, NoSize).kind = "input"
    BY DEF Up, UpPDUs, UpKinds, Types, ConnTypeOK
  <2> QED
    BY <2>1, <2>2, ConnQueue
<1> QED
  BY <1>1, <1>2, <1>3, ConnPage, ConnHost DEF Next, Rest

LEMMA TypesInit == Init => Types
<1> SUFFICES ASSUME Init PROVE Types
  OBVIOUS
<1>1. env \in EnvTypes /\ env.size \in Sizes /\ env.size.res \in Nat
  BY ConnectionAssumption DEF Init, ConnInit, EnvTypes, Sizes
<1>2. ConnTypeOK
  <2>1. ConnInit
    BY DEF Init
  <2>2. join \in Seq({"user", "io", "message"} \cup Channels)
    BY <2>1 DEF ConnInit
  <2>3. /\ host \in [ph : {"mcs", "licence", "caps", "demanded", "finalizing", "active", "gone"},
                    share : Nat, size : Sizes, drawn : Nat, probes : Nat, replies : Nat,
                    display : {"none", "open", "ready"}]
        /\ page \in [active : Nat, closed : Nat, drawn : Nat, lost : SUBSET Nat, size : Sizes]
        /\ desk \in [size : Sizes, pending : Sizes \cup {NoSize}, sent : BOOLEAN]
        /\ display \in [open : BOOLEAN, caps : BOOLEAN]
    BY <1>1, <2>1 DEF ConnInit
  <2>4. /\ env \in [may : SUBSET Hazards, shares : Nat, draws : Nat, resizes : Nat, size : Sizes]
        /\ st \in States /\ fin \in SUBSET Final /\ share \in Nat /\ again \in BOOLEAN
    BY <1>1, <2>1 DEF ConnInit, EnvTypes, States
  <2> QED
    BY <2>2, <2>3, <2>4 DEF ConnTypeOK
<1>3. ScaleTypeOK
  BY <1>1 DEF Init, ScaleTypeOK, Undefined
<1>4. UpTypes(<<Just("connect-initial")>>)
  BY UpOne, JustPDU DEF UpKinds
<1> QED
  BY <1>2, <1>3, <1>4 DEF Init, ConnInit, Types, UpTypes, Begun

LEMMA ConnStarts == Init => ConnInv
<1> SUFFICES ASSUME Init PROVE ConnInv
  OBVIOUS
<1>1. /\ st = "basic" /\ fin = {} /\ share = 0 /\ again = FALSE /\ host.ph = "mcs" /\ host.share = 0
      /\ page.active = 0 /\ page.closed = 0 /\ page.lost = {}
      /\ up = <<Just("connect-initial")>> /\ down = <<>>
  BY DEF Init, ConnInit
<1> QED
  BY <1>1 DEF ConnInv, HandInv, UpInv, ViewInv, ShareInv, ModeOK, Mode, LaterOutputDrawn, CloseOnce,
              ActiveOncePerShare

\* With nothing on its way the client is what the host believes it is.
LEMMA EndsMeet ==
  ASSUME Types, ConnInv
  PROVE  EndsAgree
<1> SUFFICES ASSUME Quiescent PROVE ((st = "active") <=> (host.ph = "active")) /\ (st = "active" => share = host.share)
  BY DEF EndsAgree
<1>1. up = <<>> /\ down = <<>> /\ Len(up) = 0 /\ Len(down) = 0
  BY DEF Quiescent
<1>2. \A x, y : <<x>> # <<>> /\ <<x, y>> # <<>>
  OBVIOUS
<1>3. host.ph # "mcs"
  BY <1>1, <1>2 DEF ConnInv, HandInv
<1>4. PICK s \in [1..(Len(down) + 1) -> Modes] :
        RunOf(s, down, Mode) /\ Match(s[Len(down) + 1], host) /\ Owed(s, down, up, host)
  BY <1>3 DEF ConnInv, ViewInv
<1>5. s[Len(down) + 1] = Mode /\ Mode.st = st /\ Mode.share = share
  BY <1>1, <1>4 DEF RunOf, Mode
<1>6. host.ph # "finalizing" /\ (host.ph = "demanded" => share # host.share)
  BY <1>1, <1>4, <1>5 DEF Owed, HasUp
<1>7. host.ph \in {"licence", "caps", "demanded", "active", "gone"}
  BY <1>3, <1>6 DEF Types, ConnTypeOK
<1> QED
  BY <1>4, <1>5, <1>6, <1>7 DEF Match, Shared, Unheard

\* The ends of the connection and the page never come apart (property Coherent), with
\* every host and whatever is on its way.
THEOREM ConnectionCoherent == Spec => []Coherent
<1>1. Init => Types /\ ConnInv
  BY TypesInit, ConnStarts
<1>2. Types /\ ConnInv /\ [Next]_vars => (Types /\ ConnInv)'
  BY TypesNext, ConnNext
<1>3. Types /\ ConnInv => Coherent
  BY EndsMeet DEF Coherent, Types, ConnInv
<1> QED
  BY <1>1, <1>2, <1>3, PTL DEF Spec


-----------------------------------------------------------------------------
(* Layouts on their way.                                                   *)

\* What is on its way is no layout, or has one.
LEMMA LayoutsMore ==
  ASSUME NEW q \in Seq(UpPDUs), NEW a \in Seq(UpPDUs), NoLayout(a)
  PROVE  /\ NoLayout(q) => NoLayout(q \o a)
         /\ \A z : LastLayout(q, z) => LastLayout(q \o a, z)
         /\ \A w : Scaled(q, w) => Scaled(q \o a, w)
         /\ \A res : Tells(q, res) => Tells(q \o a, res)
<1> DEFINE r == q \o a
           n == Len(q)
           k == Len(a)
<1>1. /\ n \in Nat /\ k \in Nat /\ Len(r) = n + k
      /\ \A i \in 1..n : r[i] = q[i]
      /\ \A i \in 1..(n + k) : i \in 1..n \/ (i - n \in 1..k /\ r[i] = a[i - n])
  BY Joined
<1> HIDE DEF r
<1>2. \A i \in 1..Len(r) : i \in 1..n \/ ~IsLayout(r[i])
  BY <1>1 DEF NoLayout
<1>3. \A i \in 1..n : i \in 1..Len(r)
  BY <1>1
<1>4. NoLayout(q) => NoLayout(r)
  BY <1>1, <1>2 DEF NoLayout
<1>5. ASSUME NEW z, LastLayout(q, z) PROVE LastLayout(r, z)
  <2>1. PICK i \in 1..n : IsLayout(q[i]) /\ q[i].size = z /\ \A j \in (i + 1)..n : ~IsLayout(q[j])
    BY <1>5 DEF LastLayout
  <2>2. ASSUME NEW j \in (i + 1)..Len(r) PROVE ~IsLayout(r[j])
    <3>1. j \in 1..Len(r) /\ (j \in 1..n => j \in (i + 1)..n)
      BY <1>1
    <3> QED
      BY <1>1, <1>2, <2>1, <3>1
  <2> QED
    BY <1>1, <1>3, <2>1, <2>2 DEF LastLayout
<1>6. \A w : Scaled(q, w) => Scaled(r, w)
  BY <1>1, <1>2 DEF Scaled
<1>7. \A res : Tells(q, res) => Tells(r, res)
  BY <1>1, <1>3 DEF Tells
<1> QED
  BY <1>4, <1>5, <1>6, <1>7 DEF r

LEMMA LayoutLast ==
  ASSUME NEW q \in Seq(UpPDUs), NEW p \in UpPDUs, IsLayout(p)
  PROVE  /\ LastLayout(q \o <<p>>, p.size)
         /\ \A w : Scaled(q, w) /\ p.size.scale = w => Scaled(q \o <<p>>, w)
         /\ \A res : Tells(q, res) \/ p.size.res # res => Tells(q \o <<p>>, res)
<1> DEFINE r == q \o <<p>>
           n == Len(q)
<1>1. <<p>> \in Seq(UpPDUs) /\ Len(<<p>>) = 1 /\ <<p>>[1] = p
  BY OneOf
<1>2. /\ n \in Nat /\ Len(r) = n + 1 /\ \A i \in 1..n : r[i] = q[i]
      /\ \A i \in 1..1 : r[n + i] = <<p>>[i]
  BY <1>1, Joined
<1> HIDE DEF r
<1>3. r[n + 1] = p /\ n + 1 \in 1..Len(r) /\ \A i \in 1..Len(r) : i \in 1..n \/ i = n + 1
  BY <1>1, <1>2
<1>4. \A i \in 1..n : i \in 1..Len(r)
  BY <1>2
<1>5. LastLayout(r, p.size)
  <2>1. (n + 1 + 1)..Len(r) = {}
    BY <1>2
  <2> QED
    BY <1>3, <2>1 DEF LastLayout
<1>6. \A w : Scaled(q, w) /\ p.size.scale = w => Scaled(r, w)
  BY <1>2, <1>3 DEF Scaled
<1>7. \A res : Tells(q, res) \/ p.size.res # res => Tells(r, res)
  BY <1>2, <1>3, <1>4 DEF Tells
<1> QED
  BY <1>5, <1>6, <1>7 DEF r

\* The host takes one.
LEMMA LayoutsLess ==
  ASSUME NEW q \in Seq(UpPDUs), q # <<>>
  PROVE  /\ NoLayout(q) => NoLayout(Tail(q)) /\ ~IsLayout(q[1])
         /\ \A z : LastLayout(q, z) =>
              LastLayout(Tail(q), z) \/ (NoLayout(Tail(q)) /\ IsLayout(q[1]) /\ q[1].size = z)
         /\ \A w : Scaled(q, w) => Scaled(Tail(q), w) /\ (IsLayout(q[1]) => q[1].size.scale = w)
         /\ \A res : Tells(q, res) => Tells(Tail(q), res) \/ (IsLayout(q[1]) /\ q[1].size.res # res)
<1> DEFINE r == Tail(q)
           n == Len(q)
<1>1. /\ n \in Nat \ {0} /\ Len(r) = n - 1
      /\ \A i \in 1..Len(r) : i + 1 \in 1..n /\ r[i] = q[i + 1]
  BY Popped
<1> HIDE DEF r
<1>2. 1 \in 1..n /\ \A i \in 1..n : i = 1 \/ (i - 1 \in 1..Len(r) /\ r[i - 1] = q[i])
  <2>1. 1 \in 1..n
    BY <1>1
  <2>2. ASSUME NEW i \in 1..n, i # 1 PROVE i - 1 \in 1..Len(r) /\ r[i - 1] = q[i]
    <3>1. i - 1 \in 1..Len(r) /\ (i - 1) + 1 = i
      BY <1>1, <2>2
    <3>2. r[i - 1] = q[(i - 1) + 1]
      BY <1>1, <3>1
    <3> QED
      BY <3>1, <3>2
  <2> QED
    BY <2>1, <2>2
<1>3. NoLayout(q) => NoLayout(r) /\ ~IsLayout(q[1])
  BY <1>1, <1>2 DEF NoLayout
<1>4. ASSUME NEW z, LastLayout(q, z)
      PROVE  LastLayout(r, z) \/ (NoLayout(r) /\ IsLayout(q[1]) /\ q[1].size = z)
  <2>1. PICK i \in 1..n : IsLayout(q[i]) /\ q[i].size = z /\ \A j \in (i + 1)..n : ~IsLayout(q[j])
    BY <1>4 DEF LastLayout
  <2>2. \A j \in 1..Len(r) : j >= i => ~IsLayout(r[j])
    <3>1. \A j \in 1..Len(r) : j >= i => j + 1 \in (i + 1)..n
      BY <1>1
    <3> QED
      BY <1>1, <2>1, <3>1
  <2>3. CASE i = 1
    BY <2>1, <2>2, <2>3 DEF NoLayout
  <2>4. CASE i # 1
    <3>1. i - 1 \in 1..Len(r) /\ r[i - 1] = q[i]
      BY <1>2, <2>4
    <3>2. \A j \in ((i - 1) + 1)..Len(r) : j \in 1..Len(r) /\ j >= i
      BY <1>1
    <3>3. LastLayout(r, z)
      BY <2>1, <2>2, <3>1, <3>2 DEF LastLayout
    <3> QED
      BY <3>3
  <2> QED
    BY <2>3, <2>4
<1>5. \A w : Scaled(q, w) => Scaled(r, w) /\ (IsLayout(q[1]) => q[1].size.scale = w)
  BY <1>1, <1>2 DEF Scaled
<1>6. \A res : Tells(q, res) => Tells(r, res) \/ (IsLayout(q[1]) /\ q[1].size.res # res)
  BY <1>2 DEF Tells
<1> QED
  BY <1>3, <1>4, <1>5, <1>6 DEF r

LEMMA NoCapsMore ==
  ASSUME NEW q \in Seq(DownPDUs), NEW a \in Seq(DownPDUs), NoCaps(q), NoCaps(a)
  PROVE  NoCaps(q \o a)
<1> DEFINE r == q \o a
<1>1. \A i \in 1..Len(r) : (i \in 1..Len(q) /\ r[i] = q[i]) \/ (i - Len(q) \in 1..Len(a) /\ r[i] = a[i - Len(q)])
  BY Joined
<1> HIDE DEF r
<1>2. NoCaps(r)
  BY <1>1 DEF NoCaps
<1> QED
  BY <1>2 DEF r

LEMMA NoCapsLess ==
  ASSUME NEW q \in Seq(DownPDUs), q # <<>>, NoCaps(q)
  PROVE  NoCaps(Tail(q)) /\ Head(q).kind # "display-caps"
<1>1. 1 \in 1..Len(q)
  BY Popped
<1> QED
  BY <1>1, Popped DEF NoCaps

LEMMA AnswersPlain == \A a \in Answers : a \in Seq(UpPDUs) /\ NoLayout(a)
<1>1. \A k, s, z : Up(k, s, z).kind = k
  BY DEF Up
<1>2. \A x, y : /\ Len(<<x>>) = 1 /\ <<x>>[1] = x
                /\ Len(<<x, y>>) = 2 /\ <<x, y>>[1] = x /\ <<x, y>>[2] = y
  OBVIOUS
<1>3. \A x, y : (x.kind # "layout" => NoLayout(<<x>>))
                /\ (x.kind # "layout" /\ y.kind # "layout" => NoLayout(<<x, y>>))
  BY <1>2 DEF NoLayout, IsLayout
<1>5. \A k : Just(k).kind = k
  BY <1>1 DEF Just
<1>4. \A a \in Answers : NoLayout(a)
  <2>1. NoLayout(<<Just("erect-domain"), Just("attach-user")>>)
    <3>1. Just("erect-domain").kind # "layout" /\ Just("attach-user").kind # "layout"
      BY <1>5
    <3> QED
      BY <1>3, <3>1
  <2>2. \A k \in {"client-info", "join", "probe-reply"} : NoLayout(<<Just(k)>>)
    BY <1>3, <1>5
  <2>3. \A sh, size : NoLayout(Confirmation(sh, size))
    <3>1. ASSUME NEW sh, NEW size PROVE NoLayout(Confirmation(sh, size))
      <4>1. Up("confirm-active", sh, size).kind # "layout" /\ Up("finalize", sh, NoSize).kind # "layout"
        BY <1>1
      <4> QED
        BY <1>3, <4>1 DEF Confirmation
    <3> QED
      BY <3>1
  <2> QED
    BY <2>1, <2>2, <2>3 DEF Answers, Handshakes
<1> QED
  BY <1>4, AnswerTypes DEF UpTypes


-----------------------------------------------------------------------------
(* Sizes as the client takes a PDU.                                        *)

Same(h) == May(h)' <=> May(h)

\* What no step changes, and all that it does to the environment.
LEMMA EnvKept ==
  ASSUME Types, [Next]_vars
  PROVE  /\ env'.size = env.size /\ WantedScale' = WantedScale
         /\ \A h \in Hazards \ {"earlyDeactivate"} : Same(h)
<1>1. env \in EnvTypes
  BY DEF Types, ConnTypeOK, EnvTypes
<1>2. env'.size = env.size /\ env'.may \in {env.may, env.may \ {"earlyDeactivate"}}
  <2>1. CASE env' = env
    BY <2>1
  <2>2. CASE Fed
    BY <2>1, <2>2, FeedQueues DEF Fed
  <2>3. CASE PageNext
    <3>1. CASE Callback \/ ScaleTimer \/ ResizeTimer
      BY <2>1, <3>1, PageSends DEF ConnectionRests
    <3>2. CASE Settles
      BY <2>1, <3>2 DEF Settles, connVars
    <3>3. ASSUME NEW res \in Windows, ViewportChanges(res)
          PROVE  env'.size = env.size /\ env'.may = env.may
      BY <1>1, <3>3 DEF ViewportChanges, EnvTypes
    <3> QED
      BY <2>3, <3>1, <3>2, <3>3 DEF PageNext
  <2>4. CASE HostNext
    <3>1. CASE HostReceives
      BY <2>1, <3>1 DEF HostReceives, HostReplies, HostClientInfo, HostConfirmed, HostFinalized, HostLayout,
                        HostProbed
    <3>2. CASE HostLicenses \/ HostProbes \/ HostEnds
      BY <2>1, <3>2 DEF HostLicenses, HostProbes, HostEnds
    <3>3. CASE HostDemands \/ HostRedemands \/ HostDraws \/ HostDisplay
      BY <1>1, <2>1, <3>3 DEF HostDemands, HostRedemands, HostDraws, HostDisplay, EnvTypes
    <3>4. CASE HostDeactivates
      BY <1>1, <3>4 DEF HostDeactivates, EnvTypes
    <3> QED
      BY <2>4, <3>1, <3>2, <3>3, <3>4 DEF HostNext
  <2>5. CASE SendInput
    BY <2>1, <2>5 DEF SendInput
  <2>6. CASE UNCHANGED vars
    BY <2>1, <2>6 DEF vars, connVars
  <2> QED
    BY <2>2, <2>3, <2>4, <2>5, <2>6 DEF Next, Rest
<1>3. \A h \in Hazards \ {"earlyDeactivate"} : h \in env'.may <=> h \in env.may
  BY <1>2
<1>4. \A h \in Hazards \ {"earlyDeactivate"} : Same(h)
  BY <1>3 DEF Same, May
<1>5. WantedScale' = WantedScale
  BY <1>3 DEF WantedScale, May, Hazards
<1> QED
  BY <1>2, <1>4, <1>5

LEMMA FedSizes ==
  ASSUME Types, Fed, SizesOf
  PROVE  /\ desk'.size = desk.size /\ SizesOf'
         /\ (desk.pending = NoSize => desk' = desk)
         /\ screen'.window = screen.window /\ screen'.resizing = screen.resizing
         /\ UNCHANGED <<env, host>>
<1>1. Feed /\ UNCHANGED <<env, host>>
  BY FeedQueues DEF Fed
<1>2. desk \in DeskTypes /\ page \in PageTypes /\ screen \in ScreenTypes
  BY DEF Types, ConnTypeOK, ScaleTypeOK, DeskTypes, PageTypes, ScreenTypes
<1>3. \/ desk' = desk /\ page'.size = page.size
      \/ /\ desk.pending # NoSize /\ desk' = [desk EXCEPT !.size = desk.pending, !.pending = NoSize]
         /\ page'.size = desk.pending
  <2>1. CASE OnDeactivateAll
    <3>1. CASE desk.pending # NoSize
      BY <1>2, <2>1, <3>1 DEF OnDeactivateAll, PageTypes
    <3>2. CASE desk.pending = NoSize
      BY <2>1, <3>2 DEF OnDeactivateAll
    <3> QED
      BY <3>1, <3>2
  <2>2. CASE OnConnectResponse \/ OnAttachUserConfirm \/ OnChannelJoinConfirm \/ OnLicensing
    BY <2>2 DEF OnConnectResponse, OnAttachUserConfirm, OnChannelJoinConfirm, OnLicensing
  <2>3. ASSUME NEW sh, NEW re, ConfirmActive(sh, re) PROVE page'.size = page.size
    BY <1>2, <2>3 DEF ConfirmActive, PageTypes
  <2>4. CASE OnDemandActive \/ OnRedemand
    BY <2>3, <2>4 DEF OnDemandActive, OnRedemand
  <2>5. CASE OnFinalization \/ OnFastPath
    BY <1>2, <2>5 DEF OnFinalization, OnFastPath, PageTypes
  <2>6. CASE OnErrorInfo \/ OnUltimatum
    BY <1>2, <2>6 DEF OnErrorInfo, OnUltimatum, Close, PageTypes
  <2>7. CASE OnLostDeactivate \/ OnAutoDetect \/ OnIgnored
    BY <2>7 DEF OnLostDeactivate, OnAutoDetect, OnIgnored, clientVars
  <2>8. CASE OnDisplayCreate \/ OnDisplayCaps \/ OnDisplayClose
    BY <2>8 DEF OnDisplayCreate, OnDisplayCaps, OnDisplayClose
  <2> QED
    BY <1>1, <2>1, <2>2, <2>4, <2>5, <2>6, <2>7, <2>8 DEF Feed
<1>4. screen' = IF desk.pending # NoSize /\ desk'.pending = NoSize
                THEN [screen EXCEPT !.canvas = desk.pending.res] ELSE screen
  BY DEF Fed
<1>5. CASE desk.pending = NoSize
  <2>1. desk' = desk /\ page'.size = page.size /\ screen' = screen
    BY <1>3, <1>4, <1>5
  <2> QED
    BY <1>1, <2>1 DEF SizesOf
<1>6. CASE desk.pending # NoSize
  <2>1. desk.pending = desk.size
    BY <1>6 DEF SizesOf
  <2>2. CASE desk' = desk
    <3>1. screen' = screen
      BY <1>4, <1>6, <2>2
    <3> QED
      BY <1>1, <1>6, <2>2, <3>1 DEF SizesOf
  <2>3. CASE desk' # desk
    <3>1. desk'.size = desk.size /\ desk'.pending = NoSize /\ page'.size = desk.size
      BY <1>2, <1>3, <2>1, <2>3 DEF DeskTypes
    <3>2. screen' = [screen EXCEPT !.canvas = desk.size.res]
      BY <1>4, <1>6, <2>1, <3>1
    <3>3. screen'.canvas = desk.size.res /\ screen'.window = screen.window /\ screen'.resizing = screen.resizing
      BY <1>2, <3>2 DEF ScreenTypes
    <3> QED
      BY <1>1, <1>6, <3>1, <3>3 DEF SizesOf
  <2> QED
    BY <2>2, <2>3
<1> QED
  BY <1>5, <1>6

\* What is on its way, and the host's Display Control channel.
LEMMA FedLayouts ==
  ASSUME Types, Feed
  PROVE  /\ NoLayout(up) => NoLayout(up')
         /\ \A z : LastLayout(up, z) => LastLayout(up', z)
         /\ \A w : Scaled(up, w) => Scaled(up', w)
         /\ \A res : Tells(up, res) => Tells(up', res)
         /\ NoCaps(down) /\ ~display.caps => NoCaps(down') /\ ~display'.caps
<1>1. up \in Seq(UpPDUs) /\ down \in Seq(DownPDUs) /\ down # <<>> /\ down' = Tail(down)
      /\ (up' = up \/ \E a \in Answers : up' = up \o a)
  BY FeedQueues DEF Types
<1>2. \A a \in Answers : a \in Seq(UpPDUs) /\ NoLayout(a)
  BY AnswersPlain
<1>3. NoCaps(down) => NoCaps(down') /\ Head(down).kind # "display-caps"
  BY <1>1, NoCapsLess
<1>4. Head(down).kind # "display-caps" => display'.caps = display.caps
  <2>1. display \in [open : BOOLEAN, caps : BOOLEAN]
    BY DEF Types, ConnTypeOK
  <2>2. CASE OnDisplayCreate \/ OnDisplayCaps \/ OnDisplayClose
    BY <2>1, <2>2 DEF OnDisplayCreate, OnDisplayCaps, OnDisplayClose, Take
  <2>3. CASE OnConnectResponse \/ OnAttachUserConfirm \/ OnChannelJoinConfirm \/ OnLicensing
    BY <2>3 DEF OnConnectResponse, OnAttachUserConfirm, OnChannelJoinConfirm, OnLicensing
  <2>4. CASE OnDemandActive \/ OnRedemand \/ OnFinalization \/ OnFastPath
    BY <2>4 DEF OnDemandActive, OnRedemand, OnFinalization, OnFastPath
  <2>5. CASE OnErrorInfo \/ OnUltimatum \/ OnDeactivateAll
    BY <2>5 DEF OnErrorInfo, OnUltimatum, OnDeactivateAll
  <2>6. CASE OnLostDeactivate \/ OnAutoDetect \/ OnIgnored
    BY <2>6 DEF OnLostDeactivate, OnAutoDetect, OnIgnored, clientVars
  <2> QED
    BY <2>2, <2>3, <2>4, <2>5, <2>6 DEF Feed
<1>5. CASE up' = up
  BY <1>3, <1>4, <1>5
<1>6. CASE up' # up
  BY <1>1, <1>2, <1>3, <1>4, <1>6, LayoutsMore
<1> QED
  BY <1>5, <1>6

\* What makes the client active.
LEMMA AfterActive ==
  ASSUME NEW m \in Modes, NEW p \in DownPDUs, After(m, p).st = "active"
  PROVE  m.st \in {"active", "finalization"} \/ (m.st = "capabilities" /\ p.kind = "demand-active")
<1>1. m = [st |-> m.st, fin |-> m.fin, again |-> m.again, share |-> m.share] /\ m.st \in States
  BY DEF Modes
<1>2. CASE p.kind = "demand-active"
  <2>1. After(m, p) = Demanded(m, p.share)
    BY <1>2 DEF After, Final
  <2> QED
    BY <1>1, <1>2, <2>1 DEF Demanded, Confirms, States
<1>3. CASE p.kind \in Final
  <2>1. After(m, p) = Finalized(m, p.kind)
    BY <1>3 DEF After, Final
  <2> QED
    BY <1>1, <2>1 DEF Finalized
<1>4. CASE p.kind # "demand-active" /\ p.kind \notin Final
  <2>1. \/ After(m, p) = m
        \/ After(m, p) = [m EXCEPT !.st = "capabilities"]
        \/ After(m, p) = [m EXCEPT !.st = "capabilities", !.again = TRUE]
        \/ After(m, p) = [m EXCEPT !.st = "closed"]
    BY <1>4 DEF After
  <2>2. After(m, p).st \in {m.st, "capabilities", "closed"}
    BY <1>1, <2>1
  <2> QED
    BY <2>2
<1> QED
  BY <1>2, <1>3, <1>4

\* Once nothing is due and the client can resize, it could before.
LEMMA FedResizes ==
  ASSUME Types, ConnInv, Fed, scale'.due = "none", canResize'
  PROVE  canResize
<1>1. Feed /\ scale' = [scale EXCEPT !.due = IF st = "closed" THEN "none" ELSE Due] /\ st' = "active"
      /\ display'.open /\ display'.caps
  BY DEF Fed, canResize
<1>2. host.ph # "mcs"
  BY <1>1, ConnFed, FeedQueues DEF ConnInv, HandInv
<1>3. Fits(Mode, Head(down)) /\ Mode' = After(Mode, Head(down)) /\ Mode \in Modes /\ Head(down) \in DownPDUs
  BY <1>1, <1>2, FedView, FedMode, FeedQueues, TakeFacts DEF ConnInv, Mode, Modes, Types, ConnTypeOK
<1>4. st # "closed" /\ scale'.due = Due
  <2>1. st # "closed"
    <3>1. Mode.st = st /\ Mode'.st = st'
      BY DEF Mode
    <3> QED
      BY <1>1, <1>3, <3>1, AfterActive
  <2> QED
    BY <1>1, <2>1 DEF Types, ScaleTypeOK
<1>5. /\ ~(page'.active > page.active) /\ Head(down).kind # "display-create"
      /\ ~(Head(down).kind = "display-caps" /\ display.open)
  BY <1>4 DEF Due
<1>6. st = "active"
  <2>1. page.active = (IF st = "finalization" THEN share - 1 ELSE share) /\ page'.active = share'
    BY <1>1, <1>4, ConnFed DEF ConnInv, ActiveOncePerShare
  <2>2. share \in Nat /\ share' = After(Mode, Head(down)).share /\ After(Mode, Head(down)).st = "active"
        /\ Mode.share = share /\ Mode.st = st
    BY <1>1, <1>3 DEF Mode, Types, ConnTypeOK
  <2>3. st = "finalization" => share' >= share
    BY <1>3, <2>2, AfterModes DEF Modes
  <2>4. st = "capabilities" => share' = share + 1
    <3>1. ASSUME st = "capabilities" PROVE share' = share + 1
      <4>1. Head(down).kind = "demand-active" /\ Confirms(Mode)
        BY <1>3, <2>2, <3>1, AfterActive DEF Confirms
      <4>2. After(Mode, Head(down)) = Demanded(Mode, Head(down).share) /\ Head(down).share = share + 1
        BY <1>3, <2>2, <4>1 DEF After, Fits, Final
      <4>3. Demanded(Mode, Head(down).share).share = Head(down).share
        BY <4>1 DEF Demanded
      <4> QED
        BY <2>2, <4>2, <4>3
    <3> QED
      BY <3>1
  <2>5. st \in {"active", "finalization", "capabilities"}
    BY <1>3, <2>2, AfterActive
  <2>6. CASE st = "finalization"
    <3>1. share' >= share /\ share' \in Nat /\ page.active = share - 1 /\ page'.active = share'
      BY <1>3, <2>1, <2>2, <2>3, <2>6, AfterModes DEF Modes
    <3> QED
      BY <1>5, <2>2, <3>1
  <2>7. CASE st = "capabilities"
    <3>1. page.active = share /\ page'.active = share + 1
      BY <2>1, <2>4, <2>7
    <3> QED
      BY <1>5, <2>2, <3>1
  <2> QED
    BY <2>5, <2>6, <2>7
<1>7. display.open /\ display.caps
  <2>1. display \in [open : BOOLEAN, caps : BOOLEAN]
    BY DEF Types, ConnTypeOK
  <2>2. CASE OnDisplayCreate \/ OnDisplayCaps \/ OnDisplayClose
    BY <1>1, <1>5, <2>1, <2>2 DEF OnDisplayCreate, OnDisplayCaps, OnDisplayClose, Take
  <2>3. CASE OnConnectResponse \/ OnAttachUserConfirm \/ OnChannelJoinConfirm \/ OnLicensing
    BY <1>1, <2>3 DEF OnConnectResponse, OnAttachUserConfirm, OnChannelJoinConfirm, OnLicensing
  <2>4. CASE OnDemandActive \/ OnRedemand \/ OnFinalization \/ OnFastPath
    BY <1>1, <2>4 DEF OnDemandActive, OnRedemand, OnFinalization, OnFastPath
  <2>5. CASE OnErrorInfo \/ OnUltimatum \/ OnDeactivateAll
    BY <1>1, <2>5 DEF OnErrorInfo, OnUltimatum, OnDeactivateAll
  <2>6. CASE OnLostDeactivate \/ OnAutoDetect \/ OnIgnored
    BY <1>1, <2>6 DEF OnLostDeactivate, OnAutoDetect, OnIgnored, clientVars
  <2> QED
    BY <1>1, <2>2, <2>3, <2>4, <2>5, <2>6 DEF Feed
<1> QED
  BY <1>6, <1>7 DEF canResize


LEMMA SizesFed ==
  ASSUME Types, ConnInv, SizeInv, ScaleInv, FillInv, Fed
  PROVE  SizeInv' /\ ScaleInv' /\ FillInv'
<1>1. /\ desk'.size = desk.size /\ SizesOf' /\ (desk.pending = NoSize => desk' = desk)
      /\ screen'.window = screen.window /\ screen'.resizing = screen.resizing
      /\ UNCHANGED <<env, host>>
  BY FedSizes DEF SizeInv
<1>2. /\ NoLayout(up) => NoLayout(up')
      /\ \A z : LastLayout(up, z) => LastLayout(up', z)
      /\ \A w : Scaled(up, w) => Scaled(up', w)
      /\ \A res : Tells(up, res) => Tells(up', res)
      /\ NoCaps(down) /\ ~display.caps => NoCaps(down') /\ ~display'.caps
  BY FedLayouts DEF Fed
<1>3. /\ scale'.applied = scale.applied /\ scale'.step = scale.step /\ scale'.from = scale.from
      /\ scale'.target = scale.target /\ scale.due = "none"
  BY DEF Fed, Types, ScaleTypeOK
<1>4. (\A h : Same(h)) /\ WantedScale' = WantedScale
  BY <1>1 DEF Same, May, WantedScale
<1>5. screen'.canvas = screen.canvas
  BY <1>1 DEF SizesOf, SizeInv
<1>6. scale'.due = "none" /\ canResize' => scale.applied
  BY <1>3, FedResizes DEF ScaleInv
<1>7. SizeInv'
  BY <1>1, <1>2, <1>4 DEF SizeInv, Reached, Same
<1>8. ScaleInv'
  <2>1. (Reached' <=> Reached) /\ (Nudged' <=> Nudged)
    BY <1>1, <1>3, <1>4 DEF Reached, Nudged, Same
  <2>2. ~scale.applied =>
          desk'.size = env.size /\ desk'.pending = NoSize /\ ~desk'.sent /\ NoLayout(up') /\ scale'.step = Undefined
    BY <1>1, <1>2, <1>3 DEF ScaleInv
  <2> QED
    BY <1>1, <1>2, <1>3, <1>4, <1>6, <2>1, <2>2 DEF ScaleInv, Same
<1>9. FillInv'
  BY <1>1, <1>3, <1>4, <1>5 DEF FillInv, Running, Same
<1> QED
  BY <1>7, <1>8, <1>9

-----------------------------------------------------------------------------
(* Sizes as the host takes its steps.                                      *)

LEMMA OneNoCaps ==
  ASSUME NEW p \in DownPDUs, p.kind # "display-caps"
  PROVE  <<p>> \in Seq(DownPDUs) /\ NoCaps(<<p>>)
BY OneOf DEF NoCaps

LEMMA PlainNoCaps ==
  \A k \in DownKinds \ {"display-caps"}, s \in Nat :
    <<Down(k, s)>> \in Seq(DownPDUs) /\ NoCaps(<<Down(k, s)>>)
<1>1. \A k \in DownKinds, s \in Nat : Down(k, s) \in DownPDUs /\ Down(k, s).kind = k
  BY DEF Down, DownPDUs
<1> QED
  BY <1>1, OneNoCaps

LEMMA HostSizes ==
  ASSUME Types, ConnInv, HostNext
  PROVE  /\ UNCHANGED clientVars
         /\ host.ph = "gone" => host'.ph = "gone"
         /\ host.display = "ready" /\ ~May("displayCloses") => host'.display = "ready"
         /\ NoCaps(down) /\ host'.display # "ready" => NoCaps(down')
         /\ \/ host'.size = host.size /\ up' = up
            \/ host'.size = host.size /\ up # <<>> /\ up' = Tail(up) /\ ~IsLayout(up[1])
            \/ /\ up # <<>> /\ up' = Tail(up) /\ IsLayout(up[1])
               /\ host'.size = IF /\ host.display # "none" /\ host.ph # "gone"
                                  /\ ~(May("ignoresScale") /\ up[1].size.res = host.size.res)
                               THEN up[1].size ELSE host.size
<1> USE DEF Types, ConnTypeOK
<1> DEFINE Ok == /\ UNCHANGED clientVars
                 /\ host.ph = "gone" => host'.ph = "gone"
                 /\ host.display = "ready" /\ ~May("displayCloses") => host'.display = "ready"
                 /\ NoCaps(down) /\ host'.display # "ready" => NoCaps(down')
                 /\ \/ host'.size = host.size /\ up' = up
                    \/ host'.size = host.size /\ up # <<>> /\ up' = Tail(up) /\ ~IsLayout(up[1])
                    \/ /\ up # <<>> /\ up' = Tail(up) /\ IsLayout(up[1])
                       /\ host'.size = IF /\ host.display # "none" /\ host.ph # "gone"
                                          /\ ~(May("ignoresScale") /\ up[1].size.res = host.size.res)
                                       THEN up[1].size ELSE host.size
<1>1. \A k \in DownKinds \ {"display-caps"}, s \in Nat :
        <<Down(k, s)>> \in Seq(DownPDUs) /\ NoCaps(<<Down(k, s)>>)
  BY PlainNoCaps
<1>2. ASSUME NEW a \in Seq(DownPDUs), NoCaps(a), Emit(a) PROVE NoCaps(down) => NoCaps(down')
  BY <1>2, NoCapsMore DEF Emit
<1>3. ASSUME NEW a \in Seq(DownPDUs), NoCaps(a), Emit(a), UNCHANGED <<clientVars, up>>,
             host'.size = host.size, host'.display = host.display \/ (host.display = "ready" /\ May("displayCloses")) \/ host'.display = "open",
             host.display = "ready" /\ host'.display = "open" => FALSE,
             host.ph = "gone" => host'.ph = "gone"
      PROVE  Ok
  BY <1>2, <1>3
<1>4. ASSUME NEW k, HostTakes(k), k # "layout", NEW a \in Seq(DownPDUs), NoCaps(a), Emit(a),
             host'.size = host.size, host'.display = host.display, host.ph = "gone" => host'.ph = "gone"
      PROVE  Ok
  <2>1. up # <<>> /\ up' = Tail(up) /\ UNCHANGED clientVars /\ ~IsLayout(up[1])
    BY <1>4, HostTook DEF IsLayout
  <2>2. NoCaps(down) => NoCaps(down')
    BY <1>2, <1>4
  <2> QED
    BY <1>4, <2>1, <2>2
<1>5. <<>> \in Seq(DownPDUs) /\ NoCaps(<<>>)
  BY EmptySeq DEF NoCaps
<1>6. Finals \in Seq(DownPDUs) /\ NoCaps(Finals)
  <2>1. \A k \in Final : Down(k, 0).kind # "display-caps"
    BY DEF Down, Final
  <2>2. \A i \in 1..4 : i = 1 \/ i = 2 \/ i = 3 \/ i = 4
    OBVIOUS
  <2> QED
    BY <2>1, <2>2, FinalsTypes DEF NoCaps, Final
<1>7. ASSUME NEW a, down' = down PROVE NoCaps(down) => NoCaps(down')
  BY <1>7
<1> HIDE DEF Ok
<1>8. ASSUME NEW k, NEW r \in Seq(DownPDUs), NoCaps(r), k # "layout", HostReplies(k, r) PROVE Ok
  BY <1>4, <1>8 DEF HostReplies
<1>9. ASSUME HostReceives PROVE Ok
  <2>1. HostReplies("connect-initial", <<Down("connect-response", 0)>>) => Ok
    BY <1>1, <1>8 DEF DownKinds
  <2>2. HostReplies("erect-domain", <<>>) \/ HostReplies("input", <<>>) => Ok
    BY <1>5, <1>8
  <2>3. HostReplies("attach-user", <<Down("attach-confirm", 0)>>) => Ok
    BY <1>1, <1>8 DEF DownKinds
  <2>4. HostReplies("join", <<Down("join-confirm", 0)>>) => Ok
    BY <1>1, <1>8 DEF DownKinds
  <2>5. Emit(<<>>) <=> down' = down
    BY ConcatEmptySeq DEF Emit
  <2>6. HostClientInfo => Ok
    <3>1. ASSUME HostClientInfo PROVE Ok
      <4>1. HostTakes("client-info") /\ host' = [host EXCEPT !.ph = "licence"] /\ down' = down
        BY <3>1 DEF HostClientInfo
      <4>2. host.ph = "mcs"
        <5>1. "client-info" \notin {"probe-reply", "input", "layout", "confirm-active", "finalize"}
          OBVIOUS
        <5> QED
          BY <4>1, <5>1, HostPops
      <4> QED
        BY <1>4, <1>5, <2>5, <4>1, <4>2
    <3> QED
      BY <3>1
  <2>7. HostConfirmed \/ HostProbed => Ok
    <3>1. ASSUME HostConfirmed \/ HostProbed PROVE Ok
      <4>1. \/ HostTakes("confirm-active") /\ down' = down
            \/ HostTakes("probe-reply") /\ down' = down
        BY <3>1 DEF HostConfirmed, HostProbed
      <4>2. host'.size = host.size /\ host'.display = host.display /\ (host.ph = "gone" => host'.ph = "gone")
        BY <3>1 DEF HostConfirmed, HostProbed
      <4> QED
        BY <1>4, <1>5, <2>5, <4>1, <4>2
    <3> QED
      BY <3>1
  <2>8. HostFinalized => Ok
    <3>1. ASSUME HostFinalized PROVE Ok
      <4>1. HostTakes("finalize") /\ (Emit(Finals) \/ Emit(<<>>))
        BY <2>5, <3>1 DEF HostFinalized, Finals
      <4>2. host'.size = host.size /\ host'.display = host.display /\ (host.ph = "gone" => host'.ph = "gone")
        BY <3>1 DEF HostFinalized
      <4> QED
        BY <1>4, <1>5, <1>6, <4>1, <4>2
    <3> QED
      BY <3>1
  <2>9. HostLayout => Ok
    <3> SUFFICES ASSUME HostLayout PROVE Ok
      OBVIOUS
    <3> DEFINE size == Head(up).size
               a    == host.display # "none" /\ host.ph # "gone" /\ ~(May("ignoresScale") /\ size.res = host.size.res)
               re   == a /\ May("reactivates") /\ host.ph = "active" /\ env.shares > 0
               r    == IF re THEN <<Down("deactivate-all", 0)>> ELSE <<>>
    <3>1. /\ HostTakes("layout") /\ Emit(r)
          /\ host' = [host EXCEPT !.size = IF a THEN size ELSE @, !.ph = IF re THEN "caps" ELSE @]
      BY DEF HostLayout
    <3>2. up # <<>> /\ up' = Tail(up) /\ UNCHANGED clientVars /\ Head(up) = up[1] /\ IsLayout(up[1])
      BY <3>1, HostTook DEF IsLayout
    <3>3. re => host.ph = "active"
      OBVIOUS
    <3>4. r \in Seq(DownPDUs) /\ NoCaps(r)
      BY <1>1, <1>5 DEF DownKinds
    <3> HIDE DEF re, r
    <3>5. /\ host'.size = (IF a THEN size ELSE host.size) /\ host'.display = host.display
          /\ host.ph = "gone" => host'.ph = "gone"
      BY <3>1, <3>3
    <3> QED
      BY <1>2, <3>1, <3>2, <3>4, <3>5 DEF Ok
  <2> QED
    BY <1>9, <2>1, <2>2, <2>3, <2>4, <2>6, <2>7, <2>8, <2>9 DEF HostReceives
<1>10. ASSUME HostLicenses PROVE Ok
  <2>1. \E r \in {<<>>, <<Down("licence", 0)>>} : Emit(r)
    BY <1>10 DEF HostLicenses, HostSends
  <2>2. /\ UNCHANGED <<clientVars, up>> /\ host'.size = host.size /\ host'.display = host.display
        /\ host.ph # "gone"
    BY <1>10 DEF HostLicenses, HostSends
  <2> QED
    BY <1>1, <1>3, <1>5, <2>1, <2>2 DEF DownKinds
<1>11. ASSUME HostDemands \/ HostRedemands PROVE Ok
  <2>1. /\ UNCHANGED <<clientVars, up>> /\ host'.size = host.size /\ host'.display = host.display
        /\ host.ph # "gone"
    BY <1>11 DEF HostDemands, HostRedemands, HostSends
  <2>2. host'.share \in Nat
    <3>1. host.share + 1 \in Nat
      OBVIOUS
    <3> QED
      BY <1>11, <3>1 DEF HostDemands, HostRedemands
  <2>3. Emit(<<Down("demand-active", host'.share)>>)
    BY <1>11 DEF HostDemands, HostRedemands, HostSends
  <2> QED
    BY <1>1, <1>3, <2>1, <2>2, <2>3 DEF DownKinds
<1>12. ASSUME HostDeactivates \/ HostDraws \/ HostProbes PROVE Ok
  <2>1. /\ UNCHANGED <<clientVars, up>> /\ host'.size = host.size /\ host'.display = host.display
        /\ host.ph # "gone"
    BY <1>12 DEF HostDeactivates, Deactivable, HostDraws, HostProbes, HostSends
  <2>2. \/ Emit(<<Down("deactivate-all", 0)>>) \/ Emit(<<Down("probe", 0)>>)
        \/ Emit(<<Down("output", LastFinalized)>>) /\ LastFinalized \in Nat
    BY <1>12, DrawnNat DEF HostDeactivates, HostDraws, HostProbes, HostSends
  <2>3. host.share \in Nat
    OBVIOUS
  <2> QED
    BY <1>1, <1>3, <2>1, <2>2, <2>3 DEF DownKinds
<1>13. ASSUME HostDisplay PROVE Ok
  <2>1. /\ UNCHANGED <<clientVars, up>> /\ host'.size = host.size /\ host.ph # "gone"
    BY <1>13 DEF HostDisplay, HostSends
  <2>2. \/ host.display = "none" /\ host'.display = "open" /\ Emit(<<Down("display-create", 0)>>)
        \/ host.display = "open" /\ host'.display = "ready"
        \/ host.display = "ready" /\ May("displayCloses") /\ host'.display = "none" /\ Emit(<<Down("display-close", 0)>>)
    BY <1>13 DEF HostDisplay, HostSends
  <2>3. CASE host.display = "open" /\ host'.display = "ready"
    BY <2>1, <2>3 DEF Ok
  <2> QED
    BY <1>1, <1>3, <2>1, <2>2, <2>3 DEF DownKinds
<1>14. ASSUME HostEnds PROVE Ok
  <2>1. /\ UNCHANGED <<clientVars, up>> /\ host'.size = host.size /\ host'.display = host.display
        /\ host.ph # "gone"
    BY <1>14 DEF HostEnds, HostSends
  <2>2. Emit(<<Down("error-info", 0), Down("ultimatum", 0)>>) \/ Emit(<<Down("ultimatum", 0)>>)
    BY <1>14 DEF HostEnds, HostSends
  <2>3. <<Down("error-info", 0), Down("ultimatum", 0)>> \in Seq(DownPDUs)
        /\ NoCaps(<<Down("error-info", 0), Down("ultimatum", 0)>>)
    <3> DEFINE x == Down("error-info", 0)
               y == Down("ultimatum", 0)
    <3>1. x \in DownPDUs /\ y \in DownPDUs /\ x.kind # "display-caps" /\ y.kind # "display-caps"
      BY DEF Down, DownPDUs, DownKinds
    <3> HIDE DEF x, y
    <3>2. <<x, y>> \in Seq(DownPDUs) /\ NoCaps(<<x, y>>)
      BY <3>1, TwoOf DEF NoCaps
    <3> QED
      BY <3>2 DEF x, y
  <2> QED
    BY <1>1, <1>3, <2>1, <2>2, <2>3 DEF DownKinds
<1>15. Ok
  BY <1>9, <1>10, <1>11, <1>12, <1>13, <1>14 DEF HostNext
<1> QED
  BY <1>15 DEF Ok


LEMMA SizesHost ==
  ASSUME Types, ConnInv, SizeInv, ScaleInv, FillInv, HostNext, UNCHANGED pageVars
  PROVE  SizeInv' /\ ScaleInv' /\ FillInv'
<1> DEFINE Told == /\ host.display # "none" /\ host.ph # "gone"
                   /\ ~(May("ignoresScale") /\ up[1].size.res = host.size.res)
<1>1. /\ UNCHANGED clientVars
      /\ host.ph = "gone" => host'.ph = "gone"
      /\ host.display = "ready" /\ ~May("displayCloses") => host'.display = "ready"
      /\ NoCaps(down) /\ host'.display # "ready" => NoCaps(down')
      /\ \/ host'.size = host.size /\ up' = up
         \/ host'.size = host.size /\ up # <<>> /\ up' = Tail(up) /\ ~IsLayout(up[1])
         \/ /\ up # <<>> /\ up' = Tail(up) /\ IsLayout(up[1])
            /\ host'.size = IF Told THEN up[1].size ELSE host.size
  BY HostSizes
<1>2. /\ UNCHANGED <<desk, page, display, st, scale, screen>> /\ env'.size = env.size
      /\ WantedScale' = WantedScale /\ \A h \in Hazards \ {"earlyDeactivate"} : Same(h)
  BY <1>1, EnvKept DEF Next, clientVars, pageVars
<1>3. Same("displayCloses") /\ Same("ignoresScale") /\ Same("gfx") /\ Same("scales") /\ Same("early")
  BY <1>2 DEF Hazards
<1>4. Reached' => Reached
  BY <1>1, <1>3 DEF Reached, Same
<1>5. /\ NoLayout(up) => NoLayout(up')
      /\ Scaled(up, WantedScale) => Scaled(up', WantedScale)
  <2>1. CASE up' = up
    BY <2>1
  <2>2. CASE up # <<>> /\ up' = Tail(up)
    BY <2>2, LayoutsLess DEF Types
  <2> QED
    BY <1>1, <2>1, <2>2
<1>6. up # <<>> /\ IsLayout(up[1]) => ~NoLayout(up) /\ up[1].size.scale = WantedScale
  BY LayoutsLess DEF Types, ScaleInv
<1>7. up # <<>> /\ IsLayout(up[1]) /\ Reached => host.display # "none" /\ host.ph # "gone"
  BY <1>6 DEF Reached, SizeInv
<1> HIDE DEF Told
<1>8. ASSUME Reached
      PROVE  \/ LastLayout(up', desk.size)
             \/ /\ NoLayout(up')
                /\ IF May("ignoresScale") THEN desk.size.res = host'.size.res ELSE desk.size = host'.size
  <2>1. \/ LastLayout(up, desk.size)
        \/ /\ NoLayout(up)
           /\ IF May("ignoresScale") THEN desk.size.res = host.size.res ELSE desk.size = host.size
    BY <1>8 DEF SizeInv
  <2>2. CASE host'.size = host.size /\ up' = up
    BY <2>1, <2>2
  <2>3. CASE host'.size = host.size /\ up # <<>> /\ up' = Tail(up) /\ ~IsLayout(up[1])
    BY <2>1, <2>3, LayoutsLess DEF Types
  <2>4. CASE up # <<>> /\ up' = Tail(up) /\ IsLayout(up[1])
    <3>1. LastLayout(up, desk.size)
      BY <1>6, <2>1, <2>4
    <3>2. LastLayout(up', desk.size) \/ (NoLayout(up') /\ up[1].size = desk.size)
      BY <2>4, <3>1, LayoutsLess DEF Types
    <3>3. host'.size = IF Told THEN up[1].size ELSE host.size
      BY <1>1, <2>4
    <3>4. ~Told => May("ignoresScale") /\ up[1].size.res = host.size.res
      BY <1>7, <1>8, <2>4 DEF Told
    <3> QED
      BY <3>2, <3>3, <3>4
  <2> QED
    BY <1>1, <2>2, <2>3, <2>4
<1>9. SizeInv'
  <2>1. SizesOf'
    BY <1>2 DEF SizeInv, SizesOf
  <2>2. ~May("displayCloses")' => host'.display = "ready" \/ (~display'.caps /\ NoCaps(down') /\ NoLayout(up'))
    BY <1>1, <1>2, <1>3, <1>5 DEF SizeInv, Same
  <2> QED
    BY <1>2, <1>3, <1>4, <1>8, <2>1, <2>2 DEF SizeInv, Same
<1>10. host'.size = env.size \/ host'.size.scale = WantedScale
  BY <1>1, <1>6 DEF ScaleInv
<1>11. scale.applied /\ Nudged /\ Reached => host'.size.scale = WantedScale \/ Tells(up', host'.size.res)
  <2> SUFFICES ASSUME scale.applied, Nudged, Reached
               PROVE  host'.size.scale = WantedScale \/ Tells(up', host'.size.res)
    OBVIOUS
  <2>1. host.size.scale = WantedScale \/ Tells(up, host.size.res)
    BY DEF ScaleInv
  <2>2. CASE host'.size = host.size /\ up' = up
    BY <2>1, <2>2
  <2>3. CASE host'.size = host.size /\ up # <<>> /\ up' = Tail(up) /\ ~IsLayout(up[1])
    BY <2>1, <2>3, LayoutsLess DEF Types
  <2>4. CASE up # <<>> /\ up' = Tail(up) /\ IsLayout(up[1])
    <3>1. host'.size = IF Told THEN up[1].size ELSE host.size
      BY <1>1, <2>4
    <3>2. ~Told => up[1].size.res = host.size.res
      BY <1>7, <2>4 DEF Told
    <3>3. Tells(up, host.size.res) /\ up[1].size.res = host.size.res => Tells(up', host.size.res)
      BY <2>4, LayoutsLess DEF Types
    <3> QED
      BY <1>6, <2>1, <2>4, <3>1, <3>2, <3>3
  <2> QED
    BY <1>1, <2>2, <2>3, <2>4
<1>12. ScaleInv'
  <2>1. ~scale'.applied =>
          desk'.size = env'.size /\ desk'.pending = NoSize /\ ~desk'.sent /\ NoLayout(up') /\ scale'.step = Undefined
    BY <1>2, <1>5 DEF ScaleInv
  <2>2. (canResize' <=> canResize) /\ (Nudged' <=> Nudged)
    BY <1>2 DEF canResize, Nudged
  <2>3. Scaled(up', WantedScale') /\ (host'.size = env'.size \/ host'.size.scale = WantedScale')
    BY <1>2, <1>5, <1>10 DEF ScaleInv
  <2>4. scale'.applied /\ Nudged' /\ Reached' => host'.size.scale = WantedScale' \/ Tells(up', host'.size.res)
    BY <1>2, <1>4, <1>11, <2>2
  <2> QED
    BY <1>2, <1>3, <2>1, <2>2, <2>3, <2>4 DEF ScaleInv, Same
<1>13. FillInv'
  BY <1>2, <1>3 DEF FillInv, Running, Same
<1> QED
  BY <1>9, <1>12, <1>13


-----------------------------------------------------------------------------
(* Sizes as the page takes its steps.                                      *)

\* A layout that the page may send, and the canvas that follows it.
LEMMA PageLayout ==
  ASSUME Types, SizeInv, Scaled(up, WantedScale), ConnectionRests,
         NEW z \in Sizes, z.scale = WantedScale, Sends(z), screen'.canvas = desk'.size.res
  PROVE  /\ SizeInv' /\ Scaled(up', WantedScale) /\ (\A res : Tells(up, res) => Tells(up', res))
         /\ (\A h : Same(h)) /\ WantedScale' = WantedScale /\ (Reached' <=> Reached)
         /\ (canResize' <=> canResize)
<1>1. UNCHANGED <<env, st, join, fin, share, again, display, page, down, host>>
  BY DEF ConnectionRests
<1>2. (\A h : Same(h)) /\ WantedScale' = WantedScale /\ (Reached' <=> Reached) /\ (canResize' <=> canResize)
  BY <1>1 DEF Same, May, WantedScale, Reached, canResize
<1>3. CASE UNCHANGED <<desk, up>>
  <2>1. SizeInv'
    BY <1>1, <1>2, <1>3 DEF SizeInv, SizesOf, Same
  <2> QED
    BY <1>2, <1>3, <2>1
<1>4. CASE /\ canResize /\ desk' = [size |-> z, pending |-> z, sent |-> TRUE]
           /\ up' = up \o <<Up("layout", 0, z)>>
  <2> DEFINE p == Up("layout", 0, z)
  <2>1. p \in UpPDUs /\ IsLayout(p) /\ p.size = z
    BY DEF Up, UpPDUs, UpKinds, IsLayout
  <2> HIDE DEF p
  <2>2. up \in Seq(UpPDUs) /\ up' = up \o <<p>>
    BY <1>4 DEF Types, p
  <2>3. /\ LastLayout(up', z) /\ Scaled(up', WantedScale) /\ \A res : Tells(up, res) => Tells(up', res)
    BY <2>1, <2>2, LayoutLast
  <2>4. desk'.size = z /\ desk'.pending = z /\ z # NoSize
    BY <1>4, ConnectionAssumption
  <2>5. SizesOf'
    BY <2>4 DEF SizesOf
  <2>6. ~May("displayCloses") => host.display = "ready"
    BY <1>4 DEF SizeInv, canResize
  <2>7. SizeInv'
    BY <1>1, <1>2, <2>3, <2>4, <2>5, <2>6 DEF SizeInv, Same
  <2> QED
    BY <1>2, <2>3, <2>7
<1> QED
  BY <1>3, <1>4 DEF Sends

\* No layout, and the scale's steps are where they were.
LEMMA SizesStay ==
  ASSUME Types, SizeInv, ScaleInv, FillInv, ConnectionRests, UNCHANGED <<desk, up, screen>>,
         scale'.applied = scale.applied, scale'.step = scale.step, scale'.from = scale.from,
         scale'.target = scale.target, scale'.due = "none" /\ canResize => scale.applied
  PROVE  SizeInv' /\ ScaleInv' /\ FillInv'
<1>1. UNCHANGED <<env, st, display, page, down, host>>
  BY DEF ConnectionRests
<1>2. (\A h : Same(h)) /\ WantedScale' = WantedScale /\ (Reached' <=> Reached) /\ (canResize' <=> canResize)
  BY <1>1 DEF Same, May, WantedScale, Reached, canResize
<1>3. SizeInv'
  BY <1>1, <1>2 DEF SizeInv, SizesOf, Same
<1>4. ScaleInv'
  BY <1>1, <1>2 DEF ScaleInv, Nudged, Same
<1>5. FillInv'
  BY <1>1, <1>2 DEF FillInv, Running, Same
<1> QED
  BY <1>3, <1>4, <1>5

LEMMA NearSelf == \A x \in Nat : Near(x, x)
BY WantedType DEF Near

\* The first layout, of a client that can resize.
LEMMA SizesStart ==
  ASSUME Types, SizeInv, ScaleInv, FillInv, ConnectionRests, ~scale.applied, canResize,
         NEW z \in Sizes, z.scale = WantedScale, z.res = screen.canvas, Sends(z), screen' = screen,
         scale'.applied, scale'.target = scale.target, desk'.size.scale = WantedScale,
         scale'.step = 0 \/ (scale'.step = Undefined /\ (May("gfx") \/ ~May("scales")))
  PROVE  SizeInv' /\ ScaleInv' /\ FillInv'
<1>1. UNCHANGED <<env, host>>
  BY DEF ConnectionRests
<1>2. screen.canvas = desk.size.res /\ desk.size = env.size /\ Scaled(up, WantedScale)
  BY DEF SizeInv, SizesOf, ScaleInv
<1>3. screen'.canvas = desk'.size.res
  BY <1>2 DEF Sends
<1>4. /\ SizeInv' /\ Scaled(up', WantedScale) /\ (\A res : Tells(up, res) => Tells(up', res))
      /\ (\A h : Same(h)) /\ WantedScale' = WantedScale /\ (Reached' <=> Reached)
      /\ (canResize' <=> canResize)
  BY <1>2, <1>3, PageLayout
<1>5. ~Nudged' /\ (scale'.step = Undefined => ~Running')
  BY DEF Nudged, Running, Undefined
<1>6. ScaleInv'
  BY <1>1, <1>4, <1>5 DEF ScaleInv, Same, Undefined
<1>7. FillInv'
  <2>1. screen.canvas \in Nat
    BY DEF Types, ScaleTypeOK
  <2>2. ASSUME ~May("early"), ~screen.resizing PROVE screen.window = env.size.res /\ Near(screen.canvas, screen.window)
    BY <1>2, <2>1, <2>2, NearSelf DEF FillInv
  <2>3. scale'.step # 2
    BY DEF Undefined
  <2>4. scale'.step = 0 => Running'
    BY DEF Running
  <2> QED
    BY <1>1, <1>4, <1>5, <2>2, <2>3, <2>4 DEF FillInv, Same
<1> QED
  BY <1>4, <1>6, <1>7


\* A step that follows another.
LEMMA SizesAdvance ==
  ASSUME Types, SizeInv, ScaleInv, FillInv, ConnectionRests,
         scale.step \in 0..2, scale.from = scale.step,
         NEW s \in ScaleTypes, s.applied = scale.applied, s.target = scale.target, s.from = Undefined,
         Stepped(s, scale.step + 1)
  PROVE  SizeInv' /\ ScaleInv' /\ FillInv'
<1> DEFINE n == scale.step + 1
           z == StepSize(scale.target, n)
<1>1. UNCHANGED <<env, host>> /\ n \in 1..3 /\ n # Undefined
  BY DEF ConnectionRests, Undefined
<1>2. /\ scale'.step = n /\ scale'.applied = scale.applied /\ scale'.target = scale.target
      /\ scale'.from = (IF n > 2 \/ ~canResize THEN Undefined ELSE n)
      /\ z \in Sizes /\ Sends(z)
      /\ n <= 2 /\ canResize => desk'.size = z
      /\ screen' = IF n > 0 /\ desk' # desk THEN [screen EXCEPT !.canvas = z.res] ELSE screen
  BY DEF Stepped
<1>3. z.scale = WantedScale /\ z.res = (IF n = 1 THEN scale.target + Nudge ELSE scale.target)
  BY DEF StepSize
<1> HIDE DEF n, z
<1>4. scale.applied /\ scale.target = env.size.res /\ env.size.res \in Nat
      /\ screen.canvas = desk.size.res /\ Scaled(up, WantedScale) /\ scale.step # Undefined
  <2>1. scale.step # Undefined
    BY DEF Undefined
  <2>2. scale.applied
    BY <2>1 DEF ScaleInv, Types, ScaleTypeOK
  <2>3. env.size \in Sizes
    BY DEF Types, ConnTypeOK
  <2>4. env.size.res \in Nat
    BY <2>3 DEF Sizes
  <2> QED
    BY <2>1, <2>2, <2>4 DEF ScaleInv, SizeInv, SizesOf
<1>5. /\ screen'.window = screen.window /\ screen'.resizing = screen.resizing
      /\ screen'.canvas = IF desk' # desk THEN z.res ELSE screen.canvas
  <2>1. screen \in ScreenTypes
    BY DEF Types, ScaleTypeOK, ScreenTypes
  <2> QED
    BY <1>1, <1>2, <2>1 DEF ScreenTypes
<1>6. desk' = desk \/ desk'.size = z
  BY <1>2 DEF Sends
<1>7. screen'.canvas = desk'.size.res
  BY <1>4, <1>5, <1>6
<1>8. /\ SizeInv' /\ Scaled(up', WantedScale) /\ (\A res : Tells(up, res) => Tells(up', res))
      /\ (\A h : Same(h)) /\ WantedScale' = WantedScale /\ (Reached' <=> Reached)
      /\ (canResize' <=> canResize)
  BY <1>2, <1>3, <1>4, <1>7, PageLayout
<1>9. Nudged' /\ Reached => host.size.scale = WantedScale \/ Tells(up', host.size.res)
  <2> SUFFICES ASSUME Nudged', Reached PROVE host.size.scale = WantedScale \/ Tells(up', host.size.res)
    OBVIOUS
  <2>1. CASE n \in {2, 3}
    <3>1. Nudged
      BY <2>1 DEF Nudged, n
    <3> QED
      BY <1>4, <1>8, <3>1 DEF ScaleInv
  <2>2. CASE n = 1
    <3>1. desk'.size = z /\ desk'.size.res = env.size.res + Nudge
      <4>1. scale'.from = 1
        BY <1>2, <2>2 DEF Nudged
      <4> QED
        BY <1>2, <1>3, <1>4, <2>2, <4>1 DEF Undefined
    <3>2. \/ LastLayout(up', desk'.size)
          \/ desk'.size.res = host.size.res
      BY <1>1, <1>8 DEF SizeInv
    <3>3. desk'.size.res # env.size.res
      BY <1>4, <3>1, WantedType
    <3>4. ASSUME LastLayout(up', desk'.size) PROVE Tells(up', env.size.res)
      BY <3>3, <3>4 DEF LastLayout, Tells
    <3> QED
      BY <3>2, <3>3, <3>4 DEF ScaleInv
  <2> QED
    BY <1>1, <2>1, <2>2
<1>10. desk'.size.scale = WantedScale
  BY <1>3, <1>4, <1>6 DEF ScaleInv
<1>11. ScaleInv'
  BY <1>1, <1>2, <1>4, <1>8, <1>9, <1>10 DEF ScaleInv, Same
<1>12. FillInv'
  <2>1. ASSUME ~May("early"), ~screen.resizing PROVE screen.window = env.size.res
    BY <1>4, <2>1 DEF FillInv, Running
  <2>2. n <= 2 => Running'
    BY <1>1, <1>2, <1>4 DEF Running
  <2>3. ASSUME ~May("early"), n = 3 PROVE screen'.canvas = env.size.res
    <3>1. scale.step = 2
      BY <2>3 DEF n
    <3>2. screen.canvas = scale.target
      BY <2>3, <3>1 DEF FillInv
    <3> QED
      BY <1>3, <1>4, <1>5, <2>3, <3>2
  <2>4. ASSUME n = 2, scale'.from = 2 PROVE screen'.canvas = env.size.res
    <3>1. desk'.size = z
      BY <1>2, <2>4 DEF Undefined
    <3> QED
      BY <1>3, <1>4, <1>7, <2>4, <3>1
  <2>5. ASSUME ~May("early"), ~screen.resizing PROVE n <= 2 \/ Near(screen'.canvas, screen.window)
    BY <1>1, <1>4, <2>1, <2>3, <2>5, NearSelf
  <2> QED
    BY <1>1, <1>2, <1>4, <1>5, <1>8, <2>1, <2>2, <2>4, <2>5 DEF FillInv, Same
<1> QED
  BY <1>8, <1>11, <1>12

\* A layout that follows the window.
LEMMA SizesFollow ==
  ASSUME Types, SizeInv, ScaleInv, FillInv, ResizeTimer
  PROVE  SizeInv' /\ ScaleInv' /\ FillInv'
<1> DEFINE z == [res |-> screen.window, scale |-> WantedScale]
<1>1. /\ ConnectionRests /\ scale' = scale /\ scale.due = "none"
      /\ (May("early") \/ Steady)
  BY DEF ResizeTimer
<1>2. /\ z \in Sizes /\ Sends(z)
      /\ \/ /\ UNCHANGED <<desk, up>> /\ screen' = [screen EXCEPT !.resizing = FALSE]
            /\ \/ ~canResize \/ ~screen.settled \/ Near(screen.window, screen.canvas)
               \/ desk.size.res = screen.window
         \/ /\ desk' # desk /\ canResize
            /\ desk'.size = z
            /\ screen' = [screen EXCEPT !.resizing = FALSE, !.canvas = screen.window]
  BY Resizes
<1>3. z.scale = WantedScale /\ z.res = screen.window
  OBVIOUS
<1> HIDE DEF z
<1>4. screen \in ScreenTypes /\ screen.canvas = desk.size.res /\ Scaled(up, WantedScale)
  BY DEF Types, ScaleTypeOK, ScreenTypes, SizeInv, SizesOf, ScaleInv
<1>5. screen'.window = screen.window /\ ~screen'.resizing
      /\ screen'.canvas = (IF desk' = desk THEN screen.canvas ELSE screen.window)
  BY <1>2, <1>4 DEF ScreenTypes
<1>6. screen'.canvas = desk'.size.res
  BY <1>2, <1>3, <1>4, <1>5
<1>7. /\ SizeInv' /\ Scaled(up', WantedScale) /\ (\A res : Tells(up, res) => Tells(up', res))
      /\ (\A h : Same(h)) /\ WantedScale' = WantedScale /\ (Reached' <=> Reached)
      /\ (canResize' <=> canResize) /\ UNCHANGED <<env, host>>
  BY <1>1, <1>2, <1>3, <1>4, <1>6, PageLayout DEF ConnectionRests
<1>8. scale.applied \/ UNCHANGED <<desk, up>>
  BY <1>1, <1>2 DEF ScaleInv
<1>9. ScaleInv'
  <2>1. scale.applied => desk'.size.scale = WantedScale
    BY <1>2, <1>3 DEF ScaleInv
  <2>2. ~scale.applied => desk' = desk /\ up' = up
    BY <1>8
  <2>3. Nudged' <=> Nudged
    BY <1>1 DEF Nudged
  <2> QED
    BY <1>1, <1>7, <2>1, <2>2, <2>3 DEF ScaleInv, Same
<1>10. FillInv'
  <2>1. ASSUME ~May("early") PROVE Near(screen'.canvas, screen.window)
    <3>1. canResize /\ screen.settled
      BY <1>1, <2>1 DEF Steady
    <3>2. screen.window \in Nat /\ screen.canvas \in Nat
      BY <1>4 DEF ScreenTypes
    <3>3. Near(screen.window, screen.canvas) => Near(screen.canvas, screen.window)
      BY DEF Near
    <3> QED
      BY <1>2, <1>4, <1>5, <3>1, <3>2, <3>3, NearSelf
  <2>2. ~May("early") => scale.applied /\ ~Running /\ scale.step # 2
    <3>1. scale.applied /\ ~Running => scale.step # 2
      BY DEF Running
    <3> QED
      BY <1>1, <3>1 DEF Steady
  <2>3. Running' <=> Running
    BY <1>1 DEF Running
  <2> QED
    BY <1>1, <1>5, <1>7, <2>1, <2>2, <2>3 DEF FillInv, Same
<1> QED
  BY <1>7, <1>9, <1>10


LEMMA SizesPage ==
  ASSUME Types, SizeInv, ScaleInv, FillInv, PageNext
  PROVE  SizeInv' /\ ScaleInv' /\ FillInv'
<1>1. scale \in ScaleTypes /\ scale.applied \in BOOLEAN
  BY DEF Types, ScaleTypeOK, ScaleTypes
<1>2. ASSUME NEW s \in ScaleTypes, AdvanceScaleStep(s), ConnectionRests, s.applied = scale.applied,
             s.step = scale.step, s.from = scale.from, s.target = scale.target,
             s.due = "none" /\ canResize => scale.applied
      PROVE  SizeInv' /\ ScaleInv' /\ FillInv'
  <2>1. CASE Stays(s)
    BY <1>2, <2>1, SizesStay DEF Stays
  <2>2. CASE /\ s.step \in 0..2 /\ s.from = s.step
             /\ Stepped([s EXCEPT !.from = Undefined, !.timer = FALSE], s.step + 1)
    <3> DEFINE t == [s EXCEPT !.from = Undefined, !.timer = FALSE]
    <3>1. Undefined \in Undefined..2
      BY DEF Undefined
    <3>2. t \in ScaleTypes /\ t.applied = scale.applied /\ t.target = scale.target /\ t.from = Undefined
      BY <1>2, <3>1 DEF ScaleTypes
    <3>3. Stepped(t, scale.step + 1) /\ scale.step \in 0..2 /\ scale.from = scale.step
      BY <1>2, <2>2
    <3> HIDE DEF t
    <3> QED
      BY <1>2, <3>2, <3>3, SizesAdvance
  <2> QED
    BY <1>2, <2>1, <2>2, Advances
<1>3. ASSUME NEW s \in ScaleTypes, ApplyInitialScale(s), ConnectionRests, s.applied = scale.applied,
             s.step = scale.step, s.from = scale.from, s.target = scale.target
      PROVE  SizeInv' /\ ScaleInv' /\ FillInv'
  <2> DEFINE z == [res |-> screen.canvas, scale |-> WantedScale]
  <2>0. z \in Sizes /\ z.res = screen.canvas /\ z.scale = WantedScale
    BY WantedType DEF Types, ScaleTypeOK, Sizes
  <2>1. CASE Stays(s) /\ (s.applied \/ ~canResize)
    BY <1>3, <2>1, SizesStay DEF Stays
  <2>2. ASSUME ~s.applied PROVE scale.step = Undefined /\ screen.canvas = desk.size.res /\ desk.size = env.size
    BY <1>3, <2>2 DEF ScaleInv, SizeInv, SizesOf
  <2>3. CASE FirstLayout(s)
    <3>1. canResize /\ ~s.applied /\ scale' = [s EXCEPT !.applied = TRUE] /\ screen' = screen
          /\ desk'.size = z /\ Sends(z) /\ May("gfx")
      BY <2>3 DEF FirstLayout
    <3> HIDE DEF z
    <3>2. scale'.applied /\ scale'.step = Undefined /\ scale'.target = scale.target
      BY <1>3, <2>2, <3>1 DEF ScaleTypes
    <3> QED
      BY <1>3, <2>0, <3>1, <3>2, SizesStart
  <2>4. CASE canResize /\ ~May("scales") /\ ~s.applied /\ Stays([s EXCEPT !.applied = TRUE])
    <3>1. scale' = [s EXCEPT !.applied = TRUE] /\ UNCHANGED <<desk, up, screen>> /\ Sends(z)
      BY <2>4 DEF Stays, Sends
    <3> HIDE DEF z
    <3>2. scale'.applied /\ scale'.step = Undefined /\ scale'.target = scale.target
      BY <1>3, <2>2, <2>4, <3>1 DEF ScaleTypes
    <3>3. desk'.size.scale = WantedScale
      BY <2>2, <2>4, <3>1 DEF ScaleInv, WantedScale
    <3> QED
      BY <1>3, <2>0, <2>4, <3>1, <3>2, <3>3, SizesStart
  <2>5. CASE /\ canResize /\ May("scales") /\ ~May("gfx") /\ ~s.applied
             /\ Stepped([s EXCEPT !.target = screen.canvas, !.applied = TRUE], 0)
    <3> DEFINE t == [s EXCEPT !.target = screen.canvas, !.applied = TRUE]
    <3>1. t.target = screen.canvas /\ t.applied = TRUE
      BY <1>3 DEF ScaleTypes
    <3>2. Stepped(t, 0)
      BY <2>5
    <3> HIDE DEF t
    <3>3. StepSize(t.target, 0) = z
      BY <3>1 DEF StepSize
    <3> HIDE DEF z
    <3>4. scale'.applied /\ scale'.step = 0 /\ scale'.target = screen.canvas /\ Sends(z) /\ desk'.size = z
          /\ screen' = screen
      BY <2>5, <3>1, <3>2, <3>3 DEF Stepped
    <3>5. scale.target = screen.canvas
      BY <2>2, <2>5 DEF ScaleInv
    <3> QED
      BY <1>3, <2>0, <2>5, <3>4, <3>5, SizesStart
  <2> QED
    BY <1>3, <2>1, <2>3, <2>4, <2>5, Applies
<1>4. CASE Callback
  <2> DEFINE s == [scale EXCEPT !.due = "none"]
  <2>1. s \in ScaleTypes /\ s.applied = scale.applied /\ s.step = scale.step /\ s.from = scale.from
        /\ s.target = scale.target
    BY <1>1 DEF ScaleTypes
  <2>2. ConnectionRests /\ IF scale.due = "active" /\ Running THEN AdvanceScaleStep(s) ELSE ApplyInitialScale(s)
    BY <1>4 DEF Callback
  <2> HIDE DEF s
  <2>3. Running => scale.applied
    BY DEF Running
  <2> QED
    BY <1>2, <1>3, <2>1, <2>2, <2>3
<1>5. CASE ScaleTimer
  <2> DEFINE s == [scale EXCEPT !.timer = FALSE]
  <2>1. s \in ScaleTypes /\ s.applied = scale.applied /\ s.step = scale.step /\ s.from = scale.from
        /\ s.target = scale.target /\ s.due = scale.due
    BY <1>1 DEF ScaleTypes
  <2>2. ConnectionRests /\ AdvanceScaleStep(s)
    BY <1>5 DEF ScaleTimer
  <2> HIDE DEF s
  <2>3. s.due = "none" /\ canResize => scale.applied
    BY <2>1 DEF ScaleInv
  <2> QED
    BY <1>2, <2>1, <2>2, <2>3
<1>6. CASE ResizeTimer
  BY <1>6, SizesFollow
<1>7. ASSUME Settles \/ \E res \in Windows : ViewportChanges(res)
      PROVE  SizeInv' /\ ScaleInv' /\ FillInv'
  <2>1. /\ UNCHANGED <<desk, display, st, page, up, down, host, scale>>
        /\ env'.size = env.size /\ env'.may = env.may
    <3>1. env \in EnvTypes
      BY DEF Types, ConnTypeOK, EnvTypes
    <3> QED
      BY <1>7, <3>1 DEF Settles, ViewportChanges, connVars, clientVars, EnvTypes
  <2>2. /\ screen'.canvas = screen.canvas
        /\ screen'.resizing \/ (screen'.window = screen.window /\ screen'.resizing = screen.resizing)
    <3>1. screen \in ScreenTypes
      BY DEF Types, ScaleTypeOK, ScreenTypes
    <3> QED
      BY <1>7, <3>1 DEF Settles, ViewportChanges, ScreenTypes
  <2>3. (\A h : Same(h)) /\ WantedScale' = WantedScale /\ (Reached' <=> Reached) /\ (canResize' <=> canResize)
    BY <2>1 DEF Same, May, WantedScale, Reached, canResize
  <2>4. SizeInv'
    BY <2>1, <2>2, <2>3 DEF SizeInv, SizesOf, Same
  <2>5. ScaleInv'
    BY <2>1, <2>3 DEF ScaleInv, Nudged, Same
  <2>6. FillInv'
    BY <2>1, <2>2, <2>3 DEF FillInv, Running, Same
  <2> QED
    BY <2>4, <2>5, <2>6
<1> QED
  BY <1>4, <1>5, <1>6, <1>7 DEF PageNext

-----------------------------------------------------------------------------
(* The sizes in every step.                                                *)

LEMMA SizesNext ==
  ASSUME Types, ConnInv, SizeInv, ScaleInv, FillInv, [Next]_vars
  PROVE  SizeInv' /\ ScaleInv' /\ FillInv'
<1>1. CASE Fed
  BY <1>1, SizesFed
<1>2. CASE PageNext
  BY <1>2, SizesPage
<1>3. CASE HostNext /\ UNCHANGED pageVars
  BY <1>3, SizesHost
<1>4. CASE SendInput /\ UNCHANGED pageVars
  <2> DEFINE p == Up("input", share, NoSize)
  <2>1. UNCHANGED <<env, desk, display, st, page, down, host, scale, screen>> /\ up' = up \o <<p>>
    BY <1>4 DEF SendInput, Send, clientVars, pageVars
  <2>2. p \in UpPDUs /\ ~IsLayout(p)
    BY DEF Up, UpPDUs, UpKinds, IsLayout, Types, ConnTypeOK
  <2> HIDE DEF p
  <2>3. <<p>> \in Seq(UpPDUs) /\ NoLayout(<<p>>)
    BY <2>2, OneOf DEF NoLayout
  <2>4. /\ NoLayout(up) => NoLayout(up')
        /\ \A z : LastLayout(up, z) => LastLayout(up', z)
        /\ \A w : Scaled(up, w) => Scaled(up', w)
        /\ \A res : Tells(up, res) => Tells(up', res)
    BY <2>1, <2>3, LayoutsMore DEF Types
  <2>5. (\A h : Same(h)) /\ WantedScale' = WantedScale /\ (Reached' <=> Reached) /\ (canResize' <=> canResize)
    BY <2>1 DEF Same, May, WantedScale, Reached, canResize
  <2>6. SizeInv'
    BY <2>1, <2>4, <2>5 DEF SizeInv, SizesOf, Same
  <2>7. ScaleInv'
    BY <2>1, <2>4, <2>5 DEF ScaleInv, Nudged, Same
  <2>8. FillInv'
    BY <2>1, <2>5 DEF FillInv, Running, Same
  <2> QED
    BY <2>6, <2>7, <2>8
<1>5. CASE UNCHANGED vars
  <2>1. UNCHANGED <<env, desk, display, st, page, down, up, host, scale, screen>>
    BY <1>5 DEF vars, connVars, clientVars, pageVars
  <2>2. (\A h : Same(h)) /\ WantedScale' = WantedScale /\ (Reached' <=> Reached) /\ (canResize' <=> canResize)
    BY <2>1 DEF Same, May, WantedScale, Reached, canResize
  <2>3. SizeInv'
    BY <2>1, <2>2 DEF SizeInv, SizesOf, Same
  <2>4. ScaleInv'
    BY <2>1, <2>2 DEF ScaleInv, Nudged, Same
  <2>5. FillInv'
    BY <2>1, <2>2 DEF FillInv, Running, Same
  <2> QED
    BY <2>3, <2>4, <2>5
<1> QED
  BY <1>1, <1>2, <1>3, <1>4, <1>5 DEF Next, Rest

LEMMA SizesInit == Init => SizeInv /\ ScaleInv /\ FillInv
<1> SUFFICES ASSUME Init PROVE SizeInv /\ ScaleInv /\ FillInv
  OBVIOUS
<1>1. /\ env \in Environments /\ desk.size = env.size /\ desk.pending = NoSize /\ ~desk.sent
      /\ ~display.caps /\ page.size = env.size /\ host.size = env.size /\ down = <<>>
      /\ up = <<Just("connect-initial")>> /\ st = "basic"
      /\ ~scale.applied /\ scale.step = Undefined /\ scale.from = Undefined /\ scale.target = env.size.res
      /\ screen.canvas = env.size.res /\ screen.window = env.size.res /\ ~screen.resizing
  BY DEF Init, ConnInit
<1>2. NoLayout(up) /\ Scaled(up, WantedScale)
  <2>1. ~IsLayout(Just("connect-initial"))
    BY DEF Just, Up, IsLayout
  <2>2. \A i \in 1..Len(up) : up[i] = Just("connect-initial")
    BY <1>1
  <2> QED
    BY <2>1, <2>2 DEF NoLayout, Scaled
<1>3. NoCaps(down)
  BY <1>1 DEF NoCaps
<1>4. env.size.scale = IF May("gfx") /\ May("scales") THEN SessionScale ELSE 100
  BY <1>1, ScaleAssumption DEF May
<1>5. SizeInv
  BY <1>1, <1>2, <1>3 DEF SizeInv, SizesOf
<1>6. ScaleInv
  BY <1>1, <1>2, <1>4 DEF ScaleInv, canResize
<1>7. FillInv
  BY <1>1 DEF FillInv, Undefined
<1> QED
  BY <1>5, <1>6, <1>7


\* Host, client, page and canvas have one size when nothing is on its way, and the scale
\* has taken effect.
LEMMA SizesMeet ==
  ASSUME Types, ConnInv, SizeInv, ScaleInv
  PROVE  SizesAgree /\ ScaleTakesEffect
<1>1. ASSUME Quiescent PROVE (\A z : ~LastLayout(up, z)) /\ (\A res : ~Tells(up, res))
  BY <1>1 DEF Quiescent, LastLayout, Tells
<1>2. ASSUME Quiescent, st = "active", ~May("displayCloses")
      PROVE  Reached /\ IF May("ignoresScale") THEN desk.size.res = host.size.res ELSE desk.size = host.size
  <2>1. Reached
    BY <1>2, EndsMeet DEF EndsAgree, Reached
  <2> QED
    BY <1>1, <1>2, <2>1 DEF SizeInv
<1>3. SizesAgree
  <2> SUFFICES ASSUME Quiescent, st = "active", ~May("displayCloses")
               PROVE  /\ IF May("ignoresScale") THEN desk.size.res = host.size.res ELSE desk.size = host.size
                      /\ May("reactivates") /\ desk.pending = NoSize => page.size.res = host.size.res
    BY DEF SizesAgree
  <2> QED
    BY <1>2 DEF SizeInv, SizesOf
<1>4. ScaleTakesEffect
  <2> SUFFICES ASSUME AtRest PROVE host.size.scale = WantedScale /\ screen.canvas = host.size.res
    BY DEF ScaleTakesEffect
  <2>1. Quiescent /\ st = "active" /\ ~May("displayCloses") /\ ~Running /\ scale.applied
    BY DEF AtRest
  <2>2. Reached /\ screen.canvas = host.size.res
    BY <1>2, <2>1 DEF SizeInv, SizesOf
  <2>3. scale.step = Undefined \/ scale.step = 3
    BY <2>1 DEF Types, ScaleTypeOK, Running, Undefined
  <2>4. CASE scale.step = 3
    BY <1>1, <2>1, <2>2, <2>4 DEF ScaleInv, Nudged
  <2>5. CASE scale.step = Undefined
    <3>1. env.size.scale = WantedScale
      BY <2>1, <2>5 DEF ScaleInv, WantedScale
    <3> QED
      BY <2>2, <3>1 DEF ScaleInv
  <2> QED
    BY <2>2, <2>3, <2>4, <2>5
<1> QED
  BY <1>3, <1>4

\* All that is needed of a state.
DesktopInv == Types /\ ConnInv /\ SizeInv /\ ScaleInv /\ FillInv

LEMMA DesktopInvariant == Spec => []DesktopInv
<1>1. Init => DesktopInv
  BY TypesInit, ConnStarts, SizesInit DEF DesktopInv
<1>2. DesktopInv /\ [Next]_vars => DesktopInv'
  BY TypesNext, ConnNext, SizesNext DEF DesktopInv
<1> QED
  BY <1>1, <1>2, PTL DEF Spec

\* The layouts of sendMonitorLayout and the three steps of _runScaleStep leave client and
\* host with one size and the host with the session's scale, also a host that takes no
\* notice of a change of the scale alone, and whenever the user resizes.
THEOREM ScaleIsForced == Spec => [](SizesAgree /\ ScaleTakesEffect)
<1>1. DesktopInv => SizesAgree /\ ScaleTakesEffect
  BY SizesMeet DEF DesktopInv
<1> QED
  BY <1>1, DesktopInvariant, PTL

\* Unless the user resizes while the session starts or reactivates (maybeResize then gives
\* up), the desktop also fills the window that was made last (property DesktopAgrees).
THEOREM DesktopFollowsWindow == Spec => [](~May("early") => DesktopAgrees)
<1>1. DesktopInv => (~May("early") => DesktopAgrees)
  <2> SUFFICES ASSUME DesktopInv, ~May("early") PROVE DesktopAgrees
    OBVIOUS
  <2>1. WindowIsFilled
    BY DEF WindowIsFilled, AtRest, DesktopInv, FillInv
  <2> QED
    BY <2>1, SizesMeet DEF DesktopAgrees, DesktopInv
<1> QED
  BY <1>1, DesktopInvariant, PTL

=============================================================================
