------------------------- MODULE JsStreamReadProofs -------------------------
(***************************************************************************)
(* Theorems about the readable side of JsStreamUser for every source,      *)
(* every number of calls of user code, from anywhere, and every order in   *)
(* which the subclass answers: no chunk is lost, repeated or overtaken on  *)
(* its way from the source to user code, and an end is never announced     *)
(* before all of them were given out.                                      *)
(***************************************************************************)
EXTENDS JsStreamWriteProofs, FiniteSetTheorems

-----------------------------------------------------------------------------
(* The inductive invariant: the chunks. *)

\* The listeners that user code and its iterator add for the data.
Taker == IF use = "iterate" THEN Call("itData", r) ELSE Received
DataListeners == listeners[r]["data"]

\* The shapes of the state of the readable side.
Iterator ==
  [open : BOOLEAN, queue : Seq(Nat), waiters : Nat, done : BOOLEAN, failed : BOOLEAN,
   returned : BOOLEAN, answers : SUBSET {"done", "failed"}]
ReaderParts == {"buffer", "ended", "endEmitted", "flowing", "reading", "destroyed",
                 "errored", "readableTick", "flowTick", "pipes"}
ReaderTypes ==
  /\ ReaderParts \subseteq DOMAIN rs[r]
  /\ rs[r].buffer \in Seq(Nat) /\ got \in Seq(Nat) /\ it \in Iterator
  /\ produced \in 0..Total /\ calls \in 0..MaxCalls
  /\ use # "iterate" => it = NoIterator

\* A chunk on its way to user code, and one on its way from the source.
Delivers(f) == f.fn \in {"userData", "itData"} \/ (f.fn = "emit" /\ f.ev = "data")
Brings(f) == f.fn = "push" /\ f.c \notin {Eof, Empty}
InFlight == 1 \in DOMAIN stack /\ Delivers(stack[1])
Arriving == 1 \in DOMAIN stack /\ Brings(stack[1])

One(cond) == IF cond THEN 1 ELSE 0
Given == Len(got) + Len(it.queue)
Sent == Given + One(InFlight)
Buffered == Sent + Len(rs[r].buffer)

\* The numbers of the chunks in q go on from n.
Counts(q, n) == \A k \in 1..Len(q) : q[k] = n + k

\* What user code was given, what the iterator holds, the chunk on its way,
\* the buffer and the chunk that is being pushed, in this order, are the chunks
\* of the source.
InLine ==
  /\ Counts(got, 0) /\ Counts(it.queue, Len(got)) /\ Counts(rs[r].buffer, Sent)
  /\ InFlight => stack[1].c = Given + 1
  /\ Arriving => stack[1].c = Buffered + 1
  /\ produced = Buffered + One(Arriving)

\* A stream that lives has ended when its source has; 'end' comes after the
\* last chunk was given out.
Ending ==
  /\ rs[r].ended /\ ~rs[r].destroyed => produced = Total
  /\ rs[r].destroyed => rs[r].ended
  /\ rs[r].endEmitted => Given = Total

\* The subclass owes one chunk, at most.
Promised == \E k \in DOMAIN io : io[k].fn = "_read"
Asking ==
  /\ \A k, l \in DOMAIN io : io[k].fn = "_read" /\ io[l].fn = "_read" => k = l
  /\ Promised => rs[r].reading /\ (rs[r].ended => rs[r].destroyed)

\* Where the listeners that matter here are heard.
HeardAt(l, s, ev) ==
  /\ l.fn \in {"userData", "itData"} <=> s = r /\ ev = "data"
  /\ l.fn \in {"userData", "itData"} => l = Taker /\ use \in {"data", "iterate"}
  /\ l.fn \in {"itData", "itEnd", "itError"} => it.open
  /\ l.fn = "itEnd" => s = r /\ ev \in {"end", "close"}
  /\ l.fn = "itError" => s = r /\ ev = "error"

Hearing ==
  /\ \A s \in Streams, ev \in Events :
       \A k \in DOMAIN listeners[s][ev] : HeardAt(listeners[s][ev][k], s, ev)
  /\ Len(DataListeners) <= 1
  /\ rs[r].flowing => DataListeners # <<>>

\* What the calls of the readable side carry.
Fetches(f) ==
  /\ f.fn = "emit" /\ f.ev = "data" => f.s = r /\ "c" \in DOMAIN f /\ f.c \in Nat
  /\ f.fn \in {"userData", "itData", "unshift"} => f.c \in Nat
  /\ f.fn = "userData" => use = "data"
  /\ f.fn \in {"itData", "itEnd", "itError", "itNext", "itReturn", "iterate"} => use = "iterate"
  /\ f.fn \in {"itData", "itEnd", "itError", "itNext", "itReturn"} => it.open
  /\ f.fn \in {"read", "unshift"} => use = "read"
  /\ f.fn = "on" => HeardAt(f.l, f.s, f.ev)
  /\ f.fn = "off" => it.returned \/ f.ev = "data"
  /\ f.fn = "push" => f.c \in Int

\* The calls that run before anything else does, and what holds then.
Sharp(f) ==
  \/ Delivers(f)
  \/ f.fn \in {"push", "_read", "emitEnd", "unshift", "iterate", "itNext"}
  \/ f.fn = "on" /\ f.ev = "data"

AtTop(f) ==
  /\ f.fn = "emit" => DataListeners # <<>>
  /\ f.fn = "push" => /\ ~Promised /\ ~rs[r].ended /\ ~rs[r].destroyed
                      /\ f.c = Eof => produced = Total
  /\ f.fn = "_read" => ~Promised /\ rs[r].reading /\ ~rs[r].ended /\ ~rs[r].destroyed
  /\ f.fn = "emitEnd" => rs[r].destroyed \/ (rs[r].ended /\ rs[r].buffer = <<>>)
  /\ f.fn = "unshift" => got # <<>> /\ f.c = Len(got) /\ ~rs[r].endEmitted
  /\ f.fn = "on" => DataListeners = <<>>
  /\ f.fn = "iterate" => ~it.open /\ ~rs[r].destroyed
  /\ f.fn = "itNext" => it.waiters < calls

\* Listeners are added, and the stream resumed, with nothing in between.
Joins(f) == f.fn \in {"on", "resume"}
Joining ==
  \A k \in DOMAIN stack :
    /\ Joins(stack[k]) => \A j \in 1..(k - 1) : stack[j].fn = "on"
    /\ stack[k].fn = "resume" =>
         DataListeners # <<>> \/ (k # 1 /\ stack[1].fn = "on" /\ stack[1].ev = "data")

Fetching ==
  /\ \A k \in DOMAIN stack :
       Fetches(stack[k]) /\ (Sharp(stack[k]) => k = 1 /\ AtTop(stack[k]))
  /\ Joining

RInv == ReaderTypes /\ InLine /\ Ending /\ Asking /\ Hearing /\ Fetching

-----------------------------------------------------------------------------
(* The inductive invariant: the counters. *)

\* Nobody waits for a chunk that the iterator holds, or for more than was asked.
Waiters ==
  /\ it.waiters > 0 => it.queue = <<>>
  /\ it.waiters <= calls

\* No more is answered for or counted than was accepted.
Tally ==
  /\ Len(done) + One(Writing(w)) <= Len(accepted)
  /\ ws[w].length <= Len(accepted)

-----------------------------------------------------------------------------
(* Sequences that count. *)

LEMMA Counted ==
  ASSUME NEW q \in Seq(Nat), NEW n \in Nat, Counts(q, n)
  PROVE  /\ Len(q) \in Nat /\ IsSeq(q) /\ DOMAIN q = 1..Len(q)
         /\ q # <<>> <=> Len(q) > 0
         /\ Len(q) > 0 => Head(q) = n + 1 /\ Last(q) = n + Len(q)
<1>1. Len(q) \in Nat /\ IsSeq(q) /\ DOMAIN q = 1..Len(q) /\ (q # <<>> <=> Len(q) > 0)
  BY SeqIsSeq
<1>2. ASSUME Len(q) > 0 PROVE Head(q) = n + 1 /\ Last(q) = n + Len(q)
  <2>1. 1 \in 1..Len(q) /\ Len(q) \in 1..Len(q)
    BY <1>1, <1>2
  <2>2. q[1] = n + 1 /\ q[Len(q)] = n + Len(q)
    BY <2>1 DEF Counts
  <2>3. Head(q) = q[1]
    BY <1>1, <1>2, TailOf
  <2> QED BY <2>2, <2>3 DEF Last
<1> QED BY <1>1, <1>2

\* The next chunk goes to the end.
LEMMA CountsOn ==
  ASSUME NEW q \in Seq(Nat), NEW n \in Nat, Counts(q, n), NEW c, c = n + Len(q) + 1,
         NEW a, a = Append(q, c)
  PROVE  a \in Seq(Nat) /\ Len(a) = Len(q) + 1 /\ Counts(a, n)
<1>1. c \in Nat /\ Len(q) \in Nat
  OBVIOUS
<1>2. a \in Seq(Nat) /\ Len(a) = Len(q) + 1
  BY <1>1
<1>3. ASSUME NEW k \in 1..Len(a) PROVE a[k] = n + k
  <2>1. CASE k \in 1..Len(q)
    BY <1>1, <2>1 DEF Counts
  <2>2. CASE k = Len(q) + 1
    BY <1>1, <2>2
  <2> QED BY <1>1, <1>2, <2>1, <2>2
<1> QED BY <1>2, <1>3 DEF Counts

\* The first chunk goes.
LEMMA CountsOff ==
  ASSUME NEW q \in Seq(Nat), NEW n \in Nat, Counts(q, n), q # <<>>, NEW t, t = Tail(q)
  PROVE  t \in Seq(Nat) /\ Len(t) = Len(q) - 1 /\ Counts(t, n + 1)
<1>1. t \in Seq(Nat) /\ Len(q) \in Nat \ {0} /\ Len(t) = Len(q) - 1
  OBVIOUS
<1>2. ASSUME NEW k \in 1..Len(t) PROVE t[k] = (n + 1) + k
  <2>1. k + 1 \in 1..Len(q) /\ k \in 1..(Len(q) - 1)
    BY <1>1
  <2>2. t[k] = q[k + 1]
    BY <2>1, TailOf, SeqIsSeq
  <2> QED BY <2>1, <2>2 DEF Counts
<1> QED BY <1>1, <1>2 DEF Counts

\* The last chunk goes.
LEMMA CountsBut ==
  ASSUME NEW q \in Seq(Nat), NEW n \in Nat, Counts(q, n), q # <<>>, NEW t, t = Front(q)
  PROVE  t \in Seq(Nat) /\ Len(t) = Len(q) - 1 /\ Counts(t, n)
<1>1. Len(q) \in Nat \ {0}
  OBVIOUS
<1>2. t = SubSeq(q, 1, Len(q) - 1)
  BY DEF Front
<1>3. \A k \in 1..(Len(q) - 1) : q[k] \in Nat
  BY <1>1
<1>4. t \in Seq(Nat) /\ Len(t) = Len(q) - 1 /\ \A k \in 1..(Len(q) - 1) : t[k] = q[k]
  <2>1. PICK m : m = Len(q) - 1
    OBVIOUS
  <2>2. m \in Int /\ 1 \in Int /\ (m >= 1 \/ m = 0) /\ m - 1 + 1 = m
    BY <1>1, <2>1
  <2>3. /\ SubSeq(q, 1, m) \in Seq(Nat)
        /\ Len(SubSeq(q, 1, m)) = IF 1 <= m THEN m - 1 + 1 ELSE 0
        /\ \A i \in 1..(m - 1 + 1) : SubSeq(q, 1, m)[i] = q[1 + i - 1]
    BY <1>3, <2>1, <2>2, SubSeqProperties
  <2>4. \A i \in 1..m : 1 + i - 1 = i
    BY <2>2
  <2> QED BY <1>2, <2>1, <2>2, <2>3, <2>4
<1> QED BY <1>1, <1>4 DEF Counts

\* The chunk before the first is put back.
Precedes(n, c) == n \in Nat /\ c = n + 1

LEMMA CountsBack ==
  ASSUME NEW q \in Seq(Nat), NEW n, NEW c, Precedes(n, c), Counts(q, c)
  PROVE  /\ Both(<<c>>, q) \in Seq(Nat) /\ Len(Both(<<c>>, q)) = Len(q) + 1
         /\ Counts(Both(<<c>>, q), n)
<1>1. n \in Nat /\ c = n + 1 /\ c \in Nat
  BY DEF Precedes
<1>2. Len(q) \in Nat /\ IsSeq(q) /\ IsSeq(<<c>>) /\ Len(<<c>>) = 1
  BY Short, SeqIsSeq
<1>3. PICK b : b = <<c>>
  OBVIOUS
<1>4. IsSeq(b) /\ Len(b) = 1 /\ b[1] = c /\ b \in Seq(Nat)
  BY <1>1, <1>2, <1>3
<1>5. /\ Len(b \o q) = Len(b) + Len(q) /\ b \o q \in Seq(Nat)
      /\ \A k \in 1..Len(b) : (b \o q)[k] = b[k]
      /\ \A k \in 1..Len(q) : (b \o q)[k + Len(b)] = q[k]
  <2>1. IsSeq(b) /\ IsSeq(q)
    BY <1>2, <1>4
  <2>2. b \o q \in Seq(Nat)
    BY <1>4
  <2> QED BY <2>1, <2>2, Joined
<1>6. PICK a : a = b \o q
  OBVIOUS
<1>7. /\ Len(a) = 1 + Len(q) /\ a \in Seq(Nat) /\ a[1] = c
      /\ \A k \in 1..Len(q) : a[k + 1] = q[k]
  BY <1>4, <1>5, <1>6
<1>8. ASSUME NEW k \in 1..Len(a) PROVE a[k] = n + k
  <2>1. CASE k = 1
    BY <1>1, <1>7, <2>1
  <2>2. CASE k # 1
    <3>1. PICK m : m = k - 1
      OBVIOUS
    <3>2. m \in 1..Len(q) /\ m + 1 = k
      BY <1>2, <1>7, <2>2, <3>1
    <3>3. a[m + 1] = q[m] /\ q[m] = c + m
      BY <1>7, <3>2 DEF Counts
    <3>4. m \in Int /\ c + m = n + (m + 1)
      BY <1>1, <1>2, <3>2
    <3> QED BY <3>2, <3>3, <3>4
  <2> QED BY <2>1, <2>2
<1>9. Both(<<c>>, q) = a
  BY <1>3, <1>6 DEF Both
<1>10. Len(a) = Len(q) + 1
  BY <1>2, <1>7
<1> QED BY <1>7, <1>8, <1>9, <1>10 DEF Counts

-----------------------------------------------------------------------------
(* What a step leaves at the top of the stack. *)

\* The calls P take the place of the first d of the stack.
Onward(P, d) ==
  /\ Shifted(P, d)
  /\ 1 \in DOMAIN stack =>
       stack[1].fn # "on" /\ (d = 0 => ~Sharp(stack[1]) /\ ~Joins(stack[1]))

\* What the calls P have to be.
Follow(P) ==
  \A k \in 1..Len(P) :
    /\ Fetches(P[k])'
    /\ Sharp(P[k]) => k = 1 /\ AtTop(P[k])'
    /\ Joins(P[k]) => \A j \in 1..(k - 1) : P[j].fn = "on"
    /\ P[k].fn = "resume" =>
         DataListeners' # <<>> \/ (k # 1 /\ P[1].fn = "on" /\ P[1].ev = "data")

\* The chunk on its way after a step.
LEMMA TopNext ==
  ASSUME Fetching, NEW P, NEW d, Onward(P, d)
  PROVE  /\ 1 \in 1..Len(P) => 1 \in DOMAIN stack' /\ stack'[1] = P[1]
         /\ InFlight' <=> 1 \in 1..Len(P) /\ Delivers(P[1])
         /\ Arriving' <=> 1 \in 1..Len(P) /\ Brings(P[1])
<1>1. /\ Len(P) \in Nat /\ Len(stack) \in Nat /\ d \in 0..1 /\ d <= Len(stack)
      /\ DOMAIN stack = 1..Len(stack) /\ DOMAIN stack' = 1..Len(stack')
      /\ Len(stack') = Len(P) + Len(stack) - d /\ Shifted(P, d)
  BY Indexed DEF Shifted, Onward
<1>2. 1 \in 1..Len(P) => 1 \in DOMAIN stack' /\ stack'[1] = P[1]
  BY <1>1 DEF Shifted
<1>3. ASSUME 1 \notin 1..Len(P), 1 \in DOMAIN stack'
      PROVE  ~Sharp(stack'[1])
  <2>1. PICK m \in DOMAIN stack : m > d /\ stack'[1] = stack[m]
    BY <1>1, <1>3, Origin
  <2>2. m # 1 => ~Sharp(stack[m])
    BY DEF Fetching
  <2>3. m = 1 => ~Sharp(stack[m])
    BY <1>1, <2>1 DEF Onward
  <2> QED BY <2>1, <2>2, <2>3
<1>4. \A f : Delivers(f) \/ Brings(f) => Sharp(f)
  BY DEF Delivers, Brings, Sharp
<1>5. InFlight' <=> 1 \in 1..Len(P) /\ Delivers(P[1])
  <2>1. InFlight' <=> 1 \in DOMAIN stack' /\ Delivers(stack'[1])
    BY DEF InFlight, Delivers
  <2> QED BY <1>2, <1>3, <1>4, <2>1
<1>6. Arriving' <=> 1 \in 1..Len(P) /\ Brings(P[1])
  <2>1. Arriving' <=> 1 \in DOMAIN stack' /\ Brings(stack'[1])
    BY DEF Arriving, Brings
  <2> QED BY <1>2, <1>3, <1>4, <2>1
<1> QED BY <1>2, <1>5, <1>6

\* The calls on the stack.
LEMMA FetchingKept ==
  ASSUME Fetching, NEW P, NEW d, Onward(P, d), Follow(P),
         use' = use, it.open => it'.open, it.returned => it'.returned
  PROVE  Fetching'
<1>1. /\ Len(P) \in Nat /\ Len(stack) \in Nat /\ d \in 0..1 /\ d <= Len(stack)
      /\ DOMAIN stack = 1..Len(stack) /\ Shifted(P, d)
  BY Indexed DEF Shifted, Onward
<1>2. ASSUME NEW m \in DOMAIN stack, m > d
      PROVE  Fetches(stack[m]) /\ ~Sharp(stack[m]) /\ ~Joins(stack[m])
  <2>1. CASE m = 1
    BY <1>1, <1>2, <2>1 DEF Fetching, Onward
  <2>2. CASE m # 1
    <3>1. 1 \in 1..(m - 1) /\ 1 \in DOMAIN stack
      BY <1>1, <2>2
    <3> QED BY <2>2, <3>1 DEF Fetching, Joining, Onward
  <2> QED BY <2>1, <2>2
<1>3. ASSUME NEW f, Fetches(f) PROVE Fetches(f)'
  BY <1>3 DEF Fetches, HeardAt, Taker
<1>4. ASSUME NEW k \in DOMAIN stack', k \notin 1..Len(P) \/ stack'[k] # P[k]
      PROVE  Fetches(stack[k])' /\ ~Sharp(stack'[k]) /\ ~Joins(stack'[k])
  <2>1. PICK m \in DOMAIN stack : m > d /\ stack'[k] = stack[m]
    BY <1>1, <1>4, Origin
  <2>2. PICK f : f = stack[m]
    OBVIOUS
  <2>3. Fetches(f)' /\ ~Sharp(f) /\ ~Joins(f) /\ stack'[k] = f
    BY <1>2, <1>3, <2>1, <2>2
  <2> QED BY <2>3 DEF Fetches
<1>5. ASSUME NEW k \in DOMAIN stack', k \in 1..Len(P), stack'[k] = P[k]
      PROVE  Fetches(stack[k])' /\ (Sharp(stack'[k]) => k = 1 /\ AtTop(stack[k])')
  <2>1. PICK f : f = P[k]
    OBVIOUS
  <2>2. Fetches(f)' /\ (Sharp(f) => k = 1 /\ AtTop(f)') /\ stack'[k] = f
    BY <1>5, <2>1 DEF Follow
  <2> QED BY <2>2 DEF Fetches, AtTop
<1>6. \A k \in DOMAIN stack' : Sharp(stack[k])' <=> Sharp(stack'[k])
  BY DEF Sharp, Delivers
<1>7. Joining'
  <2>1. ASSUME NEW k \in DOMAIN stack', Joins(stack'[k])
        PROVE  /\ \A j \in 1..(k - 1) : stack'[j].fn = "on"
               /\ stack'[k].fn = "resume" =>
                    \/ DataListeners' # <<>>
                    \/ k # 1 /\ stack'[1].fn = "on" /\ stack'[1].ev = "data"
    <3>1. k \in 1..Len(P) /\ stack'[k] = P[k] /\ Joins(P[k])
      BY <1>4, <2>1
    <3>2. \A j \in 1..k : j \in 1..Len(P) /\ stack'[j] = P[j]
      BY <1>1, <3>1 DEF Shifted
    <3>3. 1 \in 1..k
      BY <1>1, <3>1
    <3>4. \A j \in 1..(k - 1) : j \in 1..k
      BY <1>1, <3>1
    <3> QED BY <3>1, <3>2, <3>3, <3>4 DEF Follow
  <2>2. \A k \in DOMAIN stack' : stack'[k].fn = "resume" => Joins(stack'[k])
    BY DEF Joins
  <2> QED BY <2>1, <2>2 DEF Joining, Joins
<1> QED BY <1>4, <1>5, <1>6, <1>7 DEF Fetching

\* The listeners after a step that adds or removes none.
LEMMA HearingKept ==
  ASSUME Hearing, listeners' = listeners, use' = use, it.open => it'.open,
         rs'[r].flowing => rs[r].flowing \/ DataListeners # <<>>
  PROVE  Hearing'
<1>1. DataListeners' = DataListeners /\ Taker' = Taker
  BY DEF DataListeners, Taker
<1>2. ASSUME NEW l, NEW s, NEW ev, HeardAt(l, s, ev) PROVE HeardAt(l, s, ev)'
  BY <1>1, <1>2 DEF HeardAt
<1>3. ASSUME NEW s \in Streams, NEW ev \in Events, NEW k \in DOMAIN listeners'[s][ev]
      PROVE  HeardAt(listeners[s][ev][k], s, ev)'
  <2>1. PICK l : l = listeners[s][ev][k]
    OBVIOUS
  <2>2. HeardAt(l, s, ev)' /\ listeners'[s][ev][k] = l
    BY <1>2, <1>3, <2>1 DEF Hearing
  <2> QED BY <2>2 DEF HeardAt
<1> QED BY <1>1, <1>3 DEF Hearing

\* What the subclass owes.
OneRead == \A k, l \in DOMAIN io' : io'[k].fn = "_read" /\ io'[l].fn = "_read" => k = l
SameDebt ==
  /\ OneRead
  /\ Promised' => Promised \/ (rs'[r].reading /\ ~rs'[r].ended)
  /\ rs[r].reading => rs'[r].reading \/ ~Promised
  /\ rs'[r].ended /\ ~rs'[r].destroyed => (rs[r].ended /\ ~rs[r].destroyed) \/ ~Promised

LEMMA AskingKept ==
  ASSUME Asking, SameDebt
  PROVE  Asking'
BY DEF Asking, SameDebt, OneRead

-----------------------------------------------------------------------------
(* Steps that move no chunk. *)

\* What such a step does to the stream.
SameReader ==
  /\ ReaderParts \subseteq DOMAIN rs'[r]
  /\ rs'[r].buffer = rs[r].buffer
  /\ rs'[r].destroyed => rs'[r].ended
  /\ rs'[r].ended /\ ~rs'[r].destroyed => (rs[r].ended /\ ~rs[r].destroyed) \/ produced = Total
  /\ rs'[r].endEmitted => rs[r].endEmitted \/ Given = Total
  /\ rs'[r].flowing => rs[r].flowing \/ DataListeners # <<>>

Carrying(f) == Delivers(f) \/ Brings(f)
NoCarrier(P) == \A k \in 1..Len(P) : ~Carrying(P[k])

LEMMA StillStep ==
  ASSUME Inv, RInv, NEW P, NEW d, Onward(P, d), Follow(P), NoCarrier(P),
         1 \in DOMAIN stack => ~Carrying(stack[1]),
         SameReader, SameDebt, calls' \in 0..MaxCalls,
         UNCHANGED <<listeners, use, it, got, produced>>
  PROVE  RInv'
<1>1. ReaderTypes'
  BY DEF RInv, ReaderTypes, SameReader
<1>2. ~InFlight /\ ~Arriving /\ ~InFlight' /\ ~Arriving'
  <2>1. ~InFlight /\ ~Arriving
    BY DEF InFlight, Arriving, Carrying
  <2>2. 1 \in 1..Len(P) => ~Delivers(P[1]) /\ ~Brings(P[1])
    BY DEF NoCarrier, Carrying
  <2> QED BY <2>1, <2>2, TopNext DEF RInv
<1>3. Given' = Given /\ Sent' = Given /\ Buffered' = Buffered /\ Sent = Given
  BY <1>1, <1>2 DEF RInv, ReaderTypes, SameReader, Given, Sent, Buffered, One
<1>4. InLine'
  BY <1>2, <1>3 DEF RInv, InLine, One, Counts, SameReader
<1>5. Ending'
  BY <1>3 DEF RInv, Ending, SameReader
<1>6. Asking' /\ Hearing' /\ Fetching'
  BY AskingKept, HearingKept, FetchingKept DEF RInv, SameReader
<1> QED BY <1>1, <1>4, <1>5, <1>6 DEF RInv

-----------------------------------------------------------------------------
(* Calls that have no part in the reading of a chunk. *)

\* The calls that matter to the readable side.
Loud == {"userData", "itData", "itEnd", "itError", "itNext", "itReturn", "iterate", "push",
         "_read", "emitEnd", "unshift", "read", "on", "off", "resume"}
Aside(f) == f.fn \notin Loud /\ (f.fn = "emit" => f.ev # "data")
AllAside(P) == IsSeq(P) /\ \A k \in 1..Len(P) : Aside(P[k])

LEMMA AsideIsQuiet ==
  ASSUME NEW f, Aside(f)
  PROVE  Fetches(f)' /\ ~Sharp(f) /\ ~Joins(f) /\ ~Carrying(f) /\ f.fn # "resume"
BY DEF Aside, Loud, Fetches, Sharp, Joins, Delivers, Brings, Carrying

LEMMA AsideFollows ==
  ASSUME NEW P, AllAside(P)
  PROVE  Follow(P) /\ NoCarrier(P)
BY AsideIsQuiet DEF AllAside, Follow, NoCarrier

\* Neither do these matter to the iterator.
Still(f) ==
  Aside(f) /\ f.fn \notin {"closed", "_destroy"} /\ (f.fn = "emit" => f.ev \notin {"error", "close"})
AllStill(P) == IsSeq(P) /\ \A k \in 1..Len(P) : Still(P[k])

LEMMA StillLists ==
  /\ AllStill(<<>>)
  /\ \A a : Still(a) => AllStill(<<a>>)
  /\ \A a, b : Still(a) /\ Still(b) => AllStill(<<a, b>>)
  /\ \A c, q : AllStill(q) => AllStill(Then(c, q))
<1>1. AllStill(<<>>)
  BY Short DEF AllStill
<1>2. ASSUME NEW a, Still(a) PROVE AllStill(<<a>>)
  BY <1>2, Short DEF AllStill
<1>3. ASSUME NEW a, NEW b, Still(a), Still(b) PROVE AllStill(<<a, b>>)
  <2>1. IsSeq(<<a, b>>) /\ Len(<<a, b>>) = 2
    BY Short
  <2>2. \A k \in 1..2 : Still(<<a, b>>[k])
    BY <1>3
  <2> QED BY <2>1, <2>2 DEF AllStill
<1>4. ASSUME NEW c, NEW q, AllStill(q) PROVE AllStill(Then(c, q))
  BY <1>1, <1>4 DEF Then
<1> QED BY <1>1, <1>2, <1>3, <1>4

LEMMA StillJoined ==
  ASSUME NEW p, NEW q, AllStill(p), AllStill(q)
  PROVE  AllStill(p \o q)
<1>1. PICK s : s = p \o q
  OBVIOUS
<1>2. IsSeq(p) /\ IsSeq(q) /\ IsSeq(s)
  BY <1>1, Joined DEF AllStill
<1>3. DOMAIN p = 1..Len(p) /\ DOMAIN q = 1..Len(q) /\ DOMAIN s = 1..Len(s)
  BY <1>2, Indexed
<1>4. \A k \in DOMAIN s : Still(s[k])
  BY <1>1, <1>2, <1>3, JoinedOrigin DEF AllStill
<1> QED BY <1>1, <1>2, <1>3, <1>4 DEF AllStill

LEMMA StillCalls ==
  ASSUME NEW f, f \notin Loud \cup {"emit", "closed", "_destroy"}, NEW s
  PROVE  /\ Still(Call(f, s))
         /\ \A c : Still(CallC(f, s, c))
         /\ \A e : Still(CallE(f, s, e))
BY DEF Still, Aside, Call, CallC, CallE

LEMMA StillEvents ==
  ASSUME NEW s, NEW ev, ev \notin {"data", "error", "close"}
  PROVE  Still(Emit(s, ev))
BY DEF Still, Aside, Emit, Loud

LEMMA StillCallback ==
  ASSUME NEW s, NEW item, NEW err
  PROVE  AllStill(Callback(s, item, err))
<1>1. PICK f : f = [fn |-> "callback", s |-> s, c |-> item.c, err |-> err]
  OBVIOUS
<1>2. Still(f)
  BY <1>1 DEF Still, Aside, Loud
<1>3. AllStill(<<f>>)
  BY <1>2, StillLists
<1> QED BY <1>1, <1>3, StillLists DEF Callback

LEMMA StillFailures ==
  ASSUME NEW s, NEW list
  PROVE  AllStill(FailWrites(s, list))
<1>1. PICK f : f = [fn |-> "failWrites", s |-> s, list |-> list]
  OBVIOUS
<1>2. Still(f)
  BY <1>1 DEF Still, Aside, Loud
<1>3. AllStill(<<f>>)
  BY <1>2, StillLists
<1> QED BY <1>1, <1>3, StillLists DEF FailWrites

LEMMA StillIsAside ==
  ASSUME NEW P, AllStill(P)
  PROVE  AllAside(P)
BY DEF AllStill, AllAside, Still

LEMMA AsideJoined ==
  ASSUME NEW p, NEW q, AllAside(p), AllAside(q)
  PROVE  AllAside(p \o q)
<1>1. PICK s : s = p \o q
  OBVIOUS
<1>2. IsSeq(p) /\ IsSeq(q) /\ IsSeq(s)
  BY <1>1, Joined DEF AllAside
<1>3. DOMAIN p = 1..Len(p) /\ DOMAIN q = 1..Len(q) /\ DOMAIN s = 1..Len(s)
  BY <1>2, Indexed
<1>4. \A k \in DOMAIN s : Aside(s[k])
  BY <1>1, <1>2, <1>3, JoinedOrigin DEF AllAside
<1> QED BY <1>1, <1>2, <1>3, <1>4 DEF AllAside

-----------------------------------------------------------------------------
(* Functions of the library that move no chunk. *)

\* What a step of the library leaves alone.
Within == Observe /\ UNCHANGED <<use, calls, io, produced, it, called, stalled>>

LEMMA GotSame ==
  ASSUME Observe, NEW f, Running(f), f \notin {"read", "unshift"}
  PROVE  got' = got
BY DEF Observe, Running

LEMMA RunsOnward ==
  ASSUME Inv, NEW f, Running(f), f # "on", NEW P, IsSeq(P), Continue(P)
  PROVE  Onward(P, 1)
<1>1. IsSeq(stack) /\ stack # <<>> /\ stack[1].fn = f
  BY Top
<1> QED BY <1>1, Replaced DEF Onward

LEMMA ReaderRuns ==
  ASSUME Inv, NEW f \in ReaderCalls, Running(f)
  PROVE  /\ top.s = r /\ top = stack[1] /\ 1 \in DOMAIN stack /\ stack[1].fn = f
         /\ IsSeq(stack) /\ stack # <<>> /\ DOMAIN rs = Readers /\ r \in DOMAIN rs
<1>1. Known(top) /\ top.fn = f /\ DOMAIN rs = Readers
  BY Top DEF Inv, States
<1>2. top.s = r
  BY <1>1, UserAssumption DEF Known
<1> QED BY <1>1, <1>2, Top, UserAssumption

ReaderKept ==
  /\ ReaderParts \subseteq DOMAIN rs'[r]
  /\ rs'[r].buffer = rs[r].buffer
  /\ rs'[r].destroyed => rs'[r].ended
  /\ rs'[r].ended /\ ~rs'[r].destroyed => rs[r].ended /\ ~rs[r].destroyed
  /\ rs'[r].endEmitted => rs[r].endEmitted
  /\ rs[r].reading => rs'[r].reading
  /\ rs'[r].flowing => rs[r].flowing \/ DataListeners # <<>>

LEMMA KeptReader ==
  ASSUME RInv, ReaderKept, io' = io
  PROVE  SameReader /\ SameDebt
BY DEF RInv, Asking, ReaderKept, SameReader, SameDebt, OneRead, Promised

LEMMA AsideRun ==
  ASSUME Inv, RInv, NEW f, Running(f), f # "on", f \notin {"push", "userData", "itData"},
         f = "emit" => top.ev # "data",
         NEW P, Continue(P), AllAside(P), ReaderKept,
         UNCHANGED <<listeners, io, use, it, got, produced, calls>>
  PROVE  RInv'
<1>1. IsSeq(stack) /\ stack # <<>> /\ stack[1].fn = f /\ top = stack[1]
  BY Top
<1>2. Onward(P, 1)
  BY RunsOnward DEF AllAside
<1>3. ~Carrying(stack[1])
  BY <1>1 DEF Carrying, Delivers, Brings
<1>4. calls' \in 0..MaxCalls
  BY DEF RInv, ReaderTypes
<1> QED BY <1>2, <1>3, <1>4, AsideFollows, KeptReader, StillStep

LEMMA SameReaderKept ==
  ASSUME RInv, rs' = rs
  PROVE  ReaderKept
BY DEF RInv, ReaderTypes, Ending, ReaderKept

-----------------------------------------------------------------------------
(* The writable side moves no chunk of the readable one. *)

\* What a step of the writable side does to the readable one.
AtRest ==
  /\ \E f : Running(f) /\ f \notin Loud \cup {"emit", "closed", "_destroy"}
  /\ \E P : Continue(P) /\ AllStill(P)
  /\ rs' = rs /\ listeners' = listeners

LEMMA WriteRests ==
  ASSUME Write
  PROVE  AtRest
<1>1. PICK s : s = top.s
  OBVIOUS
<1>2. /\ AllStill(<<>>) /\ AllStill(<<CallE("destroy", s, TRUE)>>)
      /\ AllStill(<<Call("doWrite", s), Call("written", s)>>)
  BY StillCalls, StillLists DEF Loud
<1>3. \/ Continue(<<>>) \/ Continue(<<CallE("destroy", s, TRUE)>>)
      \/ Continue(<<Call("doWrite", s), Call("written", s)>>)
  BY <1>1, Zenon DEF Write
<1>4. Running("write") /\ rs' = rs /\ listeners' = listeners
  BY Zenon DEF Write
<1> QED BY <1>2, <1>3, <1>4 DEF AtRest, Loud

LEMMA DoWriteRests ==
  ASSUME DoWrite
  PROVE  AtRest
<1>1. PICK s : s = top.s
  OBVIOUS
<1>2. \A c : AllStill(<<CallC("_write", s, c)>>)
  BY StillCalls, StillLists DEF Loud
<1>3. Continue(<<>>) \/ \E c : Continue(<<CallC("_write", s, c)>>)
  BY <1>1, Zenon DEF DoWrite
<1>4. Running("doWrite") /\ rs' = rs /\ listeners' = listeners
  BY Zenon DEF DoWrite
<1>5. PICK P : Continue(P) /\ AllStill(P)
  BY <1>2, <1>3, StillLists
<1> QED BY <1>4, <1>5 DEF AtRest, Loud

LEMMA OnWriteRests ==
  ASSUME OnWrite
  PROVE  AtRest
<1>1. PICK s : s = top.s
  OBVIOUS
<1>2. AllStill(<<IF top.err THEN CallE("destroy", s, TRUE) ELSE Call("afterWrite", s)>>)
  BY StillCalls, StillLists DEF Loud
<1>3. AllStill(Callback(s, ws[s].current, top.err))
  BY StillCallback
<1>4. Continue(Callback(s, ws[s].current, top.err)
               \o <<IF top.err THEN CallE("destroy", s, TRUE) ELSE Call("afterWrite", s)>>)
  BY <1>1, Zenon DEF OnWrite
<1> QED BY <1>2, <1>3, <1>4, StillJoined DEF OnWrite, AtRest, Loud

LEMMA AfterWriteRests ==
  ASSUME AfterWrite
  PROVE  AtRest
<1>1. PICK s : s = top.s
  OBVIOUS
<1>2. /\ AllStill(<<Call("doWrite", s)>>) /\ AllStill(<<Call("maybeFinish", s)>>)
      /\ AllStill(<<Emit(s, "drain")>>)
  BY StillCalls, StillEvents, StillLists DEF Loud
<1>3. \A a : AllStill(Then(a, <<Emit(s, "drain")>>) \o <<Call("maybeFinish", s)>>)
  BY <1>2, StillLists, StillJoined
<1>4. \/ Continue(<<>>) \/ Continue(<<Call("doWrite", s)>>)
      \/ \E a : Continue(Then(a, <<Emit(s, "drain")>>) \o <<Call("maybeFinish", s)>>)
  BY <1>1, Zenon DEF AfterWrite
<1> QED BY <1>2, <1>3, <1>4, StillLists DEF AfterWrite, AtRest, Loud

LEMMA FinishingRests ==
  ASSUME End \/ MaybeFinish \/ FinalDone \/ Finish
  PROVE  AtRest
<1>1. PICK s : s = top.s
  OBVIOUS
<1>2. CASE End
  <2>1. AllStill(<<Call("maybeFinish", s)>>)
    BY StillCalls, StillLists DEF Loud
  <2>2. \E a : Continue(Then(a, <<Call("maybeFinish", s)>>))
    BY <1>1, <1>2, Zenon DEF End
  <2> QED BY <1>2, <2>1, <2>2, StillLists DEF End, AtRest, Loud
<1>3. CASE MaybeFinish
  <2>1. PICK f : f = CASE s \in Transforms -> "_flush"
                       [] s \in CustomFinal -> "_final"
                       [] OTHER -> "finish"
    OBVIOUS
  <2>2. f \in {"_flush", "_final", "finish"}
    BY <2>1
  <2>3. AllStill(<<Call(f, s)>>)
    BY <2>2, StillCalls, StillLists DEF Loud
  <2>4. \E a : Continue(Then(a, <<Call(f, s)>>))
    BY <1>1, <1>3, <2>1 DEF MaybeFinish
  <2> QED BY <1>3, <2>3, <2>4, StillLists DEF MaybeFinish, AtRest, Loud
<1>4. CASE FinalDone
  <2>1. AllStill(<<IF top.err THEN CallE("destroy", s, TRUE) ELSE Call("finish", s)>>)
    BY StillCalls, StillLists DEF Loud
  <2> QED BY <1>1, <1>4, <2>1 DEF FinalDone, AtRest, Loud
<1>5. CASE Finish
  <2>1. AllStill(<<Emit(s, "finish"), Call("autoDestroy", s)>>)
    BY StillCalls, StillEvents, StillLists DEF Loud
  <2>2. \E a : Continue(Then(a, <<Emit(s, "finish"), Call("autoDestroy", s)>>))
    BY <1>1, <1>5, Zenon DEF Finish
  <2> QED BY <1>5, <2>1, <2>2, StillLists DEF Finish, AtRest, Loud
<1> QED BY <1>2, <1>3, <1>4, <1>5

LEMMA CorkingRests ==
  ASSUME Cork \/ Uncork \/ Written \/ DropWrites \/ AutoDestroy
  PROVE  AtRest
<1>1. PICK s : s = top.s
  OBVIOUS
<1>2. AllStill(<<Call("doWrite", s)>>)
  BY StillCalls, StillLists DEF Loud
<1>3. CASE Uncork
  <2>1. \E a : Continue(Then(a, <<Call("doWrite", s)>>))
    BY <1>1, <1>3, Zenon DEF Uncork
  <2> QED BY <1>2, <1>3, <2>1, StillLists DEF Uncork, AtRest, Loud
<1>4. CASE Cork
  BY <1>4, StillLists DEF Cork, AtRest, Loud
<1>5. CASE Written
  BY <1>5, StillLists DEF Written, AtRest, Loud
<1>6. CASE DropWrites
  BY <1>6, StillLists DEF DropWrites, AtRest, Loud
<1>7. CASE AutoDestroy
  BY <1>7, StillLists DEF AutoDestroy, AtRest, Loud
<1> QED BY <1>3, <1>4, <1>5, <1>6, <1>7

LEMMA FailNextRests ==
  ASSUME FailNext
  PROVE  AtRest
<1>1. AllStill(Callback(top.s, Head(top.list), TRUE) \o FailWrites(top.s, Tail(top.list)))
  BY StillCallback, StillFailures, StillJoined
<1>2. /\ Running("failWrites") /\ rs' = rs /\ listeners' = listeners
      /\ Continue(Callback(top.s, Head(top.list), TRUE) \o FailWrites(top.s, Tail(top.list)))
  BY Zenon DEF FailNext
<1>3. PICK P : Continue(P) /\ AllStill(P)
  BY <1>1, <1>2
<1> QED BY <1>2, <1>3 DEF AtRest, Loud

LEMMA WriterRests ==
  ASSUME WritableStep \/ CorkStep \/ AutoDestroy \/ FailNext \/ DropWrites
  PROVE  AtRest
BY WriteRests, DoWriteRests, OnWriteRests, AfterWriteRests, FinishingRests, CorkingRests,
   FailNextRests DEF WritableStep, CorkStep

LEMMA RestStep ==
  ASSUME Inv, RInv, AtRest, Within
  PROVE  RInv'
<1>1. PICK f : Running(f) /\ f \notin Loud \cup {"emit", "closed", "_destroy"}
  BY DEF AtRest
<1>2. PICK P : Continue(P) /\ AllStill(P)
  BY DEF AtRest
<1>3. AllAside(P) /\ got' = got /\ ReaderKept
  BY <1>1, <1>2, StillIsAside, GotSame, SameReaderKept DEF AtRest, Within, Loud
<1>4. f # "on" /\ f \notin {"push", "userData", "itData", "emit"}
  BY <1>1 DEF Loud
<1> QED BY <1>1, <1>2, <1>3, <1>4, AsideRun DEF AtRest, Within

-----------------------------------------------------------------------------
(* The functions of the readable side. *)

\* How much there is in each place.
LEMMA Sizes ==
  ASSUME ReaderTypes
  PROVE  /\ Len(got) \in Nat /\ Len(it.queue) \in Nat /\ Len(rs[r].buffer) \in Nat
         /\ Given = Len(got) + Len(it.queue) /\ Given \in Nat
         /\ Sent = IF InFlight THEN Given + 1 ELSE Given
         /\ Buffered = Sent + Len(rs[r].buffer) /\ Sent \in Nat /\ Buffered \in Nat
         /\ One(Arriving) = IF Arriving THEN 1 ELSE 0
<1>1. Len(got) \in Nat /\ Len(it.queue) \in Nat /\ Len(rs[r].buffer) \in Nat
  BY DEF ReaderTypes, Iterator
<1>2. Given = Len(got) + Len(it.queue) /\ Given \in Nat
  BY <1>1 DEF Given
<1>3. (Sent = IF InFlight THEN Given + 1 ELSE Given) /\ Sent \in Nat
  <2>1. CASE InFlight
    BY <1>2, <2>1 DEF Sent, One
  <2>2. CASE ~InFlight
    BY <1>2, <2>2 DEF Sent, One
  <2> QED BY <2>1, <2>2
<1>4. Buffered = Sent + Len(rs[r].buffer) /\ Buffered \in Nat
  BY <1>1, <1>3 DEF Buffered
<1>5. One(Arriving) = IF Arriving THEN 1 ELSE 0
  BY DEF One
<1> QED BY <1>1, <1>2, <1>3, <1>4, <1>5

\* The next chunk of the source.
LEMMA ChunkPushed ==
  ASSUME Inv, RInv, Push, Within, ~rs[r].destroyed, top.c \notin {Empty, Eof}
  PROVE  RInv'
<1>1. /\ top.s = r /\ top = stack[1] /\ 1 \in DOMAIN stack /\ stack[1].fn = "push"
      /\ IsSeq(stack) /\ stack # <<>> /\ r \in DOMAIN rs /\ Running("push")
  BY ReaderRuns DEF Push, ReaderCalls
<1>2. PICK c : c = top.c
  OBVIOUS
<1>3. PICK P : P = <<>>
  OBVIOUS
<1>4. /\ rs' = [rs EXCEPT ![r].buffer = Append(@, c),
                          ![r].reading = FALSE,
                          ![r].flowTick = @ \/ rs[r].flowing,
                          ![r].readableTick =
                            @ \/ (~rs[r].flowing /\ ~rs[r].readableTick /\ ~rs[r].ended)]
      /\ Continue(P) /\ listeners' = listeners
  BY <1>1, <1>2, <1>3 DEF Push
<1>5. ReaderTypes /\ InLine /\ Arriving /\ ~InFlight
  BY <1>1 DEF RInv, Arriving, InFlight, Brings, Delivers
<1>6. /\ ReaderParts \subseteq DOMAIN rs'[r]
      /\ rs'[r].buffer = Append(rs[r].buffer, c) /\ rs'[r].ended = rs[r].ended
      /\ rs'[r].destroyed = rs[r].destroyed /\ rs'[r].endEmitted = rs[r].endEmitted
      /\ rs'[r].flowing = rs[r].flowing
  BY <1>1, <1>4, <1>5 DEF ReaderTypes, ReaderParts
<1>7. Onward(P, 1) /\ Follow(P) /\ AllAside(P)
  BY <1>1, <1>3, <1>4, RunsOnward, StillLists, StillIsAside, AsideFollows, Short
<1>8. ~InFlight' /\ ~Arriving'
  BY <1>3, <1>7, TopNext DEF RInv
<1>9. got' = got /\ UNCHANGED <<use, calls, io, produced, it>>
  BY <1>1, GotSame DEF Within
<1>10. /\ rs[r].buffer \in Seq(Nat) /\ Counts(rs[r].buffer, Given)
       /\ c = Given + Len(rs[r].buffer) + 1 /\ produced = c /\ Given \in Nat
  BY <1>1, <1>2, <1>5, Sizes DEF InLine, ReaderTypes
<1>11. /\ rs'[r].buffer \in Seq(Nat) /\ Len(rs'[r].buffer) = Len(rs[r].buffer) + 1
       /\ Counts(rs'[r].buffer, Given)
  BY <1>6, <1>10, CountsOn
<1>12. ReaderTypes'
  BY <1>5, <1>6, <1>9, <1>11 DEF ReaderTypes
<1>13. Given' = Given /\ Sent' = Given /\ Buffered' = Given + Len(rs'[r].buffer)
       /\ One(Arriving)' = 0
  BY <1>8, <1>9, <1>10, <1>11 DEF Given, Sent, Buffered, One
<1>14. InLine'
  <2>1. Counts(got, 0)' /\ Counts(it.queue, Len(got))'
    BY <1>5, <1>9 DEF InLine, Counts
  <2>2. Counts(rs[r].buffer, Sent)'
    BY <1>11, <1>13 DEF Counts
  <2>3. (produced = Buffered + One(Arriving))'
    BY <1>9, <1>10, <1>11, <1>13
  <2> QED BY <1>8, <2>1, <2>2, <2>3 DEF InLine
<1>15. Ending'
  BY <1>6, <1>9, <1>13 DEF RInv, Ending
<1>16. Asking'
  BY <1>1, <1>6, <1>9 DEF RInv, Asking, Fetching, AtTop, Sharp, Promised
<1>17. Hearing' /\ Fetching'
  BY <1>4, <1>6, <1>7, <1>9, HearingKept, FetchingKept DEF RInv
<1> QED BY <1>12, <1>14, <1>15, <1>16, <1>17 DEF RInv

LEMMA PushMoves ==
  ASSUME Inv, RInv, Push, Within
  PROVE  RInv'
<1>1. /\ top.s = r /\ top = stack[1] /\ 1 \in DOMAIN stack /\ stack[1].fn = "push"
      /\ IsSeq(stack) /\ stack # <<>> /\ r \in DOMAIN rs /\ Running("push")
  BY ReaderRuns DEF Push, ReaderCalls
<1>2. /\ ~Promised /\ ~rs[r].ended /\ ~rs[r].destroyed
      /\ top.c = Eof => produced = Total
  BY <1>1 DEF RInv, Fetching, AtTop, Sharp
<1>3. /\ got' = got /\ UNCHANGED <<use, calls, io, produced, it>>
      /\ calls' \in 0..MaxCalls
  BY <1>1, GotSame DEF Within, RInv, ReaderTypes
<1>4. ASSUME NEW P, IsSeq(P), Continue(P), Follow(P), NoCarrier(P), listeners' = listeners,
             SameReader, ~Carrying(stack[1])
      PROVE  RInv'
  <2>1. Onward(P, 1)
    BY <1>1, <1>4, RunsOnward
  <2>2. SameDebt
    BY <1>2, <1>3 DEF RInv, Asking, SameDebt, OneRead, Promised
  <2> QED BY <1>3, <1>4, <2>1, <2>2, StillStep
<1>5. CASE top.c = Eof
  <2>1. PICK P : P = EndIfDrained(r)
    OBVIOUS
  <2>2. /\ rs' = [rs EXCEPT ![r].ended = TRUE, ![r].reading = FALSE]
        /\ Continue(P) /\ listeners' = listeners
    BY <1>1, <1>2, <1>5, <2>1 DEF Push, Eof, Empty
  <2>3. /\ ReaderParts \subseteq DOMAIN rs'[r] /\ rs'[r].buffer = rs[r].buffer
        /\ rs'[r].ended = TRUE /\ rs'[r].destroyed = rs[r].destroyed
        /\ rs'[r].endEmitted = rs[r].endEmitted /\ rs'[r].flowing = rs[r].flowing
    BY <1>1, <2>2 DEF RInv, ReaderTypes, ReaderParts
  <2>4. SameReader
    BY <1>2, <1>5, <2>3 DEF SameReader
  <2>5. /\ IsSeq(P) /\ Len(P) \in Nat
        /\ \A k \in 1..Len(P) : k = 1 /\ P[k] = Call("emitEnd", r) /\ rs[r].buffer = <<>>
    <3>1. CASE rs[r].buffer = <<>>
      BY <2>1, <3>1, Short DEF EndIfDrained, Then
    <3>2. CASE rs[r].buffer # <<>>
      BY <2>1, <3>2, Short DEF EndIfDrained, Then
    <3> QED BY <3>1, <3>2
  <2>6. Follow(P) /\ NoCarrier(P)
    BY <2>3, <2>5 DEF Follow, NoCarrier, Carrying, Delivers, Brings, Fetches, AtTop, Joins, Call
  <2> QED BY <1>1, <1>4, <1>5, <2>2, <2>4, <2>5, <2>6 DEF Carrying, Delivers, Brings
<1>6. CASE top.c = Empty
  <2>1. PICK P : P = <<>>
    OBVIOUS
  <2>2. top.c # Eof
    BY <1>6 DEF Empty, Eof
  <2>3. /\ rs' = [rs EXCEPT ![r].reading = FALSE]
        /\ Continue(P) /\ listeners' = listeners
    BY <1>1, <1>2, <1>6, <2>1, <2>2 DEF Push
  <2>4. /\ ReaderParts \subseteq DOMAIN rs'[r] /\ rs'[r].buffer = rs[r].buffer
        /\ rs'[r].ended = rs[r].ended /\ rs'[r].destroyed = rs[r].destroyed
        /\ rs'[r].endEmitted = rs[r].endEmitted /\ rs'[r].flowing = rs[r].flowing
    BY <1>1, <2>3 DEF RInv, ReaderTypes, ReaderParts
  <2>5. SameReader
    BY <1>2, <2>4 DEF SameReader
  <2>6. IsSeq(P) /\ Follow(P) /\ NoCarrier(P)
    BY <2>1, Short, StillLists, StillIsAside, AsideFollows
  <2> QED BY <1>1, <1>4, <1>6, <2>3, <2>5, <2>6 DEF Carrying, Delivers, Brings
<1> QED BY <1>2, <1>5, <1>6, ChunkPushed

LEMMA MaybeReadMoves ==
  ASSUME Inv, RInv, MaybeRead, Within
  PROVE  RInv'
<1>1. /\ top.s = r /\ top = stack[1] /\ 1 \in DOMAIN stack /\ stack[1].fn = "maybeRead"
      /\ IsSeq(stack) /\ stack # <<>> /\ r \in DOMAIN rs /\ Running("maybeRead")
  BY ReaderRuns DEF MaybeRead, ReaderCalls
<1>2. PICK ask : ask = (/\ ~rs[r].reading /\ ~rs[r].ended /\ ~rs[r].destroyed
                        /\ Len(rs[r].buffer) < Hwm[r])
  OBVIOUS
<1>3. PICK P : P = Then(ask, <<Call("_read", r)>>)
  OBVIOUS
<1>4. /\ rs' = [rs EXCEPT ![r].reading = @ \/ ask]
      /\ Continue(P) /\ listeners' = listeners
  BY <1>1, <1>2, <1>3 DEF MaybeRead
<1>5. /\ got' = got /\ UNCHANGED <<use, calls, io, produced, it>>
      /\ calls' \in 0..MaxCalls
  BY <1>1, GotSame DEF Within, RInv, ReaderTypes
<1>6. /\ ReaderParts \subseteq DOMAIN rs'[r] /\ rs'[r].buffer = rs[r].buffer
      /\ rs'[r].ended = rs[r].ended /\ rs'[r].destroyed = rs[r].destroyed
      /\ rs'[r].endEmitted = rs[r].endEmitted /\ rs'[r].flowing = rs[r].flowing
      /\ rs'[r].reading <=> rs[r].reading \/ ask
  BY <1>1, <1>4 DEF RInv, ReaderTypes, ReaderParts
<1>7. SameReader /\ SameDebt
  BY <1>5, <1>6, KeptReader DEF ReaderKept, RInv, Ending
<1>8. /\ IsSeq(P) /\ Len(P) \in Nat
      /\ \A k \in 1..Len(P) : k = 1 /\ P[k] = Call("_read", r) /\ ask
  BY <1>3, Short DEF Then
<1>9. Promised' => ~ask
  BY <1>2, <1>5 DEF RInv, Asking, Promised
<1>10. Follow(P) /\ NoCarrier(P)
  BY <1>2, <1>6, <1>8, <1>9
  DEF Follow, NoCarrier, Carrying, Delivers, Brings, Fetches, AtTop, Joins, Call
<1> QED BY <1>1, <1>4, <1>5, <1>7, <1>8, <1>10, RunsOnward, StillStep
  DEF Carrying, Delivers, Brings

LEMMA TickingMoves ==
  ASSUME Inv, RInv, FlowTick \/ FlowMore \/ ReadableTick, Within
  PROVE  RInv'
<1>1. CASE FlowTick
  <2>1. /\ top.s = r /\ top = stack[1] /\ 1 \in DOMAIN stack /\ stack[1].fn = "flowTick"
        /\ IsSeq(stack) /\ stack # <<>> /\ r \in DOMAIN rs /\ Running("flowTick")
    BY <1>1, ReaderRuns DEF FlowTick, ReaderCalls
  <2>2. PICK P : P = <<Call("flow", r)>>
    OBVIOUS
  <2>3. rs' = [rs EXCEPT ![r].flowTick = FALSE] /\ Continue(P) /\ listeners' = listeners
    BY <1>1, <2>1, <2>2 DEF FlowTick
  <2>4. ReaderKept
    BY <2>1, <2>3 DEF RInv, ReaderTypes, ReaderParts, Ending, ReaderKept
  <2>5. AllAside(P)
    BY <2>2, StillCalls, StillLists, StillIsAside DEF Loud
  <2> QED BY <2>1, <2>3, <2>4, <2>5, GotSame, AsideRun DEF Within
<1>2. CASE FlowMore
  <2>1. /\ top.s = r /\ top = stack[1] /\ 1 \in DOMAIN stack /\ stack[1].fn = "flowMore"
        /\ IsSeq(stack) /\ stack # <<>> /\ r \in DOMAIN rs /\ Running("flowMore")
    BY <1>2, ReaderRuns DEF FlowMore, ReaderCalls
  <2>2. PICK P : P = Then(rs[r].buffer # <<>> \/ rs[r].ended, <<Call("flow", r)>>)
    OBVIOUS
  <2>3. rs' = rs /\ Continue(P) /\ listeners' = listeners
    BY <1>2, <2>1, <2>2 DEF FlowMore
  <2>4. ReaderKept
    BY <2>3, SameReaderKept
  <2>5. AllAside(P)
    BY <2>2, StillCalls, StillLists, StillIsAside DEF Loud
  <2> QED BY <2>1, <2>3, <2>4, <2>5, GotSame, AsideRun DEF Within
<1>3. CASE ReadableTick
  <2>1. /\ top.s = r /\ top = stack[1] /\ 1 \in DOMAIN stack /\ stack[1].fn = "readableTick"
        /\ IsSeq(stack) /\ stack # <<>> /\ r \in DOMAIN rs /\ Running("readableTick")
    BY <1>3, ReaderRuns DEF ReadableTick, ReaderCalls
  <2>2. PICK P : P = Then(~rs[r].destroyed /\ ~rs[r].endEmitted /\ rs[r].buffer # <<>>,
                          <<Emit(r, "readable")>>)
    OBVIOUS
  <2>3. rs' = [rs EXCEPT ![r].readableTick = FALSE] /\ Continue(P) /\ listeners' = listeners
    BY <1>3, <2>1, <2>2 DEF ReadableTick
  <2>4. ReaderKept
    BY <2>1, <2>3 DEF RInv, ReaderTypes, ReaderParts, Ending, ReaderKept
  <2>5. AllAside(P)
    BY <2>2, StillEvents, StillLists, StillIsAside
  <2> QED BY <2>1, <2>3, <2>4, <2>5, GotSame, AsideRun DEF Within
<1> QED BY <1>1, <1>2, <1>3

\* A chunk that leaves the buffer for the listener.
LEMMA ChunkGiven ==
  ASSUME Inv, RInv, Flow, Within, rs[r].flowing, ~rs[r].destroyed, rs[r].buffer # <<>>
  PROVE  RInv'
<1>1. /\ top.s = r /\ top = stack[1] /\ 1 \in DOMAIN stack /\ stack[1].fn = "flow"
      /\ IsSeq(stack) /\ stack # <<>> /\ r \in DOMAIN rs /\ Running("flow")
  BY ReaderRuns DEF Flow, ReaderCalls
<1>2. PICK h : h = Head(rs[r].buffer)
  OBVIOUS
<1>3. PICK e : e = [Emit(r, "data") EXCEPT !.c = h]
  OBVIOUS
<1>4. PICK P : P = <<e, Call("flow", r)>>
  OBVIOUS
<1>5. /\ rs' = [rs EXCEPT ![r].buffer = Tail(@)] /\ Continue(P) /\ listeners' = listeners
  BY <1>1, <1>2, <1>3, <1>4, Zenon DEF Flow
<1>6. ReaderTypes /\ InLine /\ ~Arriving /\ ~InFlight /\ DataListeners # <<>>
  BY <1>1 DEF RInv, Hearing, Arriving, InFlight, Brings, Delivers
<1>7. /\ ReaderParts \subseteq DOMAIN rs'[r]
      /\ rs'[r].buffer = Tail(rs[r].buffer) /\ rs'[r].ended = rs[r].ended
      /\ rs'[r].destroyed = rs[r].destroyed /\ rs'[r].endEmitted = rs[r].endEmitted
      /\ rs'[r].flowing = rs[r].flowing /\ rs'[r].reading = rs[r].reading
  BY <1>1, <1>5, <1>6 DEF ReaderTypes, ReaderParts
<1>8. got' = got /\ UNCHANGED <<use, calls, io, produced, it>>
  BY <1>1, GotSame DEF Within
<1>9. /\ rs[r].buffer \in Seq(Nat) /\ Counts(rs[r].buffer, Given) /\ Given \in Nat
      /\ produced = Given + Len(rs[r].buffer)
  BY <1>6, Sizes DEF InLine, ReaderTypes
<1>10. /\ rs'[r].buffer \in Seq(Nat) /\ Len(rs'[r].buffer) = Len(rs[r].buffer) - 1
       /\ Counts(rs'[r].buffer, Given + 1) /\ h = Given + 1 /\ Len(rs[r].buffer) \in Nat \ {0}
  <2>1. Len(rs[r].buffer) \in Nat /\ Len(rs[r].buffer) > 0
    BY <1>9, Counted
  <2>2. Head(rs[r].buffer) = Given + 1 /\ rs[r].buffer # <<>>
    BY <1>9, <2>1, Counted
  <2>3. /\ rs'[r].buffer \in Seq(Nat) /\ Len(rs'[r].buffer) = Len(rs[r].buffer) - 1
        /\ Counts(rs'[r].buffer, Given + 1)
    BY <1>7, <1>9, <2>2, CountsOff
  <2> QED BY <1>2, <2>1, <2>2, <2>3
<1>11. /\ e.fn = "emit" /\ e.ev = "data" /\ e.s = r /\ e.c = Given + 1 /\ "c" \in DOMAIN e
  BY <1>3, <1>10 DEF Emit
<1>12. /\ IsSeq(P) /\ Len(P) = 2 /\ 1 \in 1..Len(P) /\ P[1] = e
       /\ \A k \in 1..Len(P) : (P[k] = e /\ k = 1) \/ P[k] = Call("flow", r)
  BY <1>4, Short
<1>13. Aside(Call("flow", r))
  BY StillCalls DEF Loud, Still
<1>14. Follow(P)
  <2>1. DataListeners' # <<>>
    BY <1>5, <1>6 DEF DataListeners
  <2>2. Fetches(e)' /\ AtTop(e)' /\ ~Joins(e) /\ e.fn # "resume"
    BY <1>9, <1>11, <2>1 DEF Fetches, AtTop, Joins
  <2> QED BY <1>12, <1>13, <2>2, AsideIsQuiet DEF Follow
<1>15. Onward(P, 1)
  BY <1>1, <1>5, <1>12, RunsOnward
<1>16. InFlight' /\ ~Arriving' /\ stack'[1] = e
  BY <1>11, <1>12, <1>15, TopNext DEF RInv, Delivers, Brings
<1>17. ReaderTypes'
  BY <1>6, <1>7, <1>8, <1>10 DEF ReaderTypes
<1>18. Given' = Given /\ Sent' = Given + 1 /\ Buffered' = Given + 1 + Len(rs'[r].buffer)
       /\ One(Arriving)' = 0
  BY <1>8, <1>16 DEF Given, Sent, Buffered, One
<1>19. InLine'
  <2>1. Counts(got, 0)' /\ Counts(it.queue, Len(got))'
    BY <1>6, <1>8 DEF InLine, Counts
  <2>2. Counts(rs[r].buffer, Sent)'
    BY <1>10, <1>18 DEF Counts
  <2>3. (produced = Buffered + One(Arriving))'
    <3>1. PICK n : n = Len(rs[r].buffer)
      OBVIOUS
    <3>2. n \in Nat /\ Len(rs'[r].buffer) = n - 1 /\ produced' = Given + n
      BY <1>8, <1>9, <1>10, <3>1
    <3>3. Given + n = Given + 1 + (n - 1) + 0
      BY <1>9, <3>2
    <3> QED BY <1>18, <3>2, <3>3
  <2>4. stack'[1].c = Given' + 1
    BY <1>11, <1>16, <1>18
  <2> QED BY <1>16, <2>1, <2>2, <2>3, <2>4 DEF InLine
<1>20. Ending'
  BY <1>7, <1>8, <1>18 DEF RInv, Ending
<1>21. Asking'
  BY <1>7, <1>8 DEF RInv, Asking, Promised
<1>22. Hearing' /\ Fetching'
  BY <1>5, <1>7, <1>8, <1>14, <1>15, HearingKept, FetchingKept DEF RInv
<1> QED BY <1>17, <1>19, <1>20, <1>21, <1>22 DEF RInv

LEMMA FlowMoves ==
  ASSUME Inv, RInv, Flow, Within
  PROVE  RInv'
<1>1. /\ top.s = r /\ top = stack[1] /\ 1 \in DOMAIN stack /\ stack[1].fn = "flow"
      /\ IsSeq(stack) /\ stack # <<>> /\ r \in DOMAIN rs /\ Running("flow")
  BY ReaderRuns DEF Flow, ReaderCalls
<1>2. CASE rs[r].flowing /\ ~rs[r].destroyed /\ rs[r].buffer # <<>>
  BY <1>2, ChunkGiven
<1>3. CASE ~(rs[r].flowing /\ ~rs[r].destroyed /\ rs[r].buffer # <<>>)
  <2>1. rs' = rs /\ listeners' = listeners
    BY <1>1, <1>3, Zenon DEF Flow
  <2>2. got' = got /\ UNCHANGED <<use, calls, io, produced, it>> /\ calls' \in 0..MaxCalls
    BY <1>1, GotSame DEF Within, RInv, ReaderTypes
  <2>3. ReaderKept /\ SameReader /\ SameDebt
    BY <2>1, <2>2, SameReaderKept, KeptReader
  <2>4. CASE \E P : Continue(P) /\ AllAside(P)
    BY <1>1, <2>1, <2>2, <2>3, <2>4, AsideRun
  <2>5. CASE /\ rs[r].buffer = <<>> /\ rs[r].ended
             /\ Continue(<<Call("emitEnd", r)>>)
    <3>1. PICK P : P = <<Call("emitEnd", r)>>
      OBVIOUS
    <3>2. IsSeq(P) /\ Len(P) = 1 /\ \A k \in 1..Len(P) : k = 1 /\ P[k] = Call("emitEnd", r)
      BY <3>1, Short
    <3>3. Follow(P) /\ NoCarrier(P)
      BY <2>1, <2>5, <3>2
      DEF Follow, NoCarrier, Carrying, Delivers, Brings, Fetches, AtTop, Joins, Call
    <3> QED BY <1>1, <2>1, <2>2, <2>3, <2>5, <3>1, <3>2, <3>3, RunsOnward, StillStep
      DEF Carrying, Delivers, Brings
  <2>6. \/ Continue(<<>>) \/ Continue(<<Call("maybeRead", r), Call("flowMore", r)>>)
        \/ rs[r].buffer = <<>> /\ rs[r].ended /\ Continue(<<Call("emitEnd", r)>>)
    BY <1>1, <1>3, Zenon DEF Flow
  <2>7. AllAside(<<>>) /\ AllAside(<<Call("maybeRead", r), Call("flowMore", r)>>)
    BY StillCalls, StillLists, StillIsAside DEF Loud
  <2> QED BY <2>4, <2>5, <2>6, <2>7
<1> QED BY <1>2, <1>3

LEMMA EmitEndMoves ==
  ASSUME Inv, RInv, EmitEnd, Within
  PROVE  RInv'
<1>1. /\ top.s = r /\ top = stack[1] /\ 1 \in DOMAIN stack /\ stack[1].fn = "emitEnd"
      /\ IsSeq(stack) /\ stack # <<>> /\ r \in DOMAIN rs /\ Running("emitEnd")
  BY ReaderRuns DEF EmitEnd, ReaderCalls
<1>2. PICK due : due = (~rs[r].endEmitted /\ ~rs[r].destroyed)
  OBVIOUS
<1>3. PICK P : P = Then(due, <<Emit(r, "end"), Call("autoDestroy", r)>>)
  OBVIOUS
<1>4. /\ rs' = [rs EXCEPT ![r].endEmitted = @ \/ due] /\ Continue(P)
      /\ listeners' = listeners
  BY <1>1, <1>2, <1>3 DEF EmitEnd
<1>5. got' = got /\ UNCHANGED <<use, calls, io, produced, it>> /\ calls' \in 0..MaxCalls
  BY <1>1, GotSame DEF Within, RInv, ReaderTypes
<1>6. /\ ReaderParts \subseteq DOMAIN rs'[r] /\ rs'[r].buffer = rs[r].buffer
      /\ rs'[r].ended = rs[r].ended /\ rs'[r].destroyed = rs[r].destroyed
      /\ (rs'[r].endEmitted => rs[r].endEmitted \/ due) /\ rs'[r].flowing = rs[r].flowing
      /\ rs'[r].reading = rs[r].reading
  BY <1>1, <1>4 DEF RInv, ReaderTypes, ReaderParts
<1>7. due => Given = Total
  <2>1. ASSUME due PROVE rs[r].ended /\ rs[r].buffer = <<>> /\ produced = Total
    BY <1>1, <1>2, <2>1 DEF RInv, Fetching, Sharp, AtTop, Ending
  <2>2. ~InFlight /\ ~Arriving
    BY <1>1 DEF InFlight, Arriving, Delivers, Brings
  <2> QED BY <2>1, <2>2, Sizes DEF RInv, InLine
<1>8. SameReader /\ SameDebt
  BY <1>5, <1>6, <1>7
  DEF SameReader, SameDebt, OneRead, Promised, RInv, Ending, Asking
<1>9. IsSeq(P) /\ Follow(P) /\ NoCarrier(P)
  <2>1. AllStill(<<Emit(r, "end"), Call("autoDestroy", r)>>)
    BY StillCalls, StillEvents, StillLists DEF Loud
  <2> QED BY <1>3, <2>1, StillLists, StillIsAside, AsideFollows DEF AllAside
<1> QED BY <1>1, <1>4, <1>5, <1>8, <1>9, RunsOnward, StillStep
  DEF Carrying, Delivers, Brings

\* A chunk that leaves the buffer for a call of read().
LEMMA ChunkRead ==
  ASSUME Inv, RInv, Read, Within, rs[r].buffer # <<>>
  PROVE  RInv'
<1>1. /\ top.s = r /\ top = stack[1] /\ 1 \in DOMAIN stack /\ stack[1].fn = "read"
      /\ IsSeq(stack) /\ stack # <<>> /\ r \in DOMAIN rs /\ Running("read")
  BY ReaderRuns DEF Read, ReaderCalls
<1>2. PICK h : h = Head(rs[r].buffer)
  OBVIOUS
<1>3. PICK P : P = Then(Len(rs[r].buffer) = 1 /\ ~rs[r].ended, <<Call("maybeRead", r)>>)
                     \o <<Call("afterRead", r)>>
  OBVIOUS
<1>4. /\ rs' = [rs EXCEPT ![r].buffer = Tail(@)] /\ Continue(P) /\ listeners' = listeners
  BY <1>1, <1>3, Zenon DEF Read
<1>5. ReaderTypes /\ InLine /\ ~Arriving /\ ~InFlight /\ use = "read"
  BY <1>1 DEF RInv, Fetching, Fetches, Arriving, InFlight, Brings, Delivers
<1>6. /\ ReaderParts \subseteq DOMAIN rs'[r]
      /\ rs'[r].buffer = Tail(rs[r].buffer) /\ rs'[r].ended = rs[r].ended
      /\ rs'[r].destroyed = rs[r].destroyed /\ rs'[r].endEmitted = rs[r].endEmitted
      /\ rs'[r].flowing = rs[r].flowing /\ rs'[r].reading = rs[r].reading
  BY <1>1, <1>4, <1>5 DEF ReaderTypes, ReaderParts
<1>7. got' = Append(got, h) /\ UNCHANGED <<use, calls, io, produced, it>>
  BY <1>1, <1>2 DEF Within, Observe, Running
<1>8. it.queue = <<>> /\ Given = Len(got) /\ Given \in Nat
  <2>1. it = NoIterator
    BY <1>5 DEF ReaderTypes
  <2>2. it.queue = <<>>
    BY <2>1 DEF NoIterator
  <2> QED BY <1>5, <2>2, Sizes
<1>9. /\ rs[r].buffer \in Seq(Nat) /\ Counts(rs[r].buffer, Given) /\ Counts(got, 0)
      /\ produced = Given + Len(rs[r].buffer) /\ got \in Seq(Nat) /\ produced \in 0..Total
  BY <1>5, Sizes DEF InLine, ReaderTypes
<1>10. /\ rs'[r].buffer \in Seq(Nat) /\ Len(rs'[r].buffer) = Len(rs[r].buffer) - 1
       /\ Counts(rs'[r].buffer, Given + 1) /\ h = Given + 1 /\ Len(rs[r].buffer) \in Nat \ {0}
  <2>1. Len(rs[r].buffer) \in Nat /\ Len(rs[r].buffer) > 0
    BY <1>9, Counted
  <2>2. Head(rs[r].buffer) = Given + 1 /\ rs[r].buffer # <<>>
    BY <1>8, <1>9, <2>1, Counted
  <2>3. /\ rs'[r].buffer \in Seq(Nat) /\ Len(rs'[r].buffer) = Len(rs[r].buffer) - 1
        /\ Counts(rs'[r].buffer, Given + 1)
    BY <1>6, <1>8, <1>9, <2>2, CountsOff
  <2> QED BY <1>2, <2>1, <2>2, <2>3
<1>11. got' \in Seq(Nat) /\ Len(got') = Given + 1 /\ Counts(got', 0)
  <2>1. h = 0 + Len(got) + 1 /\ 0 \in Nat
    BY <1>8, <1>10
  <2> QED BY <1>7, <1>8, <1>9, <2>1, CountsOn
<1>12. IsSeq(P) /\ Follow(P) /\ NoCarrier(P)
  <2>1. AllStill(<<Call("maybeRead", r)>>) /\ AllStill(<<Call("afterRead", r)>>)
    BY StillCalls, StillLists DEF Loud
  <2> QED BY <1>3, <2>1, StillLists, StillJoined, StillIsAside, AsideFollows DEF AllAside
<1>13. Onward(P, 1)
  BY <1>1, <1>4, <1>12, RunsOnward
<1>14. ~InFlight' /\ ~Arriving'
  BY <1>12, <1>13, TopNext DEF RInv, NoCarrier, Carrying
<1>15. ReaderTypes'
  BY <1>5, <1>6, <1>7, <1>10, <1>11 DEF ReaderTypes
<1>16. /\ Given' = Given + 1 /\ Sent' = Given + 1 /\ Buffered' = Given + Len(rs[r].buffer)
       /\ One(Arriving)' = 0
  <2>1. Len(it.queue)' = 0
    BY <1>7, <1>8
  <2>2. Given' = Given + 1
    BY <1>8, <1>11, <2>1 DEF Given
  <2>3. Sent' = Given + 1 /\ One(Arriving)' = 0
    BY <1>8, <1>14, <2>2 DEF Sent, One
  <2>4. Buffered' = Given + Len(rs[r].buffer)
    <3>1. PICK m : m = Len(rs[r].buffer)
      OBVIOUS
    <3>2. m \in Nat /\ Len(rs'[r].buffer) = m - 1
      BY <1>10, <3>1
    <3>3. Given + 1 + (m - 1) = Given + m
      BY <1>8, <3>2
    <3> QED BY <2>3, <3>1, <3>2, <3>3 DEF Buffered
  <2> QED BY <2>2, <2>3, <2>4
<1>17. InLine'
  <2>1. Counts(got, 0)' /\ Counts(it.queue, Len(got))'
    BY <1>7, <1>8, <1>11 DEF Counts
  <2>2. Counts(rs[r].buffer, Sent)'
    BY <1>10, <1>16 DEF Counts
  <2>3. (produced = Buffered + One(Arriving))'
    BY <1>7, <1>8, <1>9, <1>10, <1>16
  <2> QED BY <1>14, <2>1, <2>2, <2>3 DEF InLine
<1>18. Ending'
  <2>1. ~rs[r].endEmitted
    BY <1>8, <1>9, <1>10, UserAssumption DEF RInv, Ending
  <2> QED BY <1>6, <1>7, <2>1 DEF RInv, Ending
<1>19. Asking'
  BY <1>6, <1>7 DEF RInv, Asking, Promised
<1>20. Hearing' /\ Fetching'
  BY <1>4, <1>6, <1>7, <1>12, <1>13, HearingKept, FetchingKept DEF RInv
<1> QED BY <1>15, <1>17, <1>18, <1>19, <1>20 DEF RInv

\* A step of the readable side that ends it, perhaps, and changes nothing else.
LEMMA EndingRun ==
  ASSUME Inv, RInv, NEW f \in {"read", "afterRead"}, Running(f), Observe, got' = got,
         rs' = rs, listeners' = listeners, UNCHANGED <<use, calls, io, produced, it>>,
         NEW P, IsSeq(P), Continue(P),
         \A k \in 1..Len(P) :
           \/ Aside(P[k])
           \/ k = 1 /\ P[k] = Call("emitEnd", r) /\ rs[r].ended /\ rs[r].buffer = <<>>
  PROVE  RInv'
<1>1. top = stack[1] /\ stack[1].fn = f
  BY ReaderRuns DEF ReaderCalls
<1>2. SameReader /\ SameDebt /\ calls' \in 0..MaxCalls
  BY SameReaderKept, KeptReader DEF RInv, ReaderTypes
<1>3. Follow(P) /\ NoCarrier(P)
  <2>1. ASSUME NEW k \in 1..Len(P), k = 1, P[k] = Call("emitEnd", r), rs[r].ended,
               rs[r].buffer = <<>>
        PROVE  Fetches(P[k])' /\ AtTop(P[k])' /\ ~Joins(P[k]) /\ P[k].fn # "resume" /\ ~Carrying(P[k])
    BY <2>1 DEF Carrying, Delivers, Brings, Fetches, AtTop, Joins, Call
  <2> QED BY <2>1, AsideIsQuiet DEF Follow, NoCarrier
<1> QED BY <1>1, <1>2, <1>3, RunsOnward, StillStep DEF Carrying, Delivers, Brings

LEMMA ReadMoves ==
  ASSUME Inv, RInv, Read \/ AfterRead, Within
  PROVE  RInv'
<1>1. CASE Read /\ rs[r].buffer # <<>>
  BY <1>1, ChunkRead
<1>2. CASE Read /\ rs[r].buffer = <<>>
  <2>1. top.s = r /\ Running("read")
    BY <1>2, ReaderRuns DEF Read, ReaderCalls
  <2>2. got' = got /\ Observe /\ UNCHANGED <<use, calls, io, produced, it>>
    BY <1>2, <2>1 DEF Within, Observe, Running
  <2>3. PICK P : P = <<Call(IF rs[r].ended THEN "emitEnd" ELSE "maybeRead", r)>>
    OBVIOUS
  <2>4. Continue(P) /\ rs' = rs /\ listeners' = listeners
    BY <1>2, <2>1, <2>3, Zenon DEF Read
  <2>5. IsSeq(P) /\ Len(P) = 1 /\ \A k \in 1..Len(P) : k = 1 /\ P[k] = P[1]
    BY <2>3, Short
  <2>6. Aside(Call("maybeRead", r))
    BY StillCalls DEF Loud, Still
  <2>7. P[1] = Call("maybeRead", r) \/ (P[1] = Call("emitEnd", r) /\ rs[r].ended)
    BY <2>3
  <2> QED BY <1>2, <2>1, <2>2, <2>4, <2>5, <2>6, <2>7, EndingRun
<1>3. CASE AfterRead
  <2>1. top.s = r /\ Running("afterRead")
    BY <1>3, ReaderRuns DEF AfterRead, ReaderCalls
  <2>2. got' = got /\ Observe /\ UNCHANGED <<use, calls, io, produced, it>>
    BY <2>1, GotSame DEF Within
  <2>3. PICK P : P = Then(rs[r].ended /\ rs[r].buffer = <<>>, <<Call("emitEnd", r)>>)
    OBVIOUS
  <2>4. Continue(P) /\ rs' = rs /\ listeners' = listeners
    BY <1>3, <2>1, <2>3 DEF AfterRead
  <2>5. /\ IsSeq(P) /\ Len(P) \in Nat
        /\ \A k \in 1..Len(P) :
             k = 1 /\ P[k] = Call("emitEnd", r) /\ rs[r].ended /\ rs[r].buffer = <<>>
    BY <2>3, Short DEF Then
  <2> QED BY <2>1, <2>2, <2>4, <2>5, EndingRun
<1> QED BY <1>1, <1>2, <1>3

\* A chunk that comes back.
LEMMA UnshiftMoves ==
  ASSUME Inv, RInv, Unshift, Within
  PROVE  RInv'
<1>1. /\ top.s = r /\ top = stack[1] /\ 1 \in DOMAIN stack /\ stack[1].fn = "unshift"
      /\ IsSeq(stack) /\ stack # <<>> /\ r \in DOMAIN rs /\ Running("unshift")
  BY ReaderRuns DEF Unshift, ReaderCalls
<1>2. PICK c : c = top.c
  OBVIOUS
<1>3. PICK P : P = <<>>
  OBVIOUS
<1>4. /\ rs' = [rs EXCEPT ![r].buffer = <<c>> \o @] /\ Continue(P) /\ listeners' = listeners
  BY <1>1, <1>2, <1>3 DEF Unshift
<1>5. /\ ReaderTypes /\ InLine /\ ~Arriving /\ ~InFlight /\ use = "read"
      /\ got # <<>> /\ c = Len(got) /\ ~rs[r].endEmitted
  BY <1>1, <1>2 DEF RInv, Fetching, Fetches, Sharp, AtTop, Arriving, InFlight, Brings, Delivers
<1>6. /\ ReaderParts \subseteq DOMAIN rs'[r]
      /\ rs'[r].buffer = <<c>> \o rs[r].buffer /\ rs'[r].ended = rs[r].ended
      /\ rs'[r].destroyed = rs[r].destroyed /\ rs'[r].endEmitted = rs[r].endEmitted
      /\ rs'[r].flowing = rs[r].flowing /\ rs'[r].reading = rs[r].reading
  BY <1>1, <1>4, <1>5 DEF ReaderTypes, ReaderParts
<1>7. got' = Front(got) /\ UNCHANGED <<use, calls, io, produced, it>>
  BY <1>1 DEF Within, Observe, Running
<1>8. it.queue = <<>> /\ Given = Len(got) /\ Given \in Nat
  <2>1. it = NoIterator
    BY <1>5 DEF ReaderTypes
  <2>2. it.queue = <<>>
    BY <2>1 DEF NoIterator
  <2> QED BY <1>5, <2>2, Sizes
<1>9. /\ rs[r].buffer \in Seq(Nat) /\ Counts(rs[r].buffer, Given) /\ Counts(got, 0)
      /\ produced = Given + Len(rs[r].buffer) /\ got \in Seq(Nat)
  BY <1>5, Sizes DEF InLine, ReaderTypes
<1>10. PICK n : n = Given - 1
  OBVIOUS
<1>11. got' \in Seq(Nat) /\ Len(got') = n /\ Counts(got', 0) /\ n \in Nat /\ n + 1 = Given
  <2>1. Len(got) > 0
    BY <1>5, <1>9, Counted
  <2>2. got' \in Seq(Nat) /\ Len(got') = Len(got) - 1 /\ Counts(got', 0)
    BY <1>5, <1>7, <1>9, CountsBut
  <2> QED BY <1>8, <1>10, <2>1, <2>2
<1>12. /\ rs'[r].buffer \in Seq(Nat) /\ Len(rs'[r].buffer) = Len(rs[r].buffer) + 1
       /\ Counts(rs'[r].buffer, n) /\ Len(rs[r].buffer) \in Nat
  <2>1. PICK q : q = rs[r].buffer
    OBVIOUS
  <2>2. q \in Seq(Nat) /\ Len(q) \in Nat
    BY <1>9, <2>1
  <2>3. Counts(q, c)
    BY <1>5, <1>8, <1>9, <2>1
  <2>4. Precedes(n, c)
    BY <1>5, <1>8, <1>11 DEF Precedes
  <2>5. /\ Both(<<c>>, q) \in Seq(Nat) /\ Len(Both(<<c>>, q)) = Len(q) + 1
        /\ Counts(Both(<<c>>, q), n)
    BY <2>2, <2>3, <2>4, CountsBack
  <2> QED BY <1>6, <2>1, <2>2, <2>5 DEF Both
<1>13. IsSeq(P) /\ Follow(P) /\ NoCarrier(P)
  BY <1>3, StillLists, StillIsAside, AsideFollows DEF AllAside
<1>14. Onward(P, 1)
  BY <1>1, <1>4, <1>13, RunsOnward
<1>15. ~InFlight' /\ ~Arriving'
  BY <1>13, <1>14, TopNext DEF RInv, NoCarrier, Carrying
<1>16. ReaderTypes'
  BY <1>5, <1>6, <1>7, <1>11, <1>12 DEF ReaderTypes
<1>17. /\ Given' = n /\ Sent' = n /\ Buffered' = Given + Len(rs[r].buffer)
       /\ One(Arriving)' = 0
  <2>1. Len(it.queue)' = 0
    BY <1>7, <1>8
  <2>2. Given' = n
    BY <1>11, <2>1 DEF Given
  <2>3. Sent' = n /\ One(Arriving)' = 0
    BY <1>11, <1>15, <2>2 DEF Sent, One
  <2>4. Buffered' = Given + Len(rs[r].buffer)
    <3>1. PICK m : m = Len(rs[r].buffer)
      OBVIOUS
    <3>2. m \in Nat /\ Len(rs'[r].buffer) = m + 1
      BY <1>12, <3>1
    <3>3. n + (m + 1) = Given + m
      BY <1>8, <1>11, <3>2
    <3> QED BY <2>3, <3>1, <3>2, <3>3 DEF Buffered
  <2> QED BY <2>2, <2>3, <2>4
<1>18. InLine'
  <2>1. Counts(got, 0)' /\ Counts(it.queue, Len(got))'
    BY <1>7, <1>8, <1>11 DEF Counts
  <2>2. Counts(rs[r].buffer, Sent)'
    BY <1>12, <1>17 DEF Counts
  <2>3. (produced = Buffered + One(Arriving))'
    BY <1>7, <1>8, <1>9, <1>12, <1>17
  <2> QED BY <1>15, <2>1, <2>2, <2>3 DEF InLine
<1>19. Ending'
  BY <1>5, <1>6, <1>7 DEF RInv, Ending
<1>20. Asking'
  BY <1>6, <1>7 DEF RInv, Asking, Promised
<1>21. Hearing' /\ Fetching'
  BY <1>4, <1>6, <1>7, <1>13, <1>14, HearingKept, FetchingKept DEF RInv
<1> QED BY <1>16, <1>18, <1>19, <1>20, <1>21 DEF RInv

-----------------------------------------------------------------------------
(* Listeners that come and go, and events. *)

\* A listener is added: it takes the data, when nobody did, or leaves them to
\* the one that does.
LEMMA OnMoves ==
  ASSUME Inv, RInv, On, Within
  PROVE  RInv'
<1>1. /\ top.s = r /\ top = stack[1] /\ 1 \in DOMAIN stack /\ stack[1].fn = "on"
      /\ IsSeq(stack) /\ stack # <<>> /\ r \in DOMAIN rs /\ Running("on")
  BY ReaderRuns DEF On, ReaderCalls
<1>2. PICK ev : ev = top.ev
  OBVIOUS
<1>3. PICK l : l = top.l
  OBVIOUS
<1>4. PICK P : P = <<>>
  OBVIOUS
<1>5. /\ listeners' = [listeners EXCEPT ![r][ev] = Append(@, l)] /\ Continue(P)
      /\ CASE ev = "data" -> Resume(r)
           [] ev = "readable" ->
                /\ rs' = [rs EXCEPT ![r] = Paused(@)]
                /\ ticks' = Append(ticks, Call("maybeRead", r))
           [] OTHER -> UNCHANGED <<rs, ticks>>
  BY <1>1, <1>2, <1>3, <1>4 DEF On
<1>6. got' = got /\ UNCHANGED <<use, calls, io, produced, it>>
  BY <1>1, GotSame DEF Within
<1>7. /\ ReaderParts \subseteq DOMAIN rs'[r] /\ rs'[r].buffer = rs[r].buffer
      /\ rs'[r].ended = rs[r].ended /\ rs'[r].destroyed = rs[r].destroyed
      /\ rs'[r].endEmitted = rs[r].endEmitted /\ rs'[r].reading = rs[r].reading
      /\ rs'[r].flowing => rs[r].flowing \/ ev = "data"
  <2>1. ReaderParts \subseteq DOMAIN rs[r]
    BY DEF RInv, ReaderTypes
  <2>2. CASE rs' = rs
    BY <2>1, <2>2
  <2>3. CASE rs' = [rs EXCEPT ![r] = Paused(@)]
    BY <1>1, <2>1, <2>3 DEF Paused, ReaderParts
  <2>4. CASE ev = "data" /\ rs' = [rs EXCEPT ![r] = Resumed(@)]
    BY <1>1, <2>1, <2>4 DEF Resumed, ReaderParts
  <2>5. rs' = rs \/ rs' = [rs EXCEPT ![r] = Paused(@)]
        \/ (ev = "data" /\ rs' = [rs EXCEPT ![r] = Resumed(@)])
    BY <1>5 DEF Resume
  <2> QED BY <2>2, <2>3, <2>4, <2>5
<1>8. /\ HeardAt(l, r, ev) /\ ev \in Events
      /\ ev = "data" => DataListeners = <<>>
      /\ \A m \in DOMAIN stack : m # 1 => ~Sharp(stack[m]) /\ Fetches(stack[m])
  BY <1>1, <1>2, <1>3, Top DEF RInv, Fetching, Fetches, Sharp, AtTop, Known
<1>9. Shifted(P, 1) /\ Len(P) = 0
  BY <1>1, <1>4, <1>5, Replaced, Short
<1>10. /\ Len(stack) \in Nat /\ DOMAIN stack = 1..Len(stack) /\ DOMAIN stack' = 1..Len(stack')
       /\ Len(stack') = Len(stack) - 1
       /\ \A k \in DOMAIN stack' : k + 1 \in DOMAIN stack /\ k + 1 # 1 /\ stack'[k] = stack[k + 1]
  <2>1. /\ Len(stack) \in Nat \ {0} /\ DOMAIN stack = 1..Len(stack)
        /\ DOMAIN stack' = 1..Len(stack') /\ Len(stack') = Len(stack) - 1
    BY <1>1, <1>9, Indexed DEF Shifted
  <2>2. ASSUME NEW k \in DOMAIN stack'
        PROVE  k + 1 \in DOMAIN stack /\ k + 1 # 1 /\ stack'[k] = stack[k + 1]
    <3>1. PICK m \in DOMAIN stack : m > 1 /\ k = m + Len(P) - 1 /\ stack'[k] = stack[m]
      BY <1>9, Origin
    <3>2. m = k + 1
      BY <1>9, <2>1, <3>1
    <3> QED BY <3>1, <3>2
  <2> QED BY <2>1, <2>2
<1>11. ~InFlight /\ ~Arriving /\ ~InFlight' /\ ~Arriving'
  <2>1. ~InFlight /\ ~Arriving
    BY <1>1 DEF InFlight, Arriving, Delivers, Brings
  <2>2. ASSUME NEW k \in DOMAIN stack' PROVE ~Delivers(stack'[k]) /\ ~Brings(stack'[k])
    BY <1>8, <1>10 DEF Sharp, Delivers, Brings
  <2> QED BY <2>1, <2>2 DEF InFlight, Arriving, Delivers, Brings
<1>12. ReaderTypes'
  BY <1>6, <1>7 DEF RInv, ReaderTypes
<1>13. Given' = Given /\ Sent' = Given /\ Buffered' = Buffered /\ Sent = Given
  BY <1>6, <1>7, <1>11, Sizes DEF RInv, Given, Sent, Buffered, One
<1>14. InLine'
  BY <1>6, <1>7, <1>11, <1>13 DEF RInv, InLine, One, Counts
<1>15. Ending'
  BY <1>6, <1>7, <1>13 DEF RInv, Ending
<1>16. Asking'
  BY <1>6, <1>7 DEF RInv, Asking, Promised
<1>17. DataListeners' = IF ev = "data" THEN Append(DataListeners, l) ELSE DataListeners
  BY <1>5, <1>8, OneStream DEF DataListeners, Inv, Calls, Listening, Events
<1>18. Hearing'
  <2>1. ASSUME NEW s \in Streams, NEW e \in Events, NEW k \in DOMAIN listeners'[s][e]
        PROVE  HeardAt(listeners[s][e][k], s, e)'
    <3>1. PICK x : x = listeners'[s][e][k]
      OBVIOUS
    <3>2. HeardAt(x, s, e)
      <4>1. CASE s = r /\ e = ev
        <5>1. IsSeq(listeners[r][ev]) /\ listeners'[r][ev] = Append(listeners[r][ev], l)
          BY <1>5, <1>8, OneStream DEF Inv, Calls, Listening
        <5>2. (k \in DOMAIN listeners[r][ev] /\ x = listeners[r][ev][k]) \/ x = l
          BY <2>1, <3>1, <4>1, <5>1, AppendedTo, Indexed
        <5> QED BY <1>8, <4>1, <5>2, OneStream DEF RInv, Hearing
      <4>2. CASE ~(s = r /\ e = ev)
        <5>1. listeners'[s][e] = listeners[s][e]
          BY <1>5, <1>8, <4>2, OneStream DEF Inv, Calls, Listening
        <5> QED BY <2>1, <3>1, <5>1 DEF RInv, Hearing
      <4> QED BY <4>1, <4>2
    <3> QED BY <1>6, <3>1, <3>2 DEF HeardAt, Taker
  <2>2. Len(DataListeners') <= 1
    BY <1>8, <1>17 DEF RInv, Hearing
  <2>3. rs'[r].flowing => DataListeners' # <<>>
    <3>1. ev = "data" => DataListeners' # <<>>
      <4>1. ev = "data" => DataListeners' = Append(<<>>, l)
        BY <1>8, <1>17
      <4>2. Append(<<>>, l) # <<>>
        BY Short, AppendedTo
      <4> QED BY <4>1, <4>2
    <3>2. ev # "data" => DataListeners' = DataListeners
      BY <1>17
    <3> QED BY <1>7, <3>1, <3>2 DEF RInv, Hearing
  <2> QED BY <2>1, <2>2, <2>3 DEF Hearing
<1>19. Fetching'
  <2>1. ASSUME NEW f, Fetches(f) PROVE Fetches(f)'
    BY <1>6, <2>1 DEF Fetches, HeardAt, Taker
  <2>2. ASSUME NEW k \in DOMAIN stack' PROVE Fetches(stack[k])' /\ ~Sharp(stack'[k])
    <3>1. PICK f : f = stack'[k]
      OBVIOUS
    <3>2. Fetches(f)' /\ ~Sharp(f)
      BY <1>8, <1>10, <2>1, <3>1
    <3> QED BY <3>1, <3>2 DEF Fetches
  <2>3. \A k \in DOMAIN stack' : Sharp(stack[k])' <=> Sharp(stack'[k])
    BY DEF Sharp, Delivers
  <2>4. ASSUME NEW k \in DOMAIN stack', Joins(stack'[k])
        PROVE  /\ \A j \in 1..(k - 1) : stack'[j].fn = "on"
               /\ stack'[k].fn = "resume" => DataListeners' # <<>>
    <3>1. PICK m : m = k + 1
      OBVIOUS
    <3>2. m \in DOMAIN stack /\ stack'[k] = stack[m] /\ k \in 1..Len(stack')
      BY <1>10, <3>1
    <3>3. \A j \in 1..(m - 1) : stack[j].fn = "on"
      BY <2>4, <3>2 DEF RInv, Fetching, Joining
    <3>4. ASSUME NEW j \in 1..(k - 1) PROVE stack'[j].fn = "on"
      <4>1. j \in DOMAIN stack' /\ j + 1 \in 1..(m - 1)
        BY <1>10, <3>1, <3>2
      <4> QED BY <1>10, <3>3, <4>1
    <3>5. stack'[k].fn = "resume" => DataListeners # <<>> \/ ev = "data"
      BY <1>1, <1>2, <3>2 DEF RInv, Fetching, Joining
    <3>6. DataListeners # <<>> \/ ev = "data" => DataListeners' # <<>>
      <4>1. ev = "data" => DataListeners' = Append(<<>>, l)
        BY <1>8, <1>17
      <4>2. Append(<<>>, l) # <<>>
        BY Short, AppendedTo
      <4> QED BY <1>17, <4>1, <4>2
    <3> QED BY <3>4, <3>5, <3>6
  <2>5. \A k \in DOMAIN stack' : stack'[k].fn = "resume" => Joins(stack'[k])
    BY DEF Joins
  <2>6. Joining'
    BY <2>4, <2>5 DEF Joining, Joins
  <2> QED BY <2>2, <2>3, <2>6 DEF Fetching
<1> QED BY <1>12, <1>14, <1>15, <1>16, <1>18, <1>19 DEF RInv

LEMMA RemoveMoves ==
  ASSUME Inv, RInv, RemoveListener, Within
  PROVE  RInv'
<1>1. /\ top.s = r /\ top = stack[1] /\ 1 \in DOMAIN stack /\ stack[1].fn = "off"
      /\ IsSeq(stack) /\ stack # <<>> /\ r \in DOMAIN rs /\ Running("off")
  BY ReaderRuns DEF RemoveListener, ReaderCalls
<1>2. PICK ev : ev = top.ev
  OBVIOUS
<1>3. PICK all : all = listeners[r][ev]
  OBVIOUS
<1>4. PICK P : P = <<>>
  OBVIOUS
<1>5. PICK i \in 0..Len(all) :
        LET kept == IF i = 0 THEN all ELSE RemoveAt(all, i)
        IN /\ listeners' = [listeners EXCEPT ![r][ev] = kept]
           /\ rs' = [rs EXCEPT ![r].flowing = @ /\ ~(ev = "data" /\ kept = <<>>)]
  <2>1. PICK s : s = top.s
    OBVIOUS
  <2>2. PICK i \in 0..Len(listeners[s][ev]) :
          LET kept == IF i = 0 THEN listeners[s][ev] ELSE RemoveAt(listeners[s][ev], i)
          IN /\ listeners' = [listeners EXCEPT ![s][ev] = kept]
             /\ rs' = [rs EXCEPT ![s].flowing = @ /\ ~(ev = "data" /\ kept = <<>>)]
    BY <1>2, <2>1, Zenon DEF RemoveListener
  <2>3. s = r
    BY <1>1, <2>1
  <2> QED BY <1>3, <2>2, <2>3, Zenon
<1>6. PICK kept : kept = IF i = 0 THEN all ELSE RemoveAt(all, i)
  OBVIOUS
<1>7. /\ listeners' = [listeners EXCEPT ![r][ev] = kept] /\ Continue(P)
      /\ rs' = [rs EXCEPT ![r].flowing = @ /\ ~(ev = "data" /\ kept = <<>>)]
  BY <1>1, <1>4, <1>5, <1>6 DEF RemoveListener
<1>8. got' = got /\ UNCHANGED <<use, calls, io, produced, it>>
  BY <1>1, GotSame DEF Within
<1>9. /\ ReaderParts \subseteq DOMAIN rs'[r] /\ rs'[r].buffer = rs[r].buffer
      /\ rs'[r].ended = rs[r].ended /\ rs'[r].destroyed = rs[r].destroyed
      /\ rs'[r].endEmitted = rs[r].endEmitted /\ rs'[r].reading = rs[r].reading
      /\ rs'[r].flowing <=> rs[r].flowing /\ ~(ev = "data" /\ kept = <<>>)
  BY <1>1, <1>7 DEF RInv, ReaderTypes, ReaderParts
<1>10. ev \in Events /\ IsSeq(all) /\ r \in Streams
  BY <1>1, <1>2, <1>3, Top, OneStream DEF Known, Inv, Calls, Listening
<1>11. /\ \A k \in DOMAIN kept : \E m \in DOMAIN all : kept[k] = all[m]
       /\ Len(kept) <= Len(all) /\ Len(kept) \in Nat /\ Len(all) \in Nat
       /\ IsSeq(kept)
  <2>1. Len(all) \in Nat /\ DOMAIN all = 1..Len(all)
    BY <1>10, Indexed
  <2>2. CASE i = 0
    BY <1>6, <1>10, <2>1, <2>2
  <2>3. CASE i # 0
    <3>1. i \in 1..Len(all)
      BY <1>5, <2>1, <2>3
    <3>2. /\ IsSeq(kept) /\ Len(kept) = Len(all) - 1
          /\ \A k \in 1..(Len(all) - 1) : kept[k] = IF k < i THEN all[k] ELSE all[k + 1]
      BY <1>6, <1>10, <2>3, <3>1, Removed
    <3>3. DOMAIN kept = 1..(Len(all) - 1)
      BY <3>2, Indexed
    <3>4. \A k \in 1..(Len(all) - 1) : k \in DOMAIN all /\ k + 1 \in DOMAIN all
      BY <2>1
    <3>5. \A k \in DOMAIN kept : \E m \in DOMAIN all : kept[k] = all[m]
      BY <3>2, <3>3, <3>4
    <3>6. Len(kept) <= Len(all) /\ Len(kept) \in Nat
      BY <2>1, <3>1, <3>2
    <3> QED BY <2>1, <3>2, <3>5, <3>6
  <2> QED BY <2>2, <2>3
<1>12. /\ listeners'[r][ev] = kept
       /\ \A s \in Streams, e \in Events :
            ~(s = r /\ e = ev) => listeners'[s][e] = listeners[s][e]
  BY <1>7, <1>10 DEF Inv, Calls, Listening
<1>13. Hearing'
  <2>1. ASSUME NEW s \in Streams, NEW e \in Events, NEW k \in DOMAIN listeners'[s][e]
        PROVE  HeardAt(listeners[s][e][k], s, e)'
    <3>1. PICK x : x = listeners'[s][e][k]
      OBVIOUS
    <3>2. \E m \in DOMAIN listeners[s][e] : x = listeners[s][e][m]
      BY <1>3, <1>11, <1>12, <2>1, <3>1
    <3>3. HeardAt(x, s, e)
      BY <3>2 DEF RInv, Hearing
    <3> QED BY <1>8, <3>1, <3>3 DEF HeardAt, Taker
  <2>2. Len(DataListeners') <= 1
    <3>1. CASE ev = "data"
      BY <1>3, <1>11, <1>12, <3>1 DEF RInv, Hearing, DataListeners
    <3>2. CASE ev # "data"
      BY <1>10, <1>12, <3>2 DEF RInv, Hearing, DataListeners, Events
    <3> QED BY <3>1, <3>2
  <2>3. rs'[r].flowing => DataListeners' # <<>>
    <3>1. CASE ev = "data"
      BY <1>9, <1>12, <3>1 DEF DataListeners
    <3>2. CASE ev # "data"
      BY <1>9, <1>10, <1>12, <3>2 DEF RInv, Hearing, DataListeners, Events
    <3> QED BY <3>1, <3>2
  <2> QED BY <2>1, <2>2, <2>3 DEF Hearing
<1>14. Onward(P, 1) /\ Follow(P) /\ NoCarrier(P)
  BY <1>1, <1>4, <1>7, RunsOnward, StillLists, StillIsAside, AsideFollows DEF AllAside
<1>15. ~InFlight /\ ~Arriving /\ ~InFlight' /\ ~Arriving'
  BY <1>1, <1>14, TopNext DEF RInv, NoCarrier, Carrying, InFlight, Arriving, Delivers, Brings
<1>16. ReaderTypes'
  BY <1>8, <1>9 DEF RInv, ReaderTypes
<1>17. Given' = Given /\ Sent' = Given /\ Buffered' = Buffered /\ Sent = Given
  BY <1>8, <1>9, <1>15, Sizes DEF RInv, Given, Sent, Buffered, One
<1>18. InLine' /\ Ending' /\ Asking'
  BY <1>8, <1>9, <1>15, <1>17 DEF RInv, InLine, Ending, Asking, Promised, One, Counts
<1>19. Fetching'
  BY <1>8, <1>14, FetchingKept DEF RInv
<1> QED BY <1>13, <1>16, <1>18, <1>19 DEF RInv

LEMMA PausingMoves ==
  ASSUME Inv, RInv, PauseCall \/ ResumeCall, Within
  PROVE  RInv'
<1>1. PICK P : P = <<>>
  OBVIOUS
<1>2. AllAside(P)
  BY <1>1, StillLists, StillIsAside
<1>3. CASE PauseCall
  <2>1. /\ top.s = r /\ r \in DOMAIN rs /\ Running("pause")
    BY <1>3, ReaderRuns DEF PauseCall, ReaderCalls
  <2>2. rs' = [rs EXCEPT ![r] = Paused(@)] /\ Continue(P) /\ listeners' = listeners
    BY <1>1, <1>3, <2>1 DEF PauseCall, Pause
  <2>3. ReaderKept
    BY <2>1, <2>2 DEF RInv, ReaderTypes, ReaderParts, Ending, ReaderKept, Paused
  <2> QED BY <1>2, <2>1, <2>2, <2>3, GotSame, AsideRun DEF Within
<1>4. CASE ResumeCall
  <2>1. /\ top.s = r /\ r \in DOMAIN rs /\ Running("resume") /\ 1 \in DOMAIN stack
        /\ stack[1].fn = "resume"
    BY <1>4, ReaderRuns DEF ResumeCall, ReaderCalls
  <2>2. /\ rs' = rs \/ rs' = [rs EXCEPT ![r] = Resumed(@)]
        /\ Continue(P) /\ listeners' = listeners
    BY <1>1, <1>4, <2>1 DEF ResumeCall, Resume
  <2>3. DataListeners # <<>>
    BY <2>1 DEF RInv, Fetching, Joining
  <2>4. ReaderKept
    <3>1. CASE rs' = rs
      BY <3>1, SameReaderKept
    <3>2. CASE rs' = [rs EXCEPT ![r] = Resumed(@)]
      BY <2>1, <2>3, <3>2 DEF RInv, ReaderTypes, ReaderParts, Ending, ReaderKept, Resumed
    <3> QED BY <2>2, <3>1, <3>2
  <2> QED BY <1>2, <2>1, <2>2, <2>4, GotSame, AsideRun DEF Within
<1> QED BY <1>3, <1>4

\* What is heard of an event.
Noticed(list, event) == [i \in DOMAIN list |-> Notified(list[i], event)]

\* The calls of the listeners of an event.
Notifications == Noticed(listeners[top.s][top.ev], top)

LEMMA Telling ==
  ASSUME Inv, RInv, EmitStep
  PROVE  /\ Continue(Notifications) /\ IsSeq(Notifications)
         /\ Len(Notifications) = Len(listeners[top.s][top.ev])
         /\ Len(Notifications) \in Nat /\ DOMAIN Notifications = 1..Len(Notifications)
         /\ \A k \in 1..Len(Notifications) :
              /\ Notifications[k].fn = listeners[top.s][top.ev][k].fn
              /\ HeardAt(listeners[top.s][top.ev][k], top.s, top.ev)
              /\ k \in DOMAIN listeners[top.s][top.ev]
<1>1. top.s \in Streams /\ top.ev \in Events
  BY Top DEF EmitStep, Known
<1>2. PICK list : list = listeners[top.s][top.ev]
  OBVIOUS
<1>3. PICK event : event = top
  OBVIOUS
<1>4. PICK P : P = Noticed(list, event)
  OBVIOUS
<1>5. Continue(P)
  BY <1>2, <1>3, <1>4 DEF EmitStep, Noticed
<1>6. /\ IsSeq(P) /\ Len(P) = Len(list) /\ Len(P) \in Nat /\ DOMAIN P = 1..Len(P)
      /\ \A k \in 1..Len(P) :
           P[k].fn = list[k].fn /\ HeardAt(list[k], top.s, top.ev) /\ k \in DOMAIN list
  <2>1. IsSeq(list) /\ DOMAIN list = 1..Len(list) /\ Len(list) \in Nat
    BY <1>1, <1>2, Indexed DEF Inv, Calls, Listening
  <2>2. AllPlain(P)
    BY <1>1, <1>2, <1>4, Notices DEF Noticed
  <2>3. IsSeq(P) /\ DOMAIN P = 1..Len(P) /\ Len(P) \in Nat
    BY <2>2, Indexed DEF AllPlain
  <2>4. DOMAIN P = DOMAIN list /\ Len(P) = Len(list)
    <3>1. DOMAIN P = DOMAIN list
      BY <1>4 DEF Noticed
    <3>2. PICK m \in Nat, n \in Nat : m = Len(P) /\ n = Len(list)
      BY <2>1, <2>3
    <3>3. 1..m = 1..n
      BY <2>1, <2>3, <3>1, <3>2
    <3>4. m = n
      BY <3>3
    <3> QED BY <3>1, <3>2, <3>4
  <2>5. ASSUME NEW k \in 1..Len(P)
        PROVE  P[k].fn = list[k].fn /\ HeardAt(list[k], top.s, top.ev) /\ k \in DOMAIN list
    <3>1. k \in DOMAIN list /\ P[k] = Notified(list[k], event) /\ Listener(list[k])
      BY <1>1, <1>2, <1>4, <2>3, <2>4 DEF Noticed, Inv, Calls, Listening
    <3> QED BY <1>1, <1>2, <3>1 DEF Notified, Listener, RInv, Hearing
  <2> QED BY <2>3, <2>4, <2>5
<1> QED BY <1>2, <1>3, <1>4, <1>5, <1>6 DEF Notifications

LEMMA EmitMoves ==
  ASSUME Inv, RInv, EmitStep, Within
  PROVE  RInv'
<1>1. /\ Running("emit") /\ top = stack[1] /\ 1 \in DOMAIN stack /\ stack[1].fn = "emit"
      /\ IsSeq(stack) /\ stack # <<>> /\ top.s \in Streams /\ top.ev \in Events
  BY Top DEF EmitStep, Known
<1>2. PICK list : list = listeners[top.s][top.ev]
  OBVIOUS
<1>3. PICK event : event = top
  OBVIOUS
<1>4. PICK P : P = Noticed(list, event)
  OBVIOUS
<1>5. Continue(P) /\ rs' = rs /\ listeners' = listeners
  BY <1>2, <1>3, <1>4 DEF EmitStep, Noticed
<1>6. /\ IsSeq(P) /\ Len(P) = Len(list) /\ Len(P) \in Nat /\ DOMAIN P = 1..Len(P)
      /\ \A k \in 1..Len(P) :
           P[k].fn = list[k].fn /\ HeardAt(list[k], top.s, top.ev) /\ k \in DOMAIN list
  BY <1>2, <1>3, <1>4, Telling DEF Notifications
<1>7. got' = got /\ UNCHANGED <<use, calls, io, produced, it>> /\ calls' \in 0..MaxCalls
  BY <1>1, GotSame DEF Within, RInv, ReaderTypes
<1>8. Onward(P, 1)
  BY <1>1, <1>5, <1>6, RunsOnward
<1>9. ASSUME NEW k \in 1..Len(P)
      PROVE  /\ P[k].fn \in {"user", "userData", "itData", "itEnd", "itError", "endOther", "pushOther"}
             /\ P[k].fn \in {"userData", "itData"} <=> top.s = r /\ top.ev = "data"
             /\ P[k].fn \in {"itEnd", "itError"} => it.open /\ use = "iterate"
             /\ P[k].fn = "itData" => it.open /\ use = "iterate"
             /\ P[k].fn = "userData" => use = "data"
  <2>1. P[k].fn = list[k].fn /\ HeardAt(list[k], top.s, top.ev) /\ Listener(list[k])
    BY <1>1, <1>2, <1>6 DEF Inv, Calls, Listening
  <2>2. it.open => use = "iterate"
    BY DEF RInv, ReaderTypes, NoIterator
  <2>3. Taker.fn = IF use = "iterate" THEN "itData" ELSE "userData"
    BY DEF Taker, Received, Call
  <2> QED BY <2>1, <2>2, <2>3 DEF HeardAt, Listener
<1>10. CASE ~(top.s = r /\ top.ev = "data")
  <2>1. Follow(P) /\ NoCarrier(P)
    BY <1>7, <1>9, <1>10
    DEF Follow, NoCarrier, Carrying, Delivers, Brings, Fetches, Sharp, Joins
  <2>2. SameReader /\ SameDebt
    BY <1>5, <1>7, SameReaderKept, KeptReader
  <2>3. ~Carrying(stack[1])
    BY <1>1, <1>10 DEF Carrying, Delivers, Brings, RInv, Fetching, Fetches
  <2> QED BY <1>5, <1>7, <1>8, <2>1, <2>2, <2>3, StillStep
<1>11. CASE top.s = r /\ top.ev = "data"
  <2>1. /\ top.c \in Nat /\ "c" \in DOMAIN top /\ DataListeners # <<>> /\ list = DataListeners
        /\ InFlight /\ ~Arriving
    BY <1>1, <1>2, <1>11
    DEF RInv, Fetching, Fetches, Sharp, Delivers, AtTop, DataListeners, InFlight, Arriving, Brings
  <2>2. Len(list) = 1
    <3>1. IsSeq(list) /\ Len(list) \in Nat
      BY <1>1, <1>2, Indexed DEF Inv, Calls, Listening
    <3>2. PICK n \in Nat : n = Len(list)
      BY <3>1
    <3>3. n # 0
      BY <2>1, <3>1, <3>2
    <3>4. n <= 1
      BY <2>1, <3>2 DEF RInv, Hearing
    <3> QED BY <3>2, <3>3, <3>4
  <2>3. 1 \in 1..Len(P) /\ (\A k \in 1..Len(P) : k = 1) /\ 1 \in DOMAIN list
    BY <1>6, <2>2
  <2>4. P[1].c = top.c /\ P[1].fn \in {"userData", "itData"}
    <3>1. HeardAt(list[1], top.s, top.ev) /\ P[1].fn \in {"userData", "itData"}
          /\ P[1].fn = list[1].fn
      BY <1>6, <1>9, <1>11, <2>3
    <3>2. list[1] = Taker
      BY <3>1 DEF HeardAt
    <3>3. DOMAIN list[1] = {"fn", "s"}
      BY <3>2 DEF Taker, Received, Call
    <3>4. P[1] = Notified(list[1], event)
      BY <1>4, <2>3 DEF Noticed
    <3>5. P[1].c = event.c
      BY <1>3, <2>1, <3>3, <3>4 DEF Notified
    <3> QED BY <1>3, <3>1, <3>5
  <2>5. Follow(P)
    BY <1>7, <1>9, <1>11, <2>1, <2>3, <2>4 DEF Follow, Fetches, Sharp, Delivers, AtTop, Joins
  <2>6. InFlight' /\ ~Arriving' /\ stack'[1] = P[1]
    BY <1>8, <2>3, <2>4, TopNext DEF RInv, Delivers, Brings
  <2>7. ReaderTypes'
    BY <1>5, <1>7 DEF RInv, ReaderTypes
  <2>8. Given' = Given /\ Sent' = Sent /\ Buffered' = Buffered
    BY <1>5, <1>7, <2>1, <2>6 DEF Given, Sent, Buffered, One
  <2>9. InLine'
    BY <1>1, <1>5, <1>7, <2>1, <2>4, <2>6, <2>8 DEF RInv, InLine, One, Counts
  <2>10. Ending' /\ Asking'
    BY <1>5, <1>7, <2>8 DEF RInv, Ending, Asking, Promised
  <2>11. Hearing' /\ Fetching'
    BY <1>5, <1>7, <1>8, <2>5, HearingKept, FetchingKept DEF RInv
  <2> QED BY <2>7, <2>9, <2>10, <2>11 DEF RInv
<1> QED BY <1>10, <1>11

-----------------------------------------------------------------------------
(* The end of a stream, and the ticks. *)

LEMMA AsideCalls ==
  /\ \A f, s : f \notin Loud \cup {"emit"} =>
       /\ Aside(Call(f, s)) /\ (\A e : Aside(CallE(f, s, e)))
  /\ \A s, ev : ev # "data" => Aside(Emit(s, ev)) /\ Aside([Emit(s, ev) EXCEPT !.err = TRUE])
  /\ AllAside(<<>>)
  /\ \A a : Aside(a) => AllAside(<<a>>)
  /\ \A c, q : AllAside(q) => AllAside(Then(c, q))
<1>1. ASSUME NEW f, NEW s, f \notin Loud \cup {"emit"}
      PROVE  Aside(Call(f, s)) /\ (\A e : Aside(CallE(f, s, e)))
  BY <1>1 DEF Aside, Call, CallE
<1>2. ASSUME NEW s, NEW ev, ev # "data"
      PROVE  Aside(Emit(s, ev)) /\ Aside([Emit(s, ev) EXCEPT !.err = TRUE])
  BY <1>2 DEF Aside, Emit, Loud
<1>3. AllAside(<<>>) /\ \A a : Aside(a) => AllAside(<<a>>)
  BY Short DEF AllAside
<1>4. ASSUME NEW c, NEW q, AllAside(q) PROVE AllAside(Then(c, q))
  BY <1>3, <1>4 DEF Then
<1> QED BY <1>1, <1>2, <1>3, <1>4

\* A step that adds calls that have no part in the reading.
LEMMA AsideStep ==
  ASSUME Inv, RInv, NEW f, Running(f), f # "on", f \notin {"push", "userData", "itData"},
         f = "emit" => top.ev # "data",
         NEW P, Continue(P), AllAside(P), SameReader, SameDebt,
         UNCHANGED <<listeners, use, it, got, produced, calls>>
  PROVE  RInv'
<1>1. IsSeq(stack) /\ stack # <<>> /\ stack[1].fn = f /\ top = stack[1]
  BY Top
<1>2. Onward(P, 1)
  BY RunsOnward DEF AllAside
<1>3. ~Carrying(stack[1])
  BY <1>1 DEF Carrying, Delivers, Brings
<1>4. calls' \in 0..MaxCalls
  BY DEF RInv, ReaderTypes
<1> QED BY <1>2, <1>3, <1>4, AsideFollows, StillStep

LEMMA DestroyMoves ==
  ASSUME Inv, RInv, Destroy, Within
  PROVE  RInv'
<1>1. Running("destroy") /\ listeners' = listeners
  BY Zenon DEF Destroy
<1>2. PICK s : s = top.s
  OBVIOUS
<1>3. got' = got /\ UNCHANGED <<use, calls, io, produced, it>>
  BY <1>1, GotSame DEF Within
<1>4. CASE Destroyed(s)
  <2>1. PICK P : P = <<>>
    OBVIOUS
  <2>2. Continue(P) /\ rs' = rs
    BY <1>2, <1>4, <2>1 DEF Destroy
  <2>3. AllAside(P) /\ SameReader /\ SameDebt
    BY <1>3, <2>1, <2>2, AsideCalls, SameReaderKept, KeptReader
  <2> QED BY <1>1, <1>3, <2>2, <2>3, AsideStep
<1>5. CASE ~Destroyed(s)
  <2>1. PICK P : P = Then(s \in Writers, FailWrites(s, ws[s].pending)
                                         \o FailWrites(s, ws[s].corkedBuffer)
                                         \o <<Call("dropWrites", s)>>)
                     \o <<CallE(IF s \in CustomDestroy THEN "_destroy" ELSE "closed", s, top.err)>>
    OBVIOUS
  <2>2. /\ rs' = [x \in Readers |->
                   IF x = s THEN [rs[x] EXCEPT !.destroyed = TRUE, !.ended = TRUE,
                                               !.errored = @ \/ top.err]
                   ELSE rs[x]]
        /\ Continue(P)
    BY <1>2, <1>5, <2>1 DEF Destroy
  <2>3. AllAside(P)
    <3>1. AllAside(FailWrites(s, ws[s].pending)) /\ AllAside(FailWrites(s, ws[s].corkedBuffer))
      BY StillFailures, StillIsAside
    <3>2. PICK a : a = FailWrites(s, ws[s].pending) \o FailWrites(s, ws[s].corkedBuffer)
      OBVIOUS
    <3>3. AllAside(a) /\ AllAside(<<Call("dropWrites", s)>>)
      BY <3>1, <3>2, AsideJoined, AsideCalls DEF Loud
    <3>4. AllAside(Then(s \in Writers, a \o <<Call("dropWrites", s)>>))
      BY <3>3, AsideJoined, AsideCalls
    <3>5. AllAside(<<CallE(IF s \in CustomDestroy THEN "_destroy" ELSE "closed", s, top.err)>>)
      BY AsideCalls DEF Loud
    <3> QED BY <2>1, <3>2, <3>4, <3>5, AsideJoined
  <2>4. SameReader /\ SameDebt
    <3>1. r \in Readers /\ ReaderParts \subseteq DOMAIN rs[r]
      BY UserAssumption DEF RInv, ReaderTypes
    <3>2. /\ ReaderParts \subseteq DOMAIN rs'[r] /\ rs'[r].buffer = rs[r].buffer
          /\ rs'[r].endEmitted = rs[r].endEmitted /\ rs'[r].flowing = rs[r].flowing
          /\ rs'[r].reading = rs[r].reading
          /\ \/ rs'[r].destroyed /\ rs'[r].ended
             \/ rs'[r].destroyed = rs[r].destroyed /\ rs'[r].ended = rs[r].ended
      <4>1. CASE s = r
        BY <2>2, <3>1, <4>1 DEF ReaderParts
      <4>2. CASE s # r
        BY <2>2, <3>1, <4>2
      <4> QED BY <4>1, <4>2
    <3> QED BY <1>3, <3>2 DEF SameReader, SameDebt, OneRead, Promised, RInv, Asking, Ending
  <2> QED BY <1>1, <1>3, <2>2, <2>3, <2>4, AsideStep
<1> QED BY <1>4, <1>5

LEMMA ClosedMoves ==
  ASSUME Inv, RInv, Closed, Within
  PROVE  RInv'
<1>1. Running("closed") /\ listeners' = listeners
  BY Zenon DEF Closed
<1>2. PICK s : s = top.s
  OBVIOUS
<1>3. got' = got /\ UNCHANGED <<use, calls, io, produced, it>>
  BY <1>1, GotSame DEF Within
<1>4. PICK P : P = Then(top.err, <<[Emit(s, "error") EXCEPT !.err = TRUE]>>)
                   \o <<Emit(s, "close")>>
  OBVIOUS
<1>5. /\ rs' = [x \in Readers |-> IF x = s THEN [rs[x] EXCEPT !.errored = @ \/ top.err]
                                  ELSE rs[x]]
      /\ Continue(P)
  BY <1>2, <1>4 DEF Closed
<1>6. AllAside(P)
  BY <1>4, AsideCalls, AsideJoined
<1>7. ReaderKept
  BY <1>5, UserAssumption DEF RInv, ReaderTypes, ReaderParts, Ending, ReaderKept
<1> QED BY <1>1, <1>3, <1>5, <1>6, <1>7, KeptReader, AsideStep

LEMMA TickMoves ==
  ASSUME Inv, WInv, RInv, RunTick, Within
  PROVE  RInv'
<1>1. /\ stack = <<>> /\ ticks # <<>> /\ stack' = <<Head(ticks)>>
      /\ rs' = rs /\ listeners' = listeners
  BY DEF RunTick
<1>2. PICK f : f = Head(ticks)
  OBVIOUS
<1>3. PICK P : P = <<f>>
  OBVIOUS
<1>4. f.fn \in {"callback", "flowTick", "readableTick", "maybeRead", "destroy"}
  BY <1>1, <1>2, TailOf DEF WInv, Ordered, Frames, TickFrames, Inv, Calls, AllPlain
<1>5. Aside(f)
  BY <1>4 DEF Aside, Loud
<1>6. AllAside(P)
  BY <1>3, <1>5, AsideCalls
<1>7. Onward(P, 0)
  <2>1. stack' = P \o stack /\ IsSeq(stack) /\ 1 \notin DOMAIN stack
    <3>1. P \in Seq({f}) /\ stack' = P
      BY <1>1, <1>2, <1>3
    <3> QED BY <1>1, <3>1, Short
  <2> QED BY <1>6, <2>1, Pushed DEF Onward, AllAside
<1>8. got' = got /\ UNCHANGED <<use, calls, io, produced, it>> /\ calls' \in 0..MaxCalls
  BY <1>1 DEF Within, Observe, Running, RInv, ReaderTypes
<1>9. SameReader /\ SameDebt
  BY <1>1, <1>8, SameReaderKept, KeptReader
<1> QED BY <1>1, <1>6, <1>7, <1>8, <1>9, AsideFollows, StillStep

LEMMA LibraryMoves ==
  ASSUME Inv, WInv, RInv, Library
  PROVE  RInv'
<1>1. Within
  BY DEF Library, Within
<1>2. CASE ReadableStep
  BY <1>1, <1>2, PushMoves, MaybeReadMoves, TickingMoves, FlowMoves, EmitEndMoves DEF ReadableStep
<1>3. CASE ReaderCall
  BY <1>1, <1>3, ReadMoves, UnshiftMoves, OnMoves, RemoveMoves, PausingMoves DEF ReaderCall
<1>4. CASE WritableStep \/ CorkStep
  BY <1>1, <1>4, WriterRests, RestStep
<1>5. CASE DestroyStep
  <2>1. CASE AutoDestroy \/ FailNext \/ DropWrites
    BY <1>1, <2>1, WriterRests, RestStep
  <2>2. CASE Destroy \/ Closed
    BY <1>1, <2>2, DestroyMoves, ClosedMoves
  <2> QED BY <1>5, <2>1, <2>2 DEF DestroyStep
<1> QED BY <1>1, <1>2, <1>3, <1>4, <1>5, EmitMoves, TickMoves DEF Library

-----------------------------------------------------------------------------
(* The subclass. *)

\* The source pushes its next chunk, or the end.
LEMMA SourcePushes ==
  ASSUME Inv, RInv, NEW d, Onward(NextRead, d), 1 \in DOMAIN stack => ~Carrying(stack[1]),
         ~rs[r].ended, ~rs[r].destroyed, ~Promised', OneRead,
         produced' = IF produced < Total THEN produced + 1 ELSE produced,
         UNCHANGED <<rs, listeners, use, calls, got, it>>
  PROVE  RInv'
<1>1. produced \in 0..Total /\ Total \in Nat /\ calls' \in 0..MaxCalls
  BY UserAssumption DEF RInv, ReaderTypes
<1>2. ~InFlight /\ ~Arriving
  BY DEF InFlight, Arriving, Carrying
<1>3. PICK c : c = IF produced = Total THEN Eof ELSE produced + 1
  OBVIOUS
<1>4. PICK f : f = CallC("push", r, c)
  OBVIOUS
<1>5. PICK P : P = <<f>>
  OBVIOUS
<1>6. P = NextRead /\ Onward(P, d)
  BY <1>3, <1>4, <1>5 DEF NextRead
<1>7. f.fn = "push" /\ f.c = c /\ c \in Int
  BY <1>1, <1>3, <1>4 DEF CallC, Eof
<1>8. IsSeq(P) /\ Len(P) = 1 /\ 1 \in 1..Len(P) /\ \A k \in 1..Len(P) : k = 1 /\ P[k] = f
  BY <1>5, Short
<1>9. Fetches(f)' /\ AtTop(f)' /\ ~Joins(f) /\ ~Delivers(f)
  BY <1>1, <1>3, <1>7 DEF Fetches, AtTop, Joins, Delivers, Eof
<1>10. Follow(P)
  BY <1>7, <1>8, <1>9 DEF Follow
<1>11. SameReader /\ SameDebt
  BY SameReaderKept DEF SameReader, SameDebt, ReaderKept, RInv, Asking, Promised
<1>12. CASE produced = Total
  <2>1. NoCarrier(P) /\ produced' = produced
    BY <1>1, <1>3, <1>7, <1>8, <1>9, <1>12 DEF NoCarrier, Carrying, Brings
  <2> QED BY <1>1, <1>6, <1>10, <1>11, <2>1, StillStep
<1>13. CASE produced # Total
  <2>1. c = produced + 1 /\ produced' = produced + 1 /\ produced' \in 0..Total
        /\ c \notin {Eof, Empty}
    BY <1>1, <1>3, <1>13 DEF Eof, Empty
  <2>2. ~InFlight' /\ Arriving' /\ stack'[1] = f
    BY <1>6, <1>7, <1>8, <1>9, <2>1, TopNext DEF RInv, Brings
  <2>3. ReaderTypes'
    BY <2>1 DEF RInv, ReaderTypes
  <2>4. Given' = Given /\ Sent' = Sent /\ Buffered' = Buffered
        /\ One(Arriving)' = 1 /\ One(Arriving) = 0
    BY <1>2, <2>2 DEF Given, Sent, Buffered, One
  <2>5. Buffered = produced /\ Buffered \in Nat
    BY <2>4, Sizes DEF RInv, InLine
  <2>6. InLine'
    <3>1. Counts(got, 0)' /\ Counts(it.queue, Len(got))' /\ Counts(rs[r].buffer, Sent)'
      BY <2>4 DEF RInv, InLine, Counts
    <3>2. stack'[1].c = Buffered' + 1 /\ (produced = Buffered + One(Arriving))'
      BY <1>7, <2>1, <2>2, <2>4, <2>5
    <3> QED BY <2>2, <3>1, <3>2 DEF InLine
  <2>7. Ending'
    BY <2>4 DEF RInv, Ending
  <2>8. Asking' /\ Hearing' /\ Fetching'
    BY <1>6, <1>10, <1>11, AskingKept, HearingKept, FetchingKept DEF RInv
  <2> QED BY <2>3, <2>6, <2>7, <2>8 DEF RInv
<1> QED BY <1>12, <1>13

\* The subclass answers a call.
LEMMA AnswerMoves ==
  ASSUME Inv, RInv, NEW x, x.fn \in Hooks, NEW err, NEW d, Onward(Answer(x, err), d),
         1 \in DOMAIN stack => ~Carrying(stack[1]), Produce(x, err),
         x.fn = "_read" => ~Promised' /\ (rs[r].ended => rs[r].destroyed),
         OneRead, Promised' => Promised,
         UNCHANGED <<rs, listeners, use, calls, got, it>>
  PROVE  RInv'
<1>1. CASE x.fn = "_read" /\ ~err /\ ~rs[r].destroyed
  <2>1. Answer(x, err) = NextRead
    BY <1>1 DEF Answer, Then
  <2>2. produced' = IF produced < Total THEN produced + 1 ELSE produced
    BY <1>1 DEF Produce
  <2> QED BY <1>1, <2>1, <2>2, SourcePushes
<1>2. CASE ~(x.fn = "_read" /\ ~err /\ ~rs[r].destroyed)
  <2>1. PICK P : P = Answer(x, err)
    OBVIOUS
  <2>2. produced' = produced
    BY <1>2 DEF Produce
  <2>3. AllAside(P)
    <3>1. CASE x.fn = "_read" /\ err
      <4>1. P = <<CallE("destroy", r, TRUE)>>
        BY <2>1, <3>1 DEF Answer
      <4> QED BY <4>1, AsideCalls DEF Loud
    <3>2. CASE x.fn = "_read" /\ ~err
      <4>1. P = <<>>
        BY <1>2, <2>1, <3>2 DEF Answer, Then
      <4> QED BY <4>1, AsideCalls
    <3>3. CASE x.fn = "_write"
      <4>1. P = <<CallE("onwrite", w, err)>>
        BY <2>1, <3>3 DEF Answer
      <4> QED BY <4>1, AsideCalls DEF Loud
    <3>4. CASE x.fn = "_final"
      <4>1. P = <<CallE("finalDone", w, err)>>
        BY <2>1, <3>4 DEF Answer
      <4> QED BY <4>1, AsideCalls DEF Loud
    <3>5. CASE x.fn = "_destroy"
      <4>1. P = <<CallE("closed", x.s, x.err \/ err)>>
        BY <2>1, <3>5 DEF Answer
      <4> QED BY <4>1, AsideCalls DEF Loud
    <3> QED BY <3>1, <3>2, <3>3, <3>4, <3>5 DEF Hooks
  <2>4. SameReader /\ SameDebt /\ calls' \in 0..MaxCalls
    BY SameReaderKept DEF SameReader, SameDebt, ReaderKept, RInv, Asking, Promised, ReaderTypes
  <2>5. Onward(P, d)
    BY <2>1
  <2> QED BY <2>2, <2>3, <2>4, <2>5, AsideFollows, StillStep
<1> QED BY <1>1, <1>2

LEMMA CalledMoves ==
  ASSUME Inv, RInv, SubclassCalled
  PROVE  RInv'
<1>1. PICK x : x = top
  OBVIOUS
<1>2. /\ x = stack[1] /\ 1 \in DOMAIN stack /\ IsSeq(stack) /\ stack # <<>> /\ x.fn \in Hooks
      /\ Running(x.fn)
  <2>1. stack # <<>> /\ top.fn \in Hooks
    BY DEF SubclassCalled
  <2>2. Running(top.fn)
    BY <2>1 DEF Running
  <2> QED BY <1>1, <2>1, <2>2, Top
<1>3. x.fn = "_read" => ~Promised /\ rs[r].reading /\ ~rs[r].ended /\ ~rs[r].destroyed
  BY <1>2 DEF RInv, Fetching, Sharp, AtTop
<1>4. UNCHANGED <<rs, listeners, use, calls, got, it>> /\ calls' \in 0..MaxCalls
  BY DEF SubclassCalled, RInv, ReaderTypes
<1>5. ~Carrying(stack[1])
  BY <1>2 DEF Carrying, Delivers, Brings, Hooks
<1>6. ASSUME NEW P, IsSeq(P), Continue(P) PROVE Onward(P, 1)
  BY <1>2, <1>6, RunsOnward DEF Hooks
<1>7. ASSUME NEW err \in BOOLEAN, Continue(Answer(top, err)), Produce(top, err), io' = io
      PROVE  RInv'
  <2>1. OneRead /\ (Promised' => Promised)
    BY <1>7 DEF RInv, Asking, OneRead, Promised
  <2>2. IsSeq(Answer(x, err))
    <3>1. x.fn # "_destroy" => IsSeq(Answer(x, err))
      BY <1>2, PlainAnswer DEF AllPlain
    <3>2. x.fn = "_destroy" => IsSeq(Answer(x, err))
      BY <1>2, PlainAnswer, Short
    <3> QED BY <3>1, <3>2
  <2>3. Onward(Answer(x, err), 1) /\ Produce(x, err)
    BY <1>1, <1>6, <1>7, <2>2
  <2> QED BY <1>2, <1>3, <1>4, <1>5, <2>1, <2>3, AnswerMoves
<1>8. ASSUME io' = Append(io, top), Continue(<<>>), produced' = produced
      PROVE  RInv'
  <2>1. PICK P : P = <<>>
    OBVIOUS
  <2>2. AllAside(P) /\ Continue(P)
    BY <1>8, <2>1, AsideCalls
  <2>3. Onward(P, 1)
    BY <1>6, <2>2 DEF AllAside
  <2>4. \A k \in DOMAIN io' : \/ k \in DOMAIN io /\ io'[k] = io[k]
                              \/ k = Len(io) + 1 /\ io'[k] = x
    BY <1>1, <1>8, DebtAdded
  <2>5. OneRead
    BY <1>3, <2>4 DEF RInv, Asking, OneRead, Promised
  <2>6. Promised' => Promised \/ (rs'[r].reading /\ ~rs'[r].ended)
    BY <1>3, <1>4, <2>4 DEF Promised
  <2>7. SameReader /\ SameDebt
    BY <1>4, <2>5, <2>6, SameReaderKept DEF SameReader, SameDebt, ReaderKept, RInv, Asking
  <2> QED BY <1>4, <1>5, <1>8, <2>2, <2>3, <2>7, AsideFollows, StillStep
<1>9. ASSUME top.fn = "_read", Continue(<<CallC("push", r, Empty)>>), io' = io,
             produced' = produced
      PROVE  RInv'
  <2>1. PICK f : f = CallC("push", r, Empty)
    OBVIOUS
  <2>2. PICK P : P = <<f>>
    OBVIOUS
  <2>3. IsSeq(P) /\ Continue(P) /\ \A k \in 1..Len(P) : k = 1 /\ P[k] = f
    BY <1>9, <2>1, <2>2, Short
  <2>4. f.fn = "push" /\ f.c = Empty /\ Empty \in Int /\ Empty # Eof
    BY <2>1 DEF CallC, Empty, Eof
  <2>5. ~Promised'
    BY <1>1, <1>3, <1>9 DEF Promised
  <2>6. Fetches(f)' /\ AtTop(f)' /\ ~Joins(f) /\ ~Carrying(f)
    BY <1>1, <1>3, <1>4, <1>9, <2>4, <2>5
    DEF Fetches, AtTop, Joins, Carrying, Delivers, Brings
  <2>7. Follow(P) /\ NoCarrier(P)
    BY <2>3, <2>4, <2>6 DEF Follow, NoCarrier
  <2>8. SameReader /\ SameDebt
    BY <1>4, <1>9, SameReaderKept, KeptReader
  <2>9. Onward(P, 1)
    BY <1>6, <2>3
  <2> QED BY <1>4, <1>5, <1>9, <2>7, <2>8, <2>9, StillStep
<1> QED BY <1>7, <1>8, <1>9 DEF SubclassCalled

LEMMA AnswersMove ==
  ASSUME Inv, RInv, NEW i \in DOMAIN io, SubclassAnswers(i)
  PROVE  RInv'
<1>1. PICK x : x = io[i]
  OBVIOUS
<1>2. /\ stack = <<>> /\ io' = RemoveAt(io, i) /\ x.fn \in Hooks
      /\ UNCHANGED <<rs, listeners, use, calls, got, it>>
  BY <1>1 DEF SubclassAnswers, Inv, Calls, Owed
<1>3. PICK err \in BOOLEAN : stack' = Answer(x, err) /\ Produce(x, err)
  BY <1>1 DEF SubclassAnswers
<1>4. /\ \A k \in DOMAIN io' : \E m \in DOMAIN io : m # i /\ io'[k] = io[m]
      /\ \A k, l \in DOMAIN io' : \E m, n \in DOMAIN io :
           io'[k] = io[m] /\ io'[l] = io[n] /\ (m = n => k = l)
  BY <1>2, DebtPaid
<1>5. OneRead
  BY <1>4 DEF RInv, Asking, OneRead
<1>6. Promised' => Promised
  BY <1>4 DEF Promised
<1>7. x.fn = "_read" => ~Promised' /\ (rs[r].ended => rs[r].destroyed)
  BY <1>1, <1>4 DEF RInv, Asking, Promised
<1>8. IsSeq(Answer(x, err))
  <2>1. x.fn # "_destroy" => IsSeq(Answer(x, err))
    BY <1>2, PlainAnswer DEF AllPlain
  <2>2. x.fn = "_destroy" => IsSeq(Answer(x, err))
    BY <1>2, PlainAnswer, Short
  <2> QED BY <2>1, <2>2
<1>9. Onward(Answer(x, err), 0)
  <2>1. PICK P : P = Answer(x, err)
    OBVIOUS
  <2>2. IsSeq(P) /\ stack' = P
    BY <1>3, <1>8, <2>1
  <2>3. P \o <<>> = P
    BY <2>2 DEF IsSeq
  <2>4. Shifted(P, 0)
    BY <1>2, <2>2, <2>3, Pushed, Short
  <2> QED BY <1>2, <2>1, <2>4 DEF Onward
<1>10. 1 \in DOMAIN stack => ~Carrying(stack[1])
  BY <1>2
<1> QED BY <1>2, <1>3, <1>5, <1>6, <1>7, <1>9, <1>10, AnswerMoves

-----------------------------------------------------------------------------
(* User code and its iterator. *)

\* A step outside the library: a chunk on its way to user code, if there is
\* one, arrives in its hands or with its iterator.
LEMMA GivenStep ==
  ASSUME Inv, RInv, NEW P, NEW d, Onward(P, d), Follow(P), NoCarrier(P),
         UNCHANGED <<rs, listeners, use, io, produced>>,
         ReaderTypes', it.open => it'.open, it.returned => it'.returned, ~Arriving,
         Given' = Sent, Counts(got, 0)', Counts(it.queue, Len(got))'
  PROVE  RInv'
<1>1. ~InFlight' /\ ~Arriving'
  <2>1. 1 \in 1..Len(P) => ~Delivers(P[1]) /\ ~Brings(P[1])
    BY DEF NoCarrier, Carrying
  <2> QED BY <2>1, TopNext DEF RInv
<1>2. /\ Sent \in Nat /\ Given \in Nat /\ Buffered \in Nat /\ Len(rs[r].buffer) \in Nat
      /\ Sent = IF InFlight THEN Given + 1 ELSE Given
      /\ Buffered = Sent + Len(rs[r].buffer)
  BY Sizes DEF RInv
<1>3. Sent' = Sent /\ Buffered' = Buffered /\ One(Arriving)' = One(Arriving)
  BY <1>1, <1>2 DEF Sent, Buffered, One
<1>4. InLine'
  BY <1>1, <1>3 DEF RInv, InLine, Counts
<1>5. Ending'
  <2>1. rs[r].endEmitted => Given' = Total
    <3> SUFFICES ASSUME rs[r].endEmitted PROVE Sent = Total
      OBVIOUS
    <3>2. Given = Total
      BY DEF RInv, Ending
    <3>3. One(Arriving) = 0 /\ produced = Buffered + One(Arriving) /\ produced \in 0..Total
      BY DEF RInv, InLine, ReaderTypes, One
    <3>4. Given = Sent \/ Sent = Given + 1
      BY <1>2
    <3>5. PICK a \in Nat, b \in Nat, c \in Nat :
            a = Given /\ b = Sent /\ c = Len(rs[r].buffer)
      BY <1>2
    <3>6. (a = b \/ b = a + 1) /\ b + c <= a
      <4>1. produced = Buffered /\ produced <= Total
        <5>1. Buffered \in Nat
          BY <1>2
        <5>2. Total \in Nat
          BY UserAssumption
        <5> QED BY <3>3, <5>1, <5>2
      <4>2. Buffered = b + c /\ Total = a
        BY <1>2, <3>2, <3>5
      <4> QED BY <3>4, <3>5, <4>1, <4>2
    <3>7. a = b
      BY <3>6
    <3> QED BY <3>2, <3>5, <3>7
  <2> QED BY <2>1 DEF RInv, Ending
<1>6. SameDebt
  BY DEF RInv, Asking, SameDebt, OneRead, Promised
<1> QED BY <1>4, <1>5, <1>6, AskingKept, HearingKept, FetchingKept DEF RInv

LEMMA ReturnsMove ==
  ASSUME Inv, RInv, UserReturns \/ CallbackRuns
  PROVE  RInv'
<1>1. UNCHANGED <<rs, listeners, io, use, it, got, produced, calls>>
  BY DEF UserReturns, CallbackRuns, userVars
<1>2. AllAside(<<>>) /\ \A a : AllAside(Then(a, <<User(w)>>))
  BY AsideCalls DEF User, Loud
<1>3. SameReader /\ SameDebt
  BY <1>1, SameReaderKept, KeptReader
<1>4. CASE UserReturns
  <2>1. Running("user") /\ Continue(<<>>)
    BY <1>4 DEF UserReturns
  <2> QED BY <1>1, <1>2, <1>3, <2>1, AsideStep
<1>5. CASE CallbackRuns
  <2>1. Running("callback") /\ \E a : Continue(Then(a, <<User(w)>>))
    BY <1>5 DEF CallbackRuns
  <2> QED BY <1>1, <1>2, <1>3, <2>1, AsideStep
<1> QED BY <1>4, <1>5

\* A chunk arrives in the hands of user code.
LEMMA ArrivesMoves ==
  ASSUME Inv, RInv, DataArrives
  PROVE  RInv'
<1>1. /\ Running("userData") /\ top = stack[1] /\ 1 \in DOMAIN stack
      /\ stack[1].fn = "userData" /\ IsSeq(stack) /\ stack # <<>>
  BY Top DEF DataArrives
<1>2. PICK P : P = <<User(r)>>
  OBVIOUS
<1>3. /\ got' = Append(got, top.c) /\ Continue(P)
      /\ UNCHANGED <<rs, listeners, io, use, it, produced, calls>>
  BY <1>2 DEF DataArrives
<1>4. AllAside(P)
  BY <1>2, AsideCalls DEF User, Loud
<1>5. Onward(P, 1) /\ Follow(P) /\ NoCarrier(P)
  BY <1>1, <1>3, <1>4, RunsOnward, AsideFollows DEF AllAside
<1>6. InFlight /\ ~Arriving /\ use = "data" /\ ReaderTypes /\ InLine
  BY <1>1 DEF InFlight, Arriving, Delivers, Brings, RInv, Fetching, Fetches
<1>7. it.queue = <<>>
  <2>1. it = NoIterator
    BY <1>6 DEF ReaderTypes
  <2> QED BY <2>1 DEF NoIterator
<1>8. Given = Len(got) /\ Sent = Given + 1 /\ Len(got) \in Nat
  BY <1>6, <1>7, Sizes
<1>9. got' \in Seq(Nat) /\ Len(got') = Len(got) + 1 /\ Counts(got', 0)
  <2>1. top.c = 0 + Len(got) + 1 /\ 0 \in Nat
    BY <1>1, <1>6, <1>8 DEF InLine
  <2>2. got \in Seq(Nat) /\ Counts(got, 0)
    BY <1>6 DEF ReaderTypes, InLine
  <2> QED BY <1>3, <2>1, <2>2, CountsOn
<1>10. ReaderTypes'
  BY <1>3, <1>6, <1>9 DEF ReaderTypes
<1>11. Given' = Sent
  BY <1>3, <1>7, <1>8, <1>9 DEF Given
<1>12. Counts(got, 0)' /\ Counts(it.queue, Len(got))'
  BY <1>3, <1>7, <1>9 DEF Counts
<1> QED BY <1>3, <1>5, <1>6, <1>10, <1>11, <1>12, GivenStep

LEMMA ItDataMoves ==
  ASSUME Inv, RInv, it.waiters > 0 => it.queue = <<>>, ItData,
         UNCHANGED <<rs, listeners, use, calls, io, produced>>
  PROVE  RInv'
<1>1. /\ Running("itData") /\ top = stack[1] /\ 1 \in DOMAIN stack
      /\ stack[1].fn = "itData" /\ IsSeq(stack) /\ stack # <<>>
  BY Top DEF ItData
<1>2. PICK P : P = <<>>
  OBVIOUS
<1>3. PICK c : c = top.c
  OBVIOUS
<1>4. Continue(P) /\ AllAside(P)
  BY <1>2, AsideCalls DEF ItData
<1>5. Onward(P, 1) /\ Follow(P) /\ NoCarrier(P)
  BY <1>1, <1>4, RunsOnward, AsideFollows DEF AllAside
<1>6. InFlight /\ ~Arriving /\ use = "iterate" /\ ReaderTypes /\ InLine
  BY <1>1 DEF InFlight, Arriving, Delivers, Brings, RInv, Fetching, Fetches
<1>7. /\ got \in Seq(Nat) /\ it \in Iterator /\ it.queue \in Seq(Nat) /\ it.waiters \in Nat
      /\ Counts(got, 0) /\ Counts(it.queue, Len(got)) /\ c = Given + 1
      /\ Len(got) \in Nat /\ Len(it.queue) \in Nat /\ Given = Len(got) + Len(it.queue)
      /\ Sent = Given + 1 /\ c \in Nat
  BY <1>1, <1>3, <1>6, Sizes DEF ReaderTypes, InLine, Iterator
<1>8. CASE it.waiters > 0
  <2>1. it' = [it EXCEPT !.waiters = @ - 1] /\ got' = Append(got, c)
    BY <1>3, <1>7, <1>8 DEF ItData
  <2>2. /\ it' \in Iterator /\ it'.queue = it.queue /\ it.queue = <<>>
        /\ it'.open = it.open /\ it'.returned = it.returned
    <3>1. it.queue = <<>> /\ it.waiters - 1 \in Nat
      BY <1>7, <1>8
    <3>2. it' \in Iterator
      BY <1>7, <2>1, <3>1 DEF Iterator
    <3> QED BY <1>7, <2>1, <3>1, <3>2 DEF Iterator
  <2>3. got' \in Seq(Nat) /\ Len(got') = Len(got) + 1 /\ Counts(got', 0)
    <3>1. c = Len(got) + 1 /\ Len(got) \in Nat
      BY <1>7, <2>2
    <3>2. c = 0 + Len(got) + 1 /\ 0 \in Nat
      BY <3>1
    <3>3. got \in Seq(Nat) /\ Counts(got, 0) /\ got' = Append(got, c)
      BY <1>7, <2>1
    <3> QED BY <3>2, <3>3, CountsOn
  <2>4. ReaderTypes'
    BY <1>6, <2>2, <2>3 DEF ReaderTypes
  <2>5. Given' = Sent
    BY <1>7, <2>2, <2>3 DEF Given
  <2>6. Counts(got, 0)' /\ Counts(it.queue, Len(got))'
    BY <2>2, <2>3 DEF Counts
  <2> QED BY <1>5, <1>6, <2>2, <2>4, <2>5, <2>6, GivenStep
<1>9. CASE it.waiters = 0
  <2>1. it' = [it EXCEPT !.queue = Append(@, c)] /\ got' = got
    BY <1>3, <1>7, <1>9 DEF ItData
  <2>2. /\ it'.queue = Append(it.queue, c)
        /\ it'.open = it.open /\ it'.returned = it.returned
    BY <1>7, <2>1 DEF Iterator
  <2>3. /\ it'.queue \in Seq(Nat) /\ Len(it'.queue) = Len(it.queue) + 1
        /\ Counts(it'.queue, Len(got))
    <3>1. c = Len(got) + Len(it.queue) + 1
      BY <1>7
    <3> QED BY <1>7, <2>2, <3>1, CountsOn
  <2>4. it' \in Iterator
    BY <1>7, <2>1, <2>3 DEF Iterator
  <2>5. ReaderTypes'
    BY <1>6, <2>1, <2>4 DEF ReaderTypes
  <2>6. Given' = Sent
    BY <1>7, <2>1, <2>3 DEF Given
  <2>7. Counts(got, 0)' /\ Counts(it.queue, Len(got))'
    BY <1>7, <2>1, <2>3 DEF Counts
  <2> QED BY <1>5, <1>6, <2>2, <2>5, <2>6, <2>7, GivenStep
<1> QED BY <1>7, <1>8, <1>9

\* The iterator changes what it knows, and no chunk moves.
LEMMA IteratorRun ==
  ASSUME Inv, RInv, NEW f \in {"iterate", "itEnd", "itError", "itNext", "itReturn"}, Running(f),
         NEW P, IsSeq(P), Continue(P), Follow(P), NoCarrier(P),
         UNCHANGED <<rs, listeners, use, calls, io, produced, got>>,
         it' \in Iterator, it'.queue = it.queue, it.open => it'.open,
         it.returned => it'.returned
  PROVE  RInv'
<1>1. /\ top = stack[1] /\ 1 \in DOMAIN stack /\ stack[1].fn = f
  BY Top
<1>2. Onward(P, 1)
  BY <1>1, RunsOnward
<1>3. ~InFlight /\ ~Arriving /\ use = "iterate" /\ ReaderTypes /\ InLine
  BY <1>1 DEF InFlight, Arriving, Delivers, Brings, RInv, Fetching, Fetches
<1>4. ReaderTypes'
  BY <1>3 DEF ReaderTypes
<1>5. Given' = Sent
  BY <1>3, Sizes DEF Given
<1>6. Counts(got, 0)' /\ Counts(it.queue, Len(got))'
  BY <1>3 DEF InLine, Counts
<1> QED BY <1>2, <1>3, <1>4, <1>5, <1>6, GivenStep

LEMMA ItEndsMove ==
  ASSUME Inv, RInv, ItEnd \/ ItError, UNCHANGED <<rs, listeners, use, calls, io, produced>>
  PROVE  RInv'
<1>1. PICK P : P = <<>>
  OBVIOUS
<1>2. Continue(P) /\ AllAside(P) /\ got' = got
  BY <1>1, AsideCalls DEF ItEnd, ItError
<1>3. IsSeq(P) /\ Follow(P) /\ NoCarrier(P)
  BY <1>2, AsideFollows DEF AllAside
<1>4. it \in Iterator
  BY DEF RInv, ReaderTypes
<1>5. it' \in Iterator /\ it'.queue = it.queue /\ it'.open = it.open /\ it'.returned = it.returned
  <2>1. CASE it' = it
    BY <1>4, <2>1
  <2>2. CASE ItEnd /\ ~it.done
    <3>1. it' = [it EXCEPT !.done = TRUE, !.waiters = 0,
                           !.answers = @ \cup Answered(it.waiters, "done")]
      BY <2>2 DEF ItEnd
    <3> QED BY <1>4, <3>1 DEF Iterator, Answered
  <2>3. CASE ItError /\ ~it.done
    <3>1. it' = [it EXCEPT !.done = TRUE, !.failed = TRUE, !.waiters = 0,
                           !.answers = @ \cup Answered(it.waiters, "failed")]
      BY <2>3 DEF ItError
    <3> QED BY <1>4, <3>1 DEF Iterator, Answered
  <2>4. it.done => it' = it
    BY DEF ItEnd, ItError
  <2> QED BY <2>1, <2>2, <2>3, <2>4
<1>6. Running("itEnd") \/ Running("itError")
  BY DEF ItEnd, ItError
<1> QED BY <1>2, <1>3, <1>5, <1>6, IteratorRun

LEMMA ItNextMoves ==
  ASSUME Inv, RInv, ItNext, UNCHANGED <<rs, listeners, use, calls, io, produced>>
  PROVE  RInv'
<1>1. /\ Running("itNext") /\ top = stack[1] /\ 1 \in DOMAIN stack
      /\ stack[1].fn = "itNext" /\ IsSeq(stack) /\ stack # <<>>
  BY Top DEF ItNext
<1>2. PICK P : P = <<>>
  OBVIOUS
<1>3. Continue(P) /\ AllAside(P)
  BY <1>2, AsideCalls DEF ItNext
<1>4. IsSeq(P) /\ Onward(P, 1) /\ Follow(P) /\ NoCarrier(P)
  BY <1>1, <1>3, RunsOnward, AsideFollows DEF AllAside
<1>5. it \in Iterator /\ ReaderTypes /\ InLine
  BY DEF RInv, ReaderTypes
<1>6. CASE it.queue = <<>>
  <2>1. got' = got
    BY <1>6 DEF ItNext
  <2>2. it' \in Iterator /\ it'.queue = it.queue /\ it'.open = it.open /\ it'.returned = it.returned
    <3>1. CASE it.done
      <4>1. it' = [it EXCEPT !.answers = @ \cup {IF it.failed THEN "failed" ELSE "done"}]
        BY <1>6, <3>1 DEF ItNext
      <4>2. PICK a : a = it.answers \cup {IF it.failed THEN "failed" ELSE "done"}
        OBVIOUS
      <4>3. a \in SUBSET {"done", "failed"}
        BY <1>5, <4>2 DEF Iterator
      <4>4. it' = [it EXCEPT !.answers = a]
        BY <4>1, <4>2
      <4> QED BY <1>5, <4>3, <4>4 DEF Iterator
    <3>2. CASE ~it.done
      <4>1. it' = [it EXCEPT !.waiters = @ + 1]
        BY <1>6, <3>2 DEF ItNext
      <4>2. PICK a \in Nat : a = it.waiters + 1
        BY <1>5 DEF Iterator
      <4>3. it' = [it EXCEPT !.waiters = a]
        BY <4>1, <4>2
      <4> QED BY <1>5, <4>2, <4>3 DEF Iterator
    <3> QED BY <3>1, <3>2
  <2> QED BY <1>1, <1>3, <1>4, <2>1, <2>2, IteratorRun
<1>7. CASE it.queue # <<>>
  <2>1. PICK c : c = Head(it.queue)
    OBVIOUS
  <2>2. got' = Append(got, c) /\ it' = [it EXCEPT !.queue = Tail(@)]
    BY <1>7, <2>1 DEF ItNext
  <2>3. /\ got \in Seq(Nat) /\ it.queue \in Seq(Nat) /\ Len(got) \in Nat
        /\ Counts(got, 0) /\ Counts(it.queue, Len(got)) /\ Len(it.queue) \in Nat
        /\ Given = Len(got) + Len(it.queue) /\ Given \in Nat
    BY <1>5, Sizes DEF ReaderTypes, InLine, Iterator
  <2>4. ~InFlight /\ ~Arriving /\ Sent = Given /\ use = "iterate"
    <3>1. ~InFlight /\ ~Arriving /\ use = "iterate"
      BY <1>1 DEF InFlight, Arriving, Delivers, Brings, RInv, Fetching, Fetches
    <3> QED BY <1>5, <3>1, Sizes
  <2>5. /\ it'.queue = Tail(it.queue) /\ it'.open = it.open /\ it'.returned = it.returned
    BY <1>5, <2>2 DEF Iterator
  <2>6. /\ it'.queue \in Seq(Nat) /\ Len(it'.queue) = Len(it.queue) - 1
        /\ Counts(it'.queue, Len(got) + 1)
    BY <1>7, <2>3, <2>5, CountsOff
  <2>7. got' \in Seq(Nat) /\ Len(got') = Len(got) + 1 /\ Counts(got', 0)
    <3>1. Len(it.queue) > 0
      BY <1>7, <2>3, Counted
    <3>2. c = Len(got) + 1
      BY <2>1, <2>3, <3>1, Counted
    <3>3. c = 0 + Len(got) + 1 /\ 0 \in Nat
      BY <2>3, <3>2
    <3> QED BY <2>2, <2>3, <3>3, CountsOn
  <2>8. it' \in Iterator
    BY <1>5, <2>2, <2>5, <2>6 DEF Iterator
  <2>9. ReaderTypes'
    BY <1>5, <2>4, <2>7, <2>8 DEF ReaderTypes
  <2>10. Given' = Sent
    <3>1. PICK m : m = Len(it.queue)
      OBVIOUS
    <3>2. PICK n : n = Len(got)
      OBVIOUS
    <3>3. m \in Nat /\ n \in Nat /\ Len(it'.queue) = m - 1 /\ Len(got') = n + 1 /\ Sent = n + m
      BY <2>3, <2>4, <2>6, <2>7, <3>1, <3>2
    <3>4. (n + 1) + (m - 1) = n + m
      BY <3>3
    <3> QED BY <3>3, <3>4 DEF Given
  <2>11. Counts(got, 0)' /\ Counts(it.queue, Len(got))'
    BY <2>6, <2>7 DEF Counts
  <2> QED BY <1>4, <2>4, <2>5, <2>9, <2>10, <2>11, GivenStep
<1> QED BY <1>6, <1>7

\* The calls by which an iterator adds and removes its listeners.
LEMMA FourInOrder ==
  /\ IsSeq(InOrder(OnCall)) /\ Len(InOrder(OnCall)) = 4
  /\ IsSeq(InOrder(OffCall)) /\ Len(InOrder(OffCall)) = 4
  /\ InOrder(OnCall)[1] = OnCall(r, "data", Call("itData", r))
  /\ InOrder(OnCall)[2] = OnCall(r, "end", Call("itEnd", r))
  /\ InOrder(OnCall)[3] = OnCall(r, "error", Call("itError", r))
  /\ InOrder(OnCall)[4] = OnCall(r, "close", Call("itEnd", r))
  /\ \A k \in 1..4 : \E ev \in Events : InOrder(OffCall)[k] = OffCall(r, ev, IteratorListens[ev])
<1>1. PICK evs : evs = <<"data", "end", "error", "close">>
  OBVIOUS
<1>2. /\ evs[1] = "data" /\ evs[2] = "end" /\ evs[3] = "error" /\ evs[4] = "close"
  BY <1>1
<1>3. /\ IteratorListens["data"] = Call("itData", r) /\ IteratorListens["end"] = Call("itEnd", r)
      /\ IteratorListens["error"] = Call("itError", r) /\ IteratorListens["close"] = Call("itEnd", r)
  BY DEF IteratorListens
<1>4. PICK on : on = [i \in 1..4 |-> OnCall(r, evs[i], IteratorListens[evs[i]])]
  OBVIOUS
<1>5. PICK off : off = [i \in 1..4 |-> OffCall(r, evs[i], IteratorListens[evs[i]])]
  OBVIOUS
<1>6. on = InOrder(OnCall) /\ off = InOrder(OffCall)
  BY <1>1, <1>4, <1>5 DEF InOrder
<1>7. /\ on[1] = OnCall(r, "data", Call("itData", r)) /\ on[2] = OnCall(r, "end", Call("itEnd", r))
      /\ on[3] = OnCall(r, "error", Call("itError", r)) /\ on[4] = OnCall(r, "close", Call("itEnd", r))
  BY <1>2, <1>3, <1>4
<1>8. \A k \in 1..4 : \E ev \in Events : off[k] = OffCall(r, ev, IteratorListens[ev])
  <2>1. \A k \in 1..4 : evs[k] \in Events
    BY <1>2 DEF Events
  <2> QED BY <1>5, <2>1
<1>9. IsSeq(on) /\ IsSeq(off)
  BY <1>6, IteratorListeners DEF AllPlain
<1>10. Len(on) = 4 /\ Len(off) = 4
  <2>1. DOMAIN on = 1..4 /\ DOMAIN off = 1..4
    BY <1>4, <1>5
  <2>2. PICK m \in Nat, n \in Nat : m = Len(on) /\ n = Len(off) /\ 1..m = 1..4 /\ 1..n = 1..4
    BY <1>9, <2>1, Indexed
  <2> QED BY <2>2
<1> QED BY <1>6, <1>7, <1>8, <1>9, <1>10

LEMMA ItReturnMoves ==
  ASSUME Inv, RInv, ItReturn, UNCHANGED <<rs, listeners, use, calls, io, produced>>
  PROVE  RInv'
<1>1. Running("itReturn")
  BY DEF ItReturn
<1>2. PICK P : P = InOrder(OffCall)
  OBVIOUS
<1>3. Continue(P) /\ got' = got /\ it' = [it EXCEPT !.done = TRUE, !.returned = TRUE]
  BY <1>2 DEF ItReturn
<1>4. it' \in Iterator /\ it'.queue = it.queue /\ it'.open = it.open /\ it'.returned
  BY <1>3 DEF RInv, ReaderTypes, Iterator
<1>5. IsSeq(P) /\ Len(P) = 4
  BY <1>2, FourInOrder
<1>6. ASSUME NEW k \in 1..Len(P)
      PROVE  Fetches(P[k])' /\ ~Sharp(P[k]) /\ ~Joins(P[k]) /\ P[k].fn # "resume" /\ ~Carrying(P[k])
  <2>1. P[k].fn = "off"
    <3>1. k \in 1..4
      BY <1>5
    <3>2. PICK ev \in Events : P[k] = OffCall(r, ev, IteratorListens[ev])
      BY <1>2, <3>1, FourInOrder
    <3> QED BY <3>2 DEF OffCall
  <2> QED BY <1>4, <2>1 DEF Fetches, Sharp, Joins, Carrying, Delivers, Brings
<1>7. Follow(P) /\ NoCarrier(P)
  BY <1>6 DEF Follow, NoCarrier
<1> QED BY <1>1, <1>3, <1>4, <1>5, <1>7, IteratorRun

LEMMA IterateMoves ==
  ASSUME Inv, RInv, Iterate, UNCHANGED <<rs, listeners, use, calls, io, produced>>
  PROVE  RInv'
<1>1. /\ Running("iterate") /\ top = stack[1] /\ 1 \in DOMAIN stack
      /\ stack[1].fn = "iterate" /\ IsSeq(stack) /\ stack # <<>>
  BY Top DEF Iterate
<1>2. PICK on : on = InOrder(OnCall)
  OBVIOUS
<1>3. PICK P : P = on \o <<Call("resume", r)>>
  OBVIOUS
<1>4. Continue(P) /\ got' = got /\ it' = [it EXCEPT !.open = TRUE]
  BY <1>2, <1>3 DEF Iterate
<1>5. it' \in Iterator /\ it'.queue = it.queue /\ it'.open /\ it'.returned = it.returned
  BY <1>4 DEF RInv, ReaderTypes, Iterator
<1>6. /\ IsSeq(P) /\ Len(P) = 5
      /\ P[1] = OnCall(r, "data", Call("itData", r)) /\ P[2] = OnCall(r, "end", Call("itEnd", r))
      /\ P[3] = OnCall(r, "error", Call("itError", r)) /\ P[4] = OnCall(r, "close", Call("itEnd", r))
      /\ P[5] = Call("resume", r)
  <2>1. PICK z : z = <<Call("resume", r)>>
    OBVIOUS
  <2>2. IsSeq(z) /\ Len(z) = 1 /\ z[1] = Call("resume", r)
    BY <2>1, Short
  <2>3. IsSeq(on) /\ Len(on) = 4
    BY <1>2, FourInOrder
  <2>4. /\ IsSeq(on \o z) /\ Len(on \o z) = Len(on) + Len(z)
        /\ \A k \in 1..Len(on) : (on \o z)[k] = on[k]
        /\ \A k \in 1..Len(z) : (on \o z)[k + Len(on)] = z[k]
    <3>1. IsSeq(on) /\ IsSeq(z)
      BY <2>2, <2>3
    <3> QED BY <3>1, Joined
  <2>5. P = on \o z
    BY <1>3, <2>1
  <2>6. /\ IsSeq(P) /\ Len(P) = 5 /\ (\A k \in 1..4 : P[k] = on[k])
        /\ \A k \in 1..1 : P[k + 4] = z[k]
    BY <2>2, <2>3, <2>4, <2>5
  <2>7. P[1] = on[1] /\ P[2] = on[2] /\ P[3] = on[3] /\ P[4] = on[4] /\ P[5] = z[1]
    BY <2>6
  <2> QED BY <1>2, <2>2, <2>6, <2>7, FourInOrder
<1>7. use = "iterate" /\ ~it.open
  BY <1>1 DEF RInv, Fetching, Fetches, Sharp, AtTop
<1>8. DataListeners = <<>>
  <2>1. IsSeq(DataListeners)
    BY OneStream DEF DataListeners, Inv, Calls, Listening, Events
  <2>2. \A k \in DOMAIN DataListeners : FALSE
    <3>1. SUFFICES ASSUME NEW k \in DOMAIN DataListeners PROVE FALSE
      OBVIOUS
    <3>2. PICK l : l = DataListeners[k]
      OBVIOUS
    <3>3. HeardAt(l, r, "data")
      BY <3>1, <3>2, OneStream DEF RInv, Hearing, DataListeners, Events
    <3>4. l = Call("itData", r)
      BY <1>7, <3>3 DEF HeardAt, Taker
    <3> QED BY <1>7, <3>3, <3>4 DEF HeardAt, Call
  <2>3. Len(DataListeners) \in Nat /\ DOMAIN DataListeners = 1..Len(DataListeners)
    BY <2>1, Indexed
  <2>4. Len(DataListeners) = 0
    <3>1. Len(DataListeners) # 0 => 1 \in 1..Len(DataListeners)
      BY <2>3
    <3> QED BY <2>2, <2>3, <3>1
  <2> QED BY <2>1, <2>4 DEF IsSeq
<1>9. Taker' = Call("itData", r) /\ use' = "iterate" /\ DataListeners' = <<>>
  BY <1>7, <1>8 DEF Taker, DataListeners
<1>10. ASSUME NEW k \in 1..4
       PROVE  /\ P[k].fn = "on" /\ Fetches(P[k])' /\ ~Carrying(P[k]) /\ P[k].fn # "resume"
              /\ Sharp(P[k]) => k = 1 /\ AtTop(P[k])'
  <2>1. PICK f : f = P[k]
    OBVIOUS
  <2>2. \/ k = 1 /\ f = OnCall(r, "data", Call("itData", r))
        \/ k = 2 /\ f = OnCall(r, "end", Call("itEnd", r))
        \/ k = 3 /\ f = OnCall(r, "error", Call("itError", r))
        \/ k = 4 /\ f = OnCall(r, "close", Call("itEnd", r))
    BY <1>6, <2>1
  <2>3. f.fn = "on" /\ f.s = r /\ HeardAt(f.l, f.s, f.ev)'
    <3>1. /\ Call("itData", r).fn = "itData" /\ Call("itEnd", r).fn = "itEnd"
          /\ Call("itError", r).fn = "itError"
      BY DEF Call
    <3>2. f.fn = "on" /\ f.s = r
      BY <2>2 DEF OnCall
    <3>3. \/ f.ev = "data" /\ f.l = Call("itData", r)
          \/ f.ev \in {"end", "close"} /\ f.l = Call("itEnd", r)
          \/ f.ev = "error" /\ f.l = Call("itError", r)
      BY <2>2 DEF OnCall
    <3> QED BY <1>5, <1>9, <3>1, <3>2, <3>3 DEF HeardAt
  <2>4. f.ev = "data" => k = 1
    BY <2>2 DEF OnCall
  <2>5. Fetches(f)' /\ ~Carrying(f) /\ (Sharp(f) => k = 1 /\ AtTop(f)')
    BY <1>9, <2>3, <2>4 DEF Fetches, Sharp, AtTop, Carrying, Delivers, Brings
  <2> QED BY <2>1, <2>3, <2>5
<1>11. P[1].ev = "data" /\ P[1].fn = "on"
  BY <1>6 DEF OnCall
<1>12. P[5].fn = "resume" /\ Fetches(P[5])' /\ ~Sharp(P[5]) /\ ~Carrying(P[5])
  BY <1>6 DEF Call, Fetches, Sharp, Carrying, Delivers, Brings
<1>13. \A k \in 1..Len(P) : k \in 1..4 \/ k = 5
  BY <1>6
<1>14. Follow(P) /\ NoCarrier(P)
  <2>1. \A k \in 1..4 : \A j \in 1..(k - 1) : j \in 1..4
    OBVIOUS
  <2>2. \A j \in 1..(5 - 1) : j \in 1..4
    OBVIOUS
  <2> QED BY <1>10, <1>11, <1>12, <1>13, <2>1, <2>2 DEF Follow, NoCarrier
<1> QED BY <1>1, <1>4, <1>5, <1>6, <1>14, IteratorRun

\* What user code calls.
LEMMA OfferedFetches ==
  ASSUME Inv, RInv, use \in Uses, it.waiters <= calls, calls' = calls + 1, NEW f \in Offered,
         UNCHANGED <<rs, listeners, io, use, it, got, produced>>
  PROVE  /\ Fetches(f)' /\ (Sharp(f) => AtTop(f)') /\ ~Carrying(f)
         /\ f.fn = "resume" => DataListeners' # <<>>
<1>0. use \in {"data", "read", "iterate", "write"}
  BY UserAssumption
<1>1. CASE use = "data"
  <2>1. f \in (IF Listens(r, "data")
                 THEN {OffCall(r, "data", Received), Call("pause", r), Call("resume", r)}
                 ELSE {OnCall(r, "data", Received)})
               \cup {CallE("destroy", r, err) : err \in BOOLEAN}
    BY <1>1, Zenon DEF Offered
  <2>2. CASE /\ Listens(r, "data")
             /\ f \in {OffCall(r, "data", Received), Call("pause", r), Call("resume", r)}
    BY <2>2 DEF Listens, DataListeners, OffCall, Call, Fetches, Sharp, Carrying, Delivers, Brings
  <2>3. CASE ~Listens(r, "data") /\ f = OnCall(r, "data", Received)
    <3>1. f.fn = "on" /\ f.s = r /\ f.ev = "data" /\ f.l = Received
      BY <2>3 DEF OnCall
    <3>2. Taker' = Received /\ Received.fn = "userData" /\ use' = "data"
      BY <1>1 DEF Taker, Received, Call
    <3>3. HeardAt(f.l, f.s, f.ev)'
      BY <3>1, <3>2 DEF HeardAt
    <3>4. DataListeners' = <<>>
      BY <2>3 DEF Listens, DataListeners
    <3> QED BY <3>1, <3>3, <3>4 DEF Fetches, AtTop, Carrying, Delivers, Brings
  <2>4. ASSUME NEW err \in BOOLEAN, f = CallE("destroy", r, err)
        PROVE  Aside(f)
    BY <2>4, AsideCalls DEF Loud
  <2> QED BY <2>1, <2>2, <2>3, <2>4, AsideIsQuiet
<1>2. CASE use = "read"
  <2>1. f \in (IF Listens(r, "readable") THEN {Call("read", r)}
               ELSE {OnCall(r, "readable", User(r))})
              \cup (IF got # <<>> /\ ~rs[r].endEmitted /\ ~rs[r].destroyed
                    THEN {CallC("unshift", r, Last(got))} ELSE {})
              \cup {CallE("destroy", r, TRUE)}
    BY <1>2, Zenon DEF Offered
  <2>2. CASE f = Call("read", r)
    BY <1>2, <2>2 DEF Call, Fetches, Sharp, Carrying, Delivers, Brings
  <2>3. CASE f = OnCall(r, "readable", User(r))
    <3>1. f.fn = "on" /\ f.s = r /\ f.ev = "readable" /\ f.l.fn = "user"
      BY <2>3 DEF OnCall, User, Call
    <3> QED BY <3>1 DEF Fetches, HeardAt, Sharp, Carrying, Delivers, Brings
  <2>4. CASE got # <<>> /\ ~rs[r].endEmitted /\ f = CallC("unshift", r, Last(got))
    <3>1. f.fn = "unshift" /\ f.c = Last(got)
      BY <2>4 DEF CallC
    <3>2. got \in Seq(Nat) /\ Counts(got, 0) /\ 0 \in Nat
      BY DEF RInv, ReaderTypes, InLine
    <3>3. Len(got) \in Nat /\ Len(got) > 0
      BY <2>4, <3>2, Counted
    <3>4. Last(got) = Len(got)
      <4>1. Last(got) = 0 + Len(got)
        BY <3>2, <3>3, Counted
      <4> QED BY <3>3, <4>1
    <3> QED BY <1>2, <2>4, <3>1, <3>3, <3>4 DEF Fetches, AtTop, Carrying, Delivers, Brings
  <2>5. f = CallE("destroy", r, TRUE) => Aside(f)
    BY AsideCalls DEF Loud
  <2> QED BY <2>1, <2>2, <2>3, <2>4, <2>5, AsideIsQuiet
<1>3. CASE use = "iterate"
  <2>1. f \in (IF it.open THEN {Call("itNext", r), Call("itReturn", r)}
               ELSE IF rs[r].destroyed THEN {} ELSE {Call("iterate", r)})
              \cup {CallE("destroy", r, err) : err \in BOOLEAN}
    BY <1>3, Zenon DEF Offered
  <2>2. it.waiters < calls'
    BY DEF RInv, ReaderTypes, Iterator
  <2>3. CASE it.open /\ f \in {Call("itNext", r), Call("itReturn", r)}
    <3>1. f.fn \in {"itNext", "itReturn"}
      BY <2>3 DEF Call
    <3> QED BY <1>3, <2>2, <2>3, <3>1 DEF Fetches, Sharp, AtTop, Carrying, Delivers, Brings
  <2>4. CASE ~it.open /\ ~rs[r].destroyed /\ f = Call("iterate", r)
    <3>1. f.fn = "iterate"
      BY <2>4 DEF Call
    <3> QED BY <1>3, <2>4, <3>1 DEF Fetches, Sharp, AtTop, Carrying, Delivers, Brings
  <2>5. ASSUME NEW err \in BOOLEAN, f = CallE("destroy", r, err)
        PROVE  Aside(f)
    BY <2>5, AsideCalls DEF Loud
  <2> QED BY <2>1, <2>3, <2>4, <2>5, AsideIsQuiet
<1>4. CASE use = "write"
  <2>1. f \in {WriteCall(w, calls + 1, TRUE), Call("end", w), Call("cork", w), Call("uncork", w)}
              \cup {CallE("destroy", w, err) : err \in BOOLEAN}
    BY <1>4, Zenon DEF Offered
  <2>2. ASSUME NEW err \in BOOLEAN, f = CallE("destroy", w, err)
        PROVE  Aside(f)
    BY <2>2, AsideCalls DEF Loud
  <2>3. Aside(WriteCall(w, calls + 1, TRUE))
    BY DEF Aside, WriteCall, Loud
  <2>4. Aside(Call("end", w)) /\ Aside(Call("cork", w)) /\ Aside(Call("uncork", w))
    BY AsideCalls DEF Loud
  <2> QED BY <2>1, <2>2, <2>3, <2>4, AsideIsQuiet
<1> QED BY <1>0, <1>1, <1>2, <1>3, <1>4

LEMMA UserCallsMove ==
  ASSUME Inv, RInv, use \in Uses, it.waiters <= calls, UserCalls
  PROVE  RInv'
<1>1. PICK f \in Offered : stack' = <<f>> \o stack
  BY DEF UserCalls
<1>2. PICK P : P = <<f>>
  OBVIOUS
<1>3. /\ (stack = <<>> \/ Running("user")) /\ calls < MaxCalls
      /\ calls' = calls + 1 /\ UNCHANGED <<rs, listeners, io, use, it, got, produced>>
  BY DEF UserCalls
<1>4. 1 \in DOMAIN stack => stack[1].fn = "user"
  <2>1. CASE stack = <<>>
    BY <2>1
  <2>2. CASE Running("user")
    BY <2>2, Top
  <2> QED BY <1>3, <2>1, <2>2
<1>5. IsSeq(P) /\ IsSeq(stack) /\ \A k \in 1..Len(P) : k = 1 /\ P[k] = f
  BY <1>2, Short DEF Inv, Calls
<1>6. Shifted(P, 0)
  BY <1>1, <1>2, <1>5, Pushed
<1>7. Onward(P, 0)
  BY <1>4, <1>6 DEF Onward, Sharp, Joins, Delivers
<1>8. /\ Fetches(f)' /\ (Sharp(f) => AtTop(f)') /\ ~Carrying(f)
      /\ f.fn = "resume" => DataListeners' # <<>>
  BY <1>3, OfferedFetches
<1>9. Follow(P) /\ NoCarrier(P)
  <2>1. \A k \in 1..Len(P) : \A j \in 1..(k - 1) : FALSE
    BY <1>5
  <2> QED BY <1>5, <1>8, <2>1 DEF Follow, NoCarrier
<1>10. 1 \in DOMAIN stack => ~Carrying(stack[1])
  BY <1>4 DEF Carrying, Delivers, Brings
<1>11. SameReader /\ SameDebt
  BY <1>3, SameReaderKept, KeptReader
<1>12. calls' \in 0..MaxCalls
  <2>1. calls < MaxCalls
    BY DEF UserCalls
  <2> QED BY <1>3, <2>1, UserAssumption DEF RInv, ReaderTypes
<1> QED BY <1>3, <1>7, <1>9, <1>10, <1>11, <1>12, StillStep

LEMMA IteratorMoves ==
  ASSUME Inv, RInv, it.waiters > 0 => it.queue = <<>>, IteratorStep,
         UNCHANGED <<rs, listeners>>
  PROVE  RInv'
<1>1. UNCHANGED <<rs, listeners, use, calls, io, produced>>
  BY DEF IteratorStep
<1> QED BY <1>1, IterateMoves, ItDataMoves, ItEndsMove, ItNextMoves, ItReturnMoves DEF IteratorStep

LEMMA NextRInv ==
  ASSUME Inv, WInv, RInv, use \in Uses, Waiters, [Next]_vars
  PROVE  RInv'
<1>0. (it.waiters > 0 => it.queue = <<>>) /\ it.waiters <= calls
  BY DEF Waiters
<1>1. CASE Library
  BY <1>1, LibraryMoves
<1>2. CASE SubclassCalled
  BY <1>2, CalledMoves
<1>3. CASE UserReturns \/ DataArrives \/ CallbackRuns
  BY <1>3, ReturnsMove, ArrivesMoves
<1>4. CASE IteratorStep /\ UNCHANGED <<rs, ws, listeners, ticks, ret, emitted>>
  BY <1>0, <1>4, IteratorMoves
<1>5. CASE UserCalls
  BY <1>0, <1>5, UserCallsMove
<1>6. ASSUME NEW i \in DOMAIN io, SubclassAnswers(i) PROVE RInv'
  BY <1>6, AnswersMove
<1>7. CASE UNCHANGED vars
  <2>1. UNCHANGED <<rs, listeners, stack, io, use, calls, produced, got, it>>
    BY <1>7 DEF vars, streamVars, userVars
  <2>2. ReaderTypes' /\ Ending' /\ Asking'
    BY <2>1 DEF RInv, ReaderTypes, Ending, Asking, Promised, Given
  <2>3. InLine'
    BY <2>1 DEF RInv, InLine, InFlight, Arriving, Delivers, Brings, Counts, Given, Sent, Buffered, One
  <2>4. Hearing'
    BY <2>1, HearingKept DEF RInv
  <2>5. Fetching'
    <3>1. \A k \in DOMAIN stack' : Sharp(stack[k])' <=> Sharp(stack[k])
      BY <2>1 DEF Sharp, Delivers
    <3>2. ASSUME NEW k \in DOMAIN stack' PROVE Fetches(stack[k])' /\ (AtTop(stack[k]) => AtTop(stack[k])')
      BY <2>1 DEF Fetches, HeardAt, Taker, AtTop, Promised, DataListeners, RInv, Fetching
    <3>3. Joining'
      BY <2>1 DEF RInv, Fetching, Joining, Joins, DataListeners
    <3> QED BY <2>1, <3>1, <3>2, <3>3 DEF RInv, Fetching
  <2> QED BY <2>2, <2>3, <2>4, <2>5 DEF RInv
<1> QED BY <1>1, <1>2, <1>3, <1>4, <1>5, <1>6, <1>7 DEF Next, Proceed

LEMMA InitRInv ==
  ASSUME Init
  PROVE  RInv
<1>1. /\ rs = [s \in Readers |-> ReadableState] /\ stack = <<>> /\ io = <<>> /\ got = <<>>
      /\ it = NoIterator /\ produced = 0 /\ calls = 0
      /\ listeners = [s \in Streams |-> [ev \in Events |->
           HalfClosed(s, ev) \o Then(ev \in Lifecycle \cup {"drain"}, <<User(s)>>)]]
  BY DEF Init, StreamInit
<1>2. rs[r] = ReadableState /\ Total \in Nat /\ MaxCalls \in Nat
  BY <1>1, UserAssumption
<1>3. ReaderTypes
  <2>1. ReaderParts \subseteq DOMAIN rs[r] /\ rs[r].buffer = <<>>
    BY <1>2 DEF ReaderParts, ReadableState
  <2>2. it \in Iterator
    BY <1>1 DEF NoIterator, Iterator
  <2>3. got \in Seq(Nat) /\ produced \in 0..Total /\ calls \in 0..MaxCalls
    BY <1>1, <1>2
  <2> QED BY <1>1, <2>1, <2>2, <2>3 DEF ReaderTypes
<1>4. /\ rs[r].buffer = <<>> /\ it.queue = <<>> /\ ~InFlight /\ ~Arriving
      /\ ~rs[r].ended /\ ~rs[r].endEmitted /\ ~rs[r].destroyed /\ ~rs[r].flowing
  BY <1>1, <1>2 DEF ReadableState, NoIterator, InFlight, Arriving
<1>5. Given = 0 /\ Sent = 0 /\ Buffered = 0 /\ One(Arriving) = 0
  BY <1>1, <1>4 DEF Given, Sent, Buffered, One
<1>6. InLine /\ Ending /\ Asking
  BY <1>1, <1>4, <1>5 DEF InLine, Ending, Asking, Promised, Counts
<1>7. ASSUME NEW s \in Streams, NEW ev \in Events, NEW k \in DOMAIN listeners[s][ev]
      PROVE  listeners[s][ev][k].fn \in {"endOther", "pushOther", "user"} /\ ev # "data"
  <2>1. PICK a : a = HalfClosed(s, ev)
    OBVIOUS
  <2>2. PICK b : b = Then(ev \in Lifecycle \cup {"drain"}, <<User(s)>>)
    OBVIOUS
  <2>3. /\ IsSeq(a) /\ \A i \in DOMAIN a : a[i].fn \in {"endOther", "pushOther"} /\ ev # "data"
    <3>1. \/ ev = "end" /\ a = <<[fn |-> "endOther", s |-> s]>>
          \/ ev = "finish" /\ a = <<[fn |-> "pushOther", s |-> s]>>
          \/ a = <<>>
      BY <2>1 DEF HalfClosed
    <3> QED BY <3>1, Short
  <2>4. IsSeq(b) /\ \A i \in DOMAIN b : b[i].fn = "user" /\ ev # "data"
    <3>1. CASE ev \in Lifecycle \cup {"drain"}
      BY <2>2, <3>1, Short DEF Then, User, Call, Lifecycle
    <3>2. CASE ev \notin Lifecycle \cup {"drain"}
      BY <2>2, <3>2, Short DEF Then
    <3> QED BY <3>1, <3>2
  <2>5. listeners[s][ev] = a \o b
    BY <1>1, <2>1, <2>2
  <2>6. k \in DOMAIN (a \o b)
    BY <1>7, <2>5
  <2>7. \/ k \in DOMAIN a /\ (a \o b)[k] = a[k]
        \/ \E i \in DOMAIN b : (a \o b)[k] = b[i]
    BY <2>3, <2>4, <2>6, JoinedOrigin
  <2> QED BY <2>3, <2>4, <2>5, <2>7
<1>8. Hearing
  <2>1. \A s \in Streams, ev \in Events : \A k \in DOMAIN listeners[s][ev] :
          HeardAt(listeners[s][ev][k], s, ev)
    BY <1>7 DEF HeardAt
  <2>2. Len(DataListeners) <= 1
    <3>1. DataListeners = <<>>
      BY <1>1, OneStream DEF DataListeners, HalfClosed, Then, Events, Lifecycle
    <3> QED BY <3>1
  <2> QED BY <1>4, <2>1, <2>2 DEF Hearing
<1>9. Fetching
  BY <1>1 DEF Fetching, Joining
<1> QED BY <1>3, <1>6, <1>8, <1>9 DEF RInv

-----------------------------------------------------------------------------
(* The counters. *)

LEMMA NextWaiters ==
  ASSUME Inv, RInv, Waiters, [Next]_vars
  PROVE  Waiters'
<1>0. it \in Iterator /\ it.waiters \in Nat /\ calls \in Nat
  BY UserAssumption DEF RInv, ReaderTypes, Iterator
<1>1. CASE it' = it /\ calls' = calls
  BY <1>1 DEF Waiters
<1>2. CASE UserCalls
  <2>1. it' = it /\ calls' = calls + 1
    BY <1>2 DEF UserCalls
  <2> QED BY <1>0, <2>1 DEF Waiters
<1>3. ASSUME IteratorStep PROVE Waiters'
  <2>1. calls' = calls
    BY <1>3 DEF IteratorStep
  <2>2. CASE it'.waiters = 0
    BY <1>0, <2>1, <2>2 DEF Waiters
  <2>3. CASE it'.waiters = it.waiters /\ it'.queue = it.queue
    BY <2>1, <2>3 DEF Waiters
  <2>4. CASE Iterate
    BY <1>0, <2>3, <2>4 DEF Iterate, Iterator
  <2>5. CASE ItReturn
    BY <1>0, <2>3, <2>5 DEF ItReturn, Iterator
  <2>6. CASE ItEnd \/ ItError
    <3>1. CASE it.done
      BY <2>3, <2>6, <3>1 DEF ItEnd, ItError
    <3>2. CASE ~it.done
      <4>1. it'.waiters = 0
        BY <1>0, <2>6, <3>2 DEF ItEnd, ItError, Iterator
      <4> QED BY <2>2, <4>1
    <3> QED BY <3>1, <3>2
  <2>7. CASE ItData
    <3>1. CASE it.waiters > 0
      <4>1. it' = [it EXCEPT !.waiters = @ - 1]
        BY <1>0, <2>7, <3>1 DEF ItData
      <4>2. it'.waiters = it.waiters - 1 /\ it'.queue = it.queue /\ it.queue = <<>>
        BY <1>0, <3>1, <4>1 DEF Iterator, Waiters
      <4> QED BY <1>0, <2>1, <4>2 DEF Waiters
    <3>2. CASE it.waiters = 0
      <4>1. it'.waiters = 0
        BY <1>0, <2>7, <3>2 DEF ItData, Iterator
      <4> QED BY <2>2, <4>1
    <3> QED BY <1>0, <3>1, <3>2
  <2>8. CASE ItNext
    <3>1. CASE it.queue # <<>>
      <4>1. it.waiters = 0 /\ it' = [it EXCEPT !.queue = Tail(@)]
        BY <1>0, <2>8, <3>1 DEF ItNext, Waiters
      <4> QED BY <1>0, <2>2, <4>1 DEF Iterator
    <3>2. CASE it.queue = <<>> /\ it.done
      <4>1. it' = [it EXCEPT !.answers = @ \cup {IF it.failed THEN "failed" ELSE "done"}]
        BY <2>8, <3>2 DEF ItNext
      <4> QED BY <1>0, <2>3, <4>1 DEF Iterator
    <3>3. CASE it.queue = <<>> /\ ~it.done
      <4>1. it' = [it EXCEPT !.waiters = @ + 1]
        BY <2>8, <3>3 DEF ItNext
      <4>2. it'.waiters = it.waiters + 1 /\ it'.queue = <<>>
        BY <1>0, <3>3, <4>1 DEF Iterator
      <4>3. it.waiters < calls
        <5>1. Running("itNext")
          BY <2>8 DEF ItNext
        <5>2. 1 \in DOMAIN stack /\ stack[1].fn = "itNext"
          BY <5>1, Top
        <5> QED BY <5>2 DEF RInv, Fetching, Sharp, AtTop
      <4> QED BY <1>0, <2>1, <4>2, <4>3 DEF Waiters
    <3> QED BY <3>1, <3>2, <3>3
  <2> QED BY <1>3, <2>4, <2>5, <2>6, <2>7, <2>8 DEF IteratorStep
<1>4. CASE Library \/ SubclassCalled \/ UserReturns \/ DataArrives \/ CallbackRuns
  BY <1>1, <1>4, Zenon DEF Library, SubclassCalled, UserReturns, DataArrives, CallbackRuns, userVars
<1>5. ASSUME NEW i \in DOMAIN io, SubclassAnswers(i) PROVE Waiters'
  BY <1>1, <1>5 DEF SubclassAnswers
<1>6. CASE UNCHANGED vars
  BY <1>1, <1>6 DEF vars, userVars
<1> QED BY <1>2, <1>3, <1>4, <1>5, <1>6 DEF Next, Proceed

\* No more writes are accepted than calls are made.
LEMMA AcceptedCalls ==
  ASSUME WInv
  PROVE  Len(accepted) <= calls /\ Len(accepted) \in Nat /\ calls \in 0..MaxCalls
<1>1. accepted \in Seq(Numbers) /\ calls \in 0..MaxCalls /\ Numbered
  BY DEF WInv, Ordered, WriterState
<1>2. PICK n \in Nat : n = Len(accepted)
  BY <1>1
<1>3. PICK m \in Nat : m = calls
  BY <1>1, UserAssumption
<1>4. DOMAIN accepted = 1..n /\ accepted = [k \in 1..n |-> accepted[k]]
  BY <1>1, <1>2
<1>5. \A k \in 1..n : accepted[k] \in 1..m
  BY <1>1, <1>3, <1>4 DEF Numbered
<1>6. accepted \in [1..n -> 1..m]
  BY <1>4, <1>5
<1>7. \A k, l \in 1..n : accepted[k] = accepted[l] => k = l
  BY <1>1, <1>4 DEF Numbered
<1>8. accepted \in Injection(1..n, 1..m)
  BY <1>6, <1>7 DEF Injection, IsInjective
<1>9. IsFiniteSet(1..m) /\ Cardinality(1..m) = m /\ Cardinality(1..n) = n
  BY FS_Interval
<1>10. Cardinality(1..n) <= Cardinality(1..m)
  BY <1>8, <1>9, FS_Injection
<1> QED BY <1>1, <1>2, <1>3, <1>9, <1>10

\* While the stream lives, the counters follow from the order of the writes.
LEMMA LiveTally ==
  ASSUME WInv, Live
  PROVE  Tally
<1>1. WriterState /\ WritesKeepOrder
  BY DEF WInv, Ordered
<1>2. PICK cur : cur = Current
  OBVIOUS
<1>3. /\ done \in Seq(Entry) /\ ws[w].pending \in Seq(Entry) /\ ws[w].corkedBuffer \in Seq(Entry)
      /\ cur \in Seq(Entry) /\ Len(cur) = One(Writing(w))
  <2>1. CASE Writing(w)
    <3>1. ws[w].current \in Item
      BY <1>1, <2>1 DEF WriterState, Writing
    <3>2. cur = <<ws[w].current>>
      BY <1>2, <2>1 DEF Current, Then
    <3>3. cur \in Seq(Item) /\ Len(cur) = 1
      BY <3>1, <3>2
    <3> QED BY <1>1, <2>1, <3>3, Entries DEF WriterState, One
  <2>2. CASE ~Writing(w)
    <3>1. cur = <<>>
      BY <1>2, <2>2 DEF Current, Then
    <3>2. cur \in Seq(Item) /\ Len(cur) = 0
      BY <3>1
    <3> QED BY <1>1, <2>2, <3>2, Entries DEF WriterState, One
  <2> QED BY <2>1, <2>2
<1>4. accepted = Chunks(Line(done, cur, ws[w].pending, ws[w].corkedBuffer))
  BY <1>1, <1>2 DEF WritesKeepOrder, Live, Line
<1>5. Len(accepted) = Len(done) + Len(cur) + Len(ws[w].pending) + Len(ws[w].corkedBuffer)
  <2>1. Len(accepted) = Lengths(done, cur, ws[w].pending, ws[w].corkedBuffer)
    <3>1. /\ done \in Seq(Entry) /\ cur \in Seq(Entry) /\ ws[w].pending \in Seq(Entry)
          /\ ws[w].corkedBuffer \in Seq(Entry)
      BY <1>1, <1>3, Entries DEF WriterState
    <3> QED BY <1>4, <3>1, LengthOf
  <2> QED BY <2>1 DEF Lengths
<1>6. ws[w].length = Len(accepted) - Len(done)
  BY <1>1 DEF WritesKeepOrder, Live
<1>7. /\ Len(done) \in Nat /\ Len(cur) \in Nat /\ Len(ws[w].pending) \in Nat
      /\ Len(ws[w].corkedBuffer) \in Nat
  BY <1>3
<1> QED BY <1>3, <1>5, <1>6, <1>7 DEF Tally

\* A step of a stream that is or was just destroyed, in which no write is accepted.
LEMMA TallyKept ==
  ASSUME WInv, Tally, UNCHANGED <<accepted, done>>,
         ws'[w].current = ws[w].current,
         ws'[w].length = ws[w].length \/ ws'[w].length = 0
  PROVE  Tally'
<1>1. One(Writing(w))' = One(Writing(w))
  BY DEF One, Writing
<1>2. Len(accepted) \in Nat
  BY AcceptedCalls
<1> QED BY <1>1, <1>2 DEF Tally

\* What a step of the library writes of the stream that is written.
LEMMA WriterTally ==
  ASSUME Inv, WInv, ws'[w].destroyed,
         WritableStep \/ CorkStep \/ DestroyStep, ~Write, ~OnWrite
  PROVE  /\ ws'[w].current = ws[w].current
         /\ ws'[w].length = ws[w].length \/ ws'[w].length = 0
<1>0. WriterState /\ DOMAIN ws = Writers /\ w \in Writers
  BY OneStream DEF Inv, States, WInv, Ordered
<1>1. CASE ws' = ws
  BY <1>1
<1>2. ASSUME NEW f \in WriterCalls, Running(f) PROVE top.s = w
  BY <1>2, WriterRuns
<1>3. CASE Written \/ AfterWrite
  <2>1. top.s = w
    BY <1>2, <1>3, Zenon DEF Written, AfterWrite, WriterCalls
  <2>2. \E a : ws' = [ws EXCEPT ![w].needDrain = a]
    BY <1>3, <2>1, Zenon DEF Written, AfterWrite
  <2> QED BY <1>0, <2>2 DEF WriterState
<1>4. CASE DoWrite
  <2>1. top.s = w
    BY <1>2, <1>4, Zenon DEF DoWrite, WriterCalls
  <2>2. \/ ws' = ws
        \/ /\ ~ws[w].destroyed
           /\ ws' = [ws EXCEPT ![w].current = Head(ws[w].pending), ![w].pending = Tail(@)]
    BY <1>4, <2>1, Zenon DEF DoWrite
  <2>3. CASE /\ ~ws[w].destroyed
             /\ ws' = [ws EXCEPT ![w].current = Head(ws[w].pending), ![w].pending = Tail(@)]
    <3>1. ws'[w].destroyed = ws[w].destroyed
      BY <1>0, <2>3 DEF WriterState
    <3> QED BY <2>3, <3>1
  <2> QED BY <2>2, <2>3
<1>5. CASE End
  <2>1. top.s = w
    BY <1>2, <1>5, Zenon DEF End, WriterCalls
  <2>2. \E a : ws' = [ws EXCEPT ![w].ended = a]
    BY <1>5, <2>1, Zenon DEF End
  <2> QED BY <1>0, <2>2 DEF WriterState
<1>6. CASE Finish
  <2>1. top.s = w
    BY <1>2, <1>6, Zenon DEF Finish, WriterCalls
  <2>2. \E a : ws' = [ws EXCEPT ![w].finished = a]
    BY <1>6, <2>1, Zenon DEF Finish
  <2> QED BY <1>0, <2>2 DEF WriterState
<1>7. CASE Cork
  <2>1. top.s = w
    BY <1>2, <1>7, Zenon DEF Cork, WriterCalls
  <2>2. ws' = [ws EXCEPT ![w].corked = @ + 1]
    BY <1>7, <2>1, Zenon DEF Cork
  <2> QED BY <1>0, <2>2 DEF WriterState
<1>8. CASE Uncork
  <2>1. top.s = w
    BY <1>2, <1>8, Zenon DEF Uncork, WriterCalls
  <2>2. PICK f : f = (ws[w].corked = 1 /\ ws[w].corkedBuffer # <<>>)
    OBVIOUS
  <2>3. ws' = [ws EXCEPT ![w].corked = IF @ > 0 THEN @ - 1 ELSE 0,
                         ![w].pending = @ \o Then(f, ws[w].corkedBuffer),
                         ![w].corkedBuffer = IF f THEN <<>> ELSE @]
    BY <1>8, <2>1, <2>2, Zenon DEF Uncork
  <2> QED BY <1>0, <2>3 DEF WriterState
<1>9. CASE DropWrites
  <2>1. top.s = w
    BY <1>2, <1>9, Zenon DEF DropWrites, WriterCalls
  <2>2. ws' = [ws EXCEPT ![w].pending = <<>>, ![w].corkedBuffer = <<>>, ![w].length = 0]
    BY <1>9, <2>1, Zenon DEF DropWrites
  <2> QED BY <1>0, <2>2 DEF WriterState
<1>10. CASE Closed
  <2>1. \E s, e : ws' = [x \in Writers |-> IF x = s THEN [ws[x] EXCEPT !.errored = @ \/ e] ELSE ws[x]]
    BY <1>10, Zenon DEF Closed
  <2> QED BY <1>0, <2>1 DEF WriterState
<1>11. CASE Destroy
  <2>1. CASE ws' # ws
    <3>1. ws' = [x \in Writers |->
                   IF x = top.s THEN [ws[x] EXCEPT !.destroyed = TRUE, !.ended = TRUE,
                                                   !.errored = @ \/ top.err]
                   ELSE ws[x]]
      BY <1>11, <2>1, Zenon DEF Destroy
    <3>2. PICK e : e = (ws[top.s].errored \/ top.err)
      OBVIOUS
    <3>3. ws' = [x \in Writers |->
                   IF x = top.s THEN [ws[x] EXCEPT !.destroyed = TRUE, !.ended = TRUE,
                                                   !.errored = e]
                   ELSE ws[x]]
      BY <3>1, <3>2, Zenon
    <3>4. ws'[w] = IF w = top.s THEN [ws[w] EXCEPT !.destroyed = TRUE, !.ended = TRUE,
                                                   !.errored = e]
                   ELSE ws[w]
      BY <1>0, <3>3, Zenon
    <3>5. {"current", "length"} \subseteq DOMAIN ws[w]
      BY <1>0 DEF WriterState
    <3> QED BY <3>4, <3>5
  <2> QED BY <1>1, <2>1
<1>12. MaybeFinish \/ FinalDone \/ AutoDestroy \/ FailNext => ws' = ws
  BY Zenon DEF MaybeFinish, FinalDone, AutoDestroy, FailNext
<1> QED BY <1>1, <1>3, <1>4, <1>5, <1>6, <1>7, <1>8, <1>9, <1>10, <1>11, <1>12
        DEF WritableStep, CorkStep, DestroyStep

LEMMA NextTally ==
  ASSUME Inv, WInv, WInv', Tally, [Next]_vars
  PROVE  Tally'
<1>0. WriterState /\ DOMAIN ws = Writers /\ w \in Writers /\ (ws[w].destroyed => ws[w].ended)
  BY OneStream DEF Inv, States, WInv, Ordered
<1>1. CASE ~ws'[w].destroyed
  <2>1. (WInv /\ Live => Tally)'
    BY LiveTally, PTL
  <2> QED BY <1>1, <2>1 DEF Live
<1>2. CASE ws' = ws /\ accepted' = accepted /\ done' = done
  BY <1>2, TallyKept
<1>3. ASSUME Library, ws'[w].destroyed PROVE Tally'
  <2>1. Observe
    BY <1>3 DEF Library
  <2>2. CASE Write
    <3>1. Running("write") /\ top.s = w
      BY <2>2, WriterRuns DEF Write, WriterCalls
    <3>2. done' = done
      BY <2>1, <3>1 DEF Observe, Running
    <3>3. CASE ws[w].ended
      <4>1. accepted' = accepted
        BY <2>1, <3>1, <3>3 DEF Observe
      <4>2. ws' = ws
        BY <2>2, <3>1, <3>3, Zenon DEF Write
      <4> QED BY <1>2, <3>2, <4>1, <4>2
    <3>4. CASE ~ws[w].ended
      <4>1. PICK x : x = [c |-> top.c, cb |-> top.cb]
        OBVIOUS
      <4>2. \/ ws' = [ws EXCEPT ![w].length = @ + 1, ![w].corkedBuffer = Append(@, x)]
            \/ ws' = [ws EXCEPT ![w].length = @ + 1, ![w].pending = Append(@, x)]
        BY <1>0, <2>2, <3>1, <3>4, <4>1, Zenon DEF Write
      <4>3. ws'[w].destroyed = ws[w].destroyed
        BY <1>0, <4>2 DEF WriterState
      <4> QED BY <1>0, <1>3, <3>4, <4>3
    <3> QED BY <3>3, <3>4
  <2>3. CASE OnWrite
    <3>1. Running("onwrite") /\ top.s = w /\ 1 \in DOMAIN stack /\ stack[1].fn = "onwrite"
      BY <2>3, WriterRuns DEF OnWrite, WriterCalls
    <3>2. Writing(w)
      BY <3>1 DEF WInv, Ordered, OneWrite
    <3>3. \E x : done' = Append(done, x)
      BY <2>1, <3>1 DEF Observe
    <3>4. accepted' = accepted
      BY <2>1, <3>1 DEF Observe, Running
    <3>5. ws' = [ws EXCEPT ![w].current = NoItem, ![w].length = Less(@)]
      BY <2>3, <3>1 DEF OnWrite
    <3>6. ws'[w].current = NoItem /\ ws'[w].length <= ws[w].length /\ ws[w].length \in Nat
          /\ ws'[w].length \in Nat
      BY <1>0, <3>5 DEF WriterState, Less
    <3>7. Len(done') = Len(done) + 1 /\ Len(done) \in Nat
      BY <1>0, <3>3, SeqIsSeq, AppendedTo DEF WriterState
    <3>8. One(Writing(w)) = 1 /\ One(Writing(w))' = 0
      BY <3>2, <3>6 DEF One, Writing
    <3>9. Len(accepted) \in Nat
      BY AcceptedCalls
    <3> QED BY <3>4, <3>6, <3>7, <3>8, <3>9 DEF Tally
  <2>4. CASE ~Running("write") /\ ~Running("onwrite")
    <3>1. accepted' = accepted /\ done' = done
      BY <2>1, <2>4 DEF Observe
    <3>2. CASE EmitStep \/ ReadableStep \/ ReaderCall \/ RunTick
      <4>1. ws' = ws
        BY <3>2, Zenon DEF EmitStep, ReadableStep, Push, MaybeRead, FlowTick, Flow, FlowMore,
           ReadableTick, EmitEnd, ReaderCall, Read, AfterRead, Unshift, On, RemoveListener,
           PauseCall, ResumeCall, RunTick
      <4> QED BY <1>2, <3>1, <4>1
    <3>3. CASE WritableStep \/ CorkStep \/ DestroyStep
      <4>1. ~Write /\ ~OnWrite
        BY <2>4 DEF Write, OnWrite
      <4> QED BY <1>3, <3>1, <3>3, <4>1, WriterTally, TallyKept
    <3> QED BY <1>3, <3>2, <3>3 DEF Library
  <2>5. Write \/ OnWrite \/ (~Running("write") /\ ~Running("onwrite"))
    <3>1. ASSUME Running("write") PROVE Write
      BY <1>3, <3>1 DEF Library, EmitStep, ReadableStep, Push, MaybeRead, FlowTick, Flow, FlowMore,
           ReadableTick, EmitEnd, ReaderCall, Read, AfterRead, Unshift, On, RemoveListener,
           PauseCall, ResumeCall, RunTick, WritableStep, CorkStep, DestroyStep, Written, DoWrite,
             OnWrite, AfterWrite, End, MaybeFinish, FinalDone, Finish, Cork, Uncork, AutoDestroy,
             FailNext, DropWrites, Closed, Destroy, Running
    <3>2. ASSUME Running("onwrite") PROVE OnWrite
      BY <1>3, <3>2 DEF Library, EmitStep, ReadableStep, Push, MaybeRead, FlowTick, Flow, FlowMore,
           ReadableTick, EmitEnd, ReaderCall, Read, AfterRead, Unshift, On, RemoveListener,
           PauseCall, ResumeCall, RunTick, WritableStep, CorkStep, DestroyStep, Written, DoWrite,
             Write, AfterWrite, End, MaybeFinish, FinalDone, Finish, Cork, Uncork, AutoDestroy,
             FailNext, DropWrites, Closed, Destroy, Running
    <3> QED BY <3>1, <3>2
  <2> QED BY <2>2, <2>3, <2>4, <2>5
<1>4. CASE SubclassCalled \/ UserReturns \/ DataArrives \/ CallbackRuns \/ UserCalls
  BY <1>2, <1>4, Zenon DEF SubclassCalled, UserReturns, DataArrives, CallbackRuns, UserCalls, userVars
<1>5. CASE IteratorStep /\ UNCHANGED <<rs, ws, listeners, ticks, ret, emitted>>
  BY <1>2, <1>5, Zenon DEF IteratorStep
<1>6. ASSUME NEW i \in DOMAIN io, SubclassAnswers(i) PROVE Tally'
  BY <1>2, <1>6, Zenon DEF SubclassAnswers
<1>7. CASE UNCHANGED vars
  BY <1>2, <1>7 DEF vars, streamVars, userVars
<1> QED BY <1>1, <1>3, <1>4, <1>5, <1>6, <1>7 DEF Next, Proceed

-----------------------------------------------------------------------------
(* The chunks are conserved. *)

LEMMA CountsJoined ==
  ASSUME NEW p \in Seq(Nat), NEW q \in Seq(Nat), NEW m, Counts(p, 0), Counts(q, m), m = Len(p)
  PROVE  p \o q \in Seq(Nat) /\ Len(p \o q) = Len(p) + Len(q) /\ Counts(p \o q, 0)
<1>1. PICK s : s = p \o q
  OBVIOUS
<1>2. /\ Len(p) \in Nat /\ Len(q) \in Nat /\ IsSeq(p) /\ IsSeq(q) /\ s \in Seq(Nat)
  BY <1>1, SeqIsSeq
<1>3. /\ Len(s) = Len(p) + Len(q)
      /\ \A k \in 1..Len(p) : s[k] = p[k]
      /\ \A k \in 1..Len(q) : s[k + Len(p)] = q[k]
  <2>1. IsSeq(p) /\ IsSeq(q)
    BY <1>2
  <2>2. /\ Len(p \o q) = Len(p) + Len(q)
        /\ \A k \in 1..Len(p) : (p \o q)[k] = p[k]
        /\ \A k \in 1..Len(q) : (p \o q)[k + Len(p)] = q[k]
    BY <2>1, Joined
  <2> QED BY <1>1, <2>2
<1>4. ASSUME NEW k \in 1..Len(s) PROVE s[k] = 0 + k
  <2>1. CASE k \in 1..Len(p)
    BY <1>3, <2>1 DEF Counts
  <2>2. CASE k \notin 1..Len(p)
    <3>1. PICK j : j = k - Len(p)
      OBVIOUS
    <3>2. j \in 1..Len(q) /\ j + Len(p) = k
      BY <1>2, <1>3, <2>2, <3>1
    <3>3. s[j + Len(p)] = q[j] /\ q[j] = m + j
      BY <1>3, <3>2 DEF Counts
    <3>4. m + j = k
      BY <1>2, <3>2
    <3> QED BY <3>2, <3>3, <3>4
  <2> QED BY <2>1, <2>2
<1> QED BY <1>1, <1>2, <1>3, <1>4 DEF Counts

\* A sequence that counts from the first chunk.
LEMMA CountedIsFirst ==
  ASSUME NEW q \in Seq(Nat), Counts(q, 0), NEW n, n = Len(q)
  PROVE  q = FirstChunks(n)
<1>1. n \in Nat /\ DOMAIN q = 1..n /\ q = [k \in 1..n |-> q[k]]
  OBVIOUS
<1>2. \A k \in 1..n : q[k] = k
  <2> SUFFICES ASSUME NEW k \in 1..n PROVE q[k] = k
    OBVIOUS
  <2>1. q[k] = 0 + k
    BY DEF Counts
  <2> QED BY <1>1, <2>1
<1> QED BY <1>1, <1>2 DEF FirstChunks

\* What user code was given and the iterator holds.
LEMMA GivenChunks ==
  ASSUME RInv
  PROVE  /\ got \o it.queue \in Seq(Nat) /\ Len(got \o it.queue) = Given
         /\ Counts(got \o it.queue, 0) /\ got \o it.queue = FirstChunks(Given)
<1>1. /\ got \in Seq(Nat) /\ it.queue \in Seq(Nat) /\ Counts(got, 0) /\ Counts(it.queue, Len(got))
  BY DEF RInv, ReaderTypes, InLine, Iterator
<1>2. PICK m : m = Len(got)
  OBVIOUS
<1>3. /\ got \o it.queue \in Seq(Nat) /\ Len(got \o it.queue) = Len(got) + Len(it.queue)
      /\ Counts(got \o it.queue, 0)
  BY <1>1, <1>2, CountsJoined
<1>4. Len(got \o it.queue) = Given
  BY <1>3 DEF Given
<1> QED BY <1>3, <1>4, CountedIsFirst

\* The types of the stream's state and of the histories.
LEMMA UserTypes ==
  ASSUME WInv, RInv, Waiters, Tally
  PROVE  UserTypeOK
<1>1. ReaderTypes /\ InLine /\ WriterState
  BY DEF RInv, WInv, Ordered
<1>2. /\ Total \in Nat /\ MaxCalls \in Nat /\ calls \in 0..MaxCalls /\ produced \in 0..Total
      /\ Len(accepted) \in Nat /\ Len(accepted) <= calls
  BY <1>1, AcceptedCalls, UserAssumption DEF ReaderTypes
<1>3. rs[r].buffer \in Seq(1..Total)
  <2>1. PICK q : q = rs[r].buffer
    OBVIOUS
  <2>2. /\ q \in Seq(Nat) /\ Len(q) \in Nat /\ Sent \in Nat /\ Sent + Len(q) <= Total
        /\ Counts(q, Sent)
    <3>1. Sent \in Nat /\ Buffered \in Nat /\ Buffered = Sent + Len(q)
          /\ One(Arriving) = IF Arriving THEN 1 ELSE 0
      BY <1>1, <2>1, Sizes
    <3>2. produced = Buffered + One(Arriving) /\ Counts(q, Sent) /\ q \in Seq(Nat)
      BY <1>1, <2>1 DEF ReaderTypes, InLine
    <3>3. Buffered <= produced
      BY <3>1, <3>2 DEF One
    <3> QED BY <1>2, <3>1, <3>2, <3>3
  <2>3. \A k \in 1..Len(q) : q[k] \in 1..Total
    BY <1>2, <2>2 DEF Counts
  <2>4. q \in [1..Len(q) -> 1..Total]
    BY <2>2, <2>3
  <2>5. q \in Seq(1..Total)
    <3>1. \E n \in Nat : q \in [1..n -> 1..Total]
      BY <2>2, <2>4, Zenon
    <3> QED BY <3>1, SeqDef
  <2> QED BY <2>1, <2>5
<1>4. ws[w].length \in 0..MaxCalls
  BY <1>1, <1>2 DEF Tally, WriterState
<1>5. it.waiters \in 0..MaxCalls /\ it.answers \subseteq {"done", "failed"}
  BY <1>1, <1>2 DEF Waiters, ReaderTypes, Iterator
<1>6. Len(done) <= Len(accepted)
  <2>1. Len(done) \in Nat /\ One(Writing(w)) \in {0, 1}
    BY <1>1 DEF WriterState, One
  <2> QED BY <1>2, <2>1 DEF Tally
<1> QED BY <1>1, <1>2, <1>3, <1>4, <1>5, <1>6 DEF UserTypeOK, WriterState, Numbers

LEMMA Conserved ==
  ASSUME WInv, RInv, Waiters, Tally
  PROVE  ChunksConserved
<1>1. ASSUME stack = <<>>
      PROVE  got \o it.queue \o rs[r].buffer = FirstChunks(produced)
  <2>1. ReaderTypes /\ InLine /\ ~InFlight /\ ~Arriving
    BY <1>1 DEF RInv, InFlight, Arriving
  <2>2. Sent = Given /\ produced = Given + Len(rs[r].buffer)
    BY <2>1, Sizes DEF InLine
  <2>3. /\ rs[r].buffer \in Seq(Nat) /\ Counts(rs[r].buffer, Given)
    BY <2>1, <2>2 DEF ReaderTypes, InLine
  <2>4. PICK p : p = got \o it.queue
    OBVIOUS
  <2>5. p \in Seq(Nat) /\ Len(p) = Given /\ Counts(p, 0)
    BY <2>4, GivenChunks
  <2>6. PICK m : m = Given
    OBVIOUS
  <2>7. /\ p \o rs[r].buffer \in Seq(Nat) /\ Counts(p \o rs[r].buffer, 0)
        /\ Len(p \o rs[r].buffer) = Given + Len(rs[r].buffer)
    BY <2>3, <2>5, <2>6, CountsJoined
  <2>8. p \o rs[r].buffer = FirstChunks(produced)
    BY <2>2, <2>7, CountedIsFirst
  <2> QED BY <2>4, <2>8
<1>2. \A i, j \in DOMAIN io : io[i].fn = "_read" /\ io[j].fn = "_read" => i = j
  BY DEF RInv, Asking
<1> QED BY <1>1, <1>2, UserTypes DEF ChunksConserved

LEMMA InitCounters ==
  ASSUME Init
  PROVE  Waiters /\ Tally
<1>1. /\ ws = [s \in Writers |-> WritableState] /\ it = NoIterator /\ calls = 0
      /\ accepted = <<>> /\ done = <<>>
  BY DEF Init, StreamInit
<1>2. ws[w] = WritableState
  BY <1>1, UserAssumption
<1>3. Waiters
  BY <1>1 DEF Waiters, NoIterator
<1>4. ~Writing(w) /\ ws[w].length = 0
  BY <1>2 DEF Writing, WritableState
<1>5. Tally
  BY <1>1, <1>4 DEF Tally, One
<1> QED BY <1>3, <1>5

\* Between two tasks, what user code was given, what its iterator holds and
\* what the stream buffers are the chunks of the source, in order and once
\* each, and the subclass owes one chunk at most (push, _flow, read, unshift,
\* _maybeRead and the iterator of stream.js), for every source, every number of
\* calls of user code, from anywhere, and every order of the answers.
THEOREM ChunksAreConserved ==
  Spec => []ChunksConserved
<1> DEFINE I == Inv /\ WInv /\ RInv /\ Waiters /\ Tally /\ use \in Uses
<1>1. Init => I
  <2>1. Init => use \in Uses
    BY DEF Init, StreamInit
  <2> QED BY <2>1, InitInv, InitWInv, InitRInv, InitCounters
<1>2. I /\ [Next]_vars => I'
  <2> SUFFICES ASSUME I, [Next]_vars PROVE I'
    OBVIOUS
  <2>1. Inv' /\ (use \in Uses)'
    BY NextInv
  <2>2. WInv'
    BY NextWInv
  <2>3. RInv' /\ Waiters' /\ Tally'
    BY <2>2, NextRInv, NextWaiters, NextTally
  <2> QED BY <2>1, <2>2, <2>3
<1>3. I => ChunksConserved
  BY Conserved
<1> QED BY <1>1, <1>2, <1>3, PTL DEF Spec

-----------------------------------------------------------------------------
(* The inductive invariant: the iterator. *)

\* The stream was closed, and without an error.
NothingLeft ==
  /\ \A k \in DOMAIN stack : ~Closing(stack[k], r)
  /\ \A k \in DOMAIN io : ~Closing(io[k], r)
ClosedClean == rs[r].destroyed /\ ~rs[r].errored /\ NothingLeft

\* An error of the stream is an error of the call that closes it.
ErrorKept ==
  /\ rs[r].errored => rs[r].destroyed
  /\ \A k \in DOMAIN stack : Closing(stack[k], r) => (rs[r].errored => stack[k].err)
  /\ \A k \in DOMAIN io : Closing(io[k], r) => (rs[r].errored => io[k].err)

Over == rs[r].endEmitted \/ ClosedClean

\* The iterator hears of an error before it hears that the stream is closed.
FailsFirst(k) ==
  \E j \in 1..(k - 1) : stack[j].fn = "itError" \/ Emits(stack[j], r, "error")
ErrorFirst ==
  \A k \in DOMAIN stack :
    stack[k].fn = "itEnd" \/ Emits(stack[k], r, "close") =>
      Over \/ ~it.open \/ it.done \/ it.returned \/ FailsFirst(k)

HearsErrors ==
  \E k \in DOMAIN listeners[r]["error"] : listeners[r]["error"][k].fn = "itError"
WillHear == \E k \in DOMAIN stack : stack[k].fn = "on" /\ stack[k].l.fn = "itError"
ErrorHeard == it.open /\ ~it.returned => HearsErrors \/ WillHear

Finished ==
  /\ it.done /\ ~it.failed /\ ~it.returned => Over
  /\ "done" \in it.answers /\ ~it.returned =>
       ClosedClean \/ (rs[r].endEmitted /\ it.queue = <<>>)

ItInv == ErrorKept /\ ErrorFirst /\ ErrorHeard /\ Finished

-----------------------------------------------------------------------------
(* The iterator: what a step leaves as it is. *)

\* The calls that neither close the stream nor tell the iterator of its end.
Muted(f) ==
  ~Closing(f, r) /\ f.fn \notin {"itEnd", "itError"} /\ ~Emits(f, r, "close")
AllMuted(P) == IsSeq(P) /\ \A k \in 1..Len(P) : Muted(P[k])

NoEnds(P) == \A k \in 1..Len(P) : P[k].fn # "itEnd" /\ ~Emits(P[k], r, "close")

\* The call that returns is not one by which the iterator hears of an error, or
\* begins to listen to one.
Unfelt(d) ==
  d = 1 /\ 1 \in DOMAIN stack => stack[1].fn # "itError" /\ ~Emits(stack[1], r, "error")
ListensNow(d) == d = 1 /\ 1 \in DOMAIN stack /\ stack[1].fn = "on" /\ stack[1].l.fn = "itError"

\* The stream is not closed, and no error is added to it.
Steady ==
  /\ (rs'[r].destroyed <=> rs[r].destroyed) /\ (rs'[r].errored <=> rs[r].errored)
  /\ rs[r].endEmitted => rs'[r].endEmitted

\* What the subclass owes of a close it owed before.
NoClose == \A k \in DOMAIN io' : Closing(io'[k], r) => \E m \in DOMAIN io : io'[k] = io[m]

LEMMA FirstMoved ==
  ASSUME NEW P, NEW d, Shifted(P, d), Unfelt(d), NEW m \in DOMAIN stack, FailsFirst(m),
         NEW k \in Nat, k = m + Len(P) - d
  PROVE  FailsFirst(k)'
<1>1. /\ Len(P) \in Nat /\ Len(stack) \in Nat /\ DOMAIN stack = 1..Len(stack)
      /\ d \in 0..1 /\ d <= Len(stack)
  BY Indexed DEF Shifted
<1>2. PICK j \in 1..(m - 1) : stack[j].fn = "itError" \/ Emits(stack[j], r, "error")
  BY DEF FailsFirst
<1>3. j \in DOMAIN stack /\ j \in Nat
  BY <1>1, <1>2
<1>4. j \in (d + 1)..Len(stack)
  <2>1. d = 1 => j # 1
    BY <1>2, <1>3 DEF Unfelt
  <2> QED BY <1>1, <1>3, <2>1
<1>5. PICK i : i = j + Len(P) - d
  OBVIOUS
<1>6. stack'[i] = stack[j] /\ i \in 1..(k - 1)
  <2>1. stack'[j + Len(P) - d] = stack[j]
    BY <1>4 DEF Shifted
  <2>2. j <= m - 1 /\ m \in Nat
    BY <1>1, <1>2
  <2>3. PICK n \in Nat : n = Len(P)
    BY <1>1
  <2>4. i = j + n - d /\ k = m + n - d /\ j >= d + 1 /\ j \in Nat /\ d \in 0..1
    BY <1>1, <1>3, <1>4, <1>5, <2>3
  <2>5. i \in 1..(k - 1)
    BY <2>2, <2>4
  <2> QED BY <1>5, <2>1, <2>5
<1> QED BY <1>2, <1>6 DEF FailsFirst, Emits

LEMMA ErrorFirstKept ==
  ASSUME ErrorFirst, NEW P, NEW d, Shifted(P, d), Unfelt(d), NoEnds(P), Over => Over',
         ~it.open => ~it'.open, it.done => it'.done, it.returned => it'.returned
  PROVE  ErrorFirst'
<1> SUFFICES ASSUME NEW k \in DOMAIN stack',
                    stack'[k].fn = "itEnd" \/ Emits(stack'[k], r, "close")
             PROVE  Over' \/ ~it'.open \/ it'.done \/ it'.returned \/ FailsFirst(k)'
  BY DEF ErrorFirst, Emits
<1>1. PICK m \in DOMAIN stack : m > d /\ k = m + Len(P) - d /\ stack'[k] = stack[m]
  BY Origin DEF NoEnds
<1>2. Over \/ ~it.open \/ it.done \/ it.returned \/ FailsFirst(m)
  BY <1>1 DEF ErrorFirst
<1>3. k \in Nat
  <2>1. DOMAIN stack' = 1..Len(stack')
    BY Indexed DEF Shifted
  <2> QED BY <2>1
<1> QED BY <1>1, <1>2, <1>3, FirstMoved

LEMMA ErrorHeardKept ==
  ASSUME ErrorHeard, NEW P, NEW d, Shifted(P, d), HearsErrors => HearsErrors',
         ListensNow(d) => HearsErrors',
         it'.open /\ ~it'.returned => it.open /\ ~it.returned
  PROVE  ErrorHeard'
<1> SUFFICES ASSUME WillHear, ~HearsErrors' PROVE WillHear'
  BY DEF ErrorHeard
<1>1. PICK m \in DOMAIN stack : stack[m].fn = "on" /\ stack[m].l.fn = "itError"
  BY DEF WillHear
<1>2. /\ Len(P) \in Nat /\ Len(stack) \in Nat /\ DOMAIN stack = 1..Len(stack)
      /\ d \in 0..1 /\ d <= Len(stack) /\ Len(stack') \in Nat /\ DOMAIN stack' = 1..Len(stack')
  BY Indexed DEF Shifted
<1>3. m \in (d + 1)..Len(stack)
  <2>1. d = 1 => m # 1
    BY <1>1 DEF ListensNow
  <2> QED BY <1>2, <2>1
<1>4. PICK k : k = m + Len(P) - d
  OBVIOUS
<1>5. k \in DOMAIN stack' /\ stack'[k] = stack[m]
  <2>1. stack'[m + Len(P) - d] = stack[m] /\ Len(stack') = Len(P) + Len(stack) - d
    BY <1>3 DEF Shifted
  <2>2. PICK n, i : n = Len(P) /\ i = Len(stack)
    OBVIOUS
  <2>3. k \in 1..(n + i - d)
    BY <1>2, <1>3, <1>4, <2>2
  <2> QED BY <1>2, <1>4, <2>1, <2>2, <2>3
<1> QED BY <1>1, <1>5 DEF WillHear

LEMMA ErrorStays ==
  ASSUME ErrorKept, NEW P, NEW d, Shifted(P, d), rs'[r].errored => rs[r].errored /\ rs'[r].destroyed,
         \A k \in 1..Len(P) : Closing(P[k], r) => (rs[r].errored => P[k].err),
         \A k \in DOMAIN io' : Closing(io'[k], r) => (rs[r].errored => io'[k].err)
  PROVE  ErrorKept'
<1>1. ASSUME NEW k \in DOMAIN stack', Closing(stack'[k], r), rs'[r].errored PROVE stack'[k].err
  <2>1. CASE k \in 1..Len(P) /\ stack'[k] = P[k]
    BY <1>1, <2>1
  <2>2. CASE \E m \in DOMAIN stack : stack'[k] = stack[m]
    BY <1>1, <2>2 DEF ErrorKept
  <2> QED BY <2>1, <2>2, Origin
<1>2. ASSUME NEW k \in DOMAIN io', Closing(io'[k], r), rs'[r].errored PROVE io'[k].err
  BY <1>2
<1> QED BY <1>1, <1>2 DEF ErrorKept, Closing

LEMMA CleanKept ==
  ASSUME NEW P, NEW d, Shifted(P, d), Steady, NoClose, \A k \in 1..Len(P) : ~Closing(P[k], r),
         ClosedClean
  PROVE  ClosedClean'
<1>1. ASSUME NEW k \in DOMAIN stack' PROVE ~Closing(stack'[k], r)
  BY Origin DEF ClosedClean, NothingLeft
<1>2. ASSUME NEW k \in DOMAIN io' PROVE ~Closing(io'[k], r)
  BY DEF ClosedClean, NothingLeft, NoClose
<1> QED BY <1>1, <1>2 DEF ClosedClean, NothingLeft, Steady, Closing

LEMMA FinishedKept ==
  ASSUME Finished, it' = it, ClosedClean => ClosedClean', rs[r].endEmitted => rs'[r].endEmitted
  PROVE  Finished' /\ (Over => Over')
BY DEF Finished, Over

\* A step that neither closes the stream nor concerns the iterator.
LEMMA MutedStep ==
  ASSUME ItInv, NEW P, NEW d, Shifted(P, d), Unfelt(d), ListensNow(d) => HearsErrors',
         AllMuted(P), Steady, NoClose, it.returned \/ (HearsErrors => HearsErrors'), it' = it
  PROVE  ItInv'
<1>1. NoEnds(P) /\ \A k \in 1..Len(P) : ~Closing(P[k], r)
  BY DEF AllMuted, Muted, NoEnds
<1>2. ClosedClean => ClosedClean'
  BY <1>1, CleanKept
<1>3. Finished' /\ (Over => Over')
  BY <1>2, FinishedKept DEF ItInv, Steady
<1>4. ErrorFirst' /\ ErrorHeard'
  <2>1. ErrorFirst'
    BY <1>1, <1>3, ErrorFirstKept DEF ItInv
  <2>2. it.returned => ErrorHeard'
    BY DEF ErrorHeard
  <2> QED BY <2>1, <2>2, ErrorHeardKept DEF ItInv
<1>5. ErrorKept'
  <2>1. rs'[r].errored => rs[r].errored /\ rs'[r].destroyed
    BY DEF ItInv, ErrorKept, Steady
  <2>2. \A k \in DOMAIN io' : Closing(io'[k], r) => (rs[r].errored => io'[k].err)
    BY DEF ItInv, ErrorKept, NoClose
  <2> QED BY <1>1, <2>1, <2>2, ErrorStays DEF ItInv
<1> QED BY <1>3, <1>4, <1>5 DEF ItInv

LEMMA MutedLists ==
  /\ AllMuted(<<>>)
  /\ \A a : Muted(a) => AllMuted(<<a>>)
  /\ \A a, b : Muted(a) /\ Muted(b) => AllMuted(<<a, b>>)
  /\ \A c, q : AllMuted(q) => AllMuted(Then(c, q))
<1>1. /\ AllMuted(<<>>) /\ \A a : Muted(a) => AllMuted(<<a>>)
      /\ \A a, b : Muted(a) /\ Muted(b) => AllMuted(<<a, b>>)
  BY Short DEF AllMuted
<1> QED BY <1>1 DEF Then

LEMMA MutedJoined ==
  ASSUME NEW p, NEW q, AllMuted(p), AllMuted(q)
  PROVE  AllMuted(p \o q)
<1>1. IsSeq(p) /\ IsSeq(q)
  BY DEF AllMuted
<1>2. IsSeq(p \o q) /\ DOMAIN (p \o q) = 1..Len(p \o q) /\ DOMAIN p = 1..Len(p)
      /\ DOMAIN q = 1..Len(q)
  BY <1>1, Joined, Indexed
<1> QED BY <1>1, <1>2, JoinedOrigin DEF AllMuted

LEMMA MutedCalls ==
  /\ \A f, s : f \notin {"closed", "_destroy", "itEnd", "itError", "emit"} =>
       /\ Muted(Call(f, s)) /\ (\A c : Muted(CallC(f, s, c))) /\ (\A e : Muted(CallE(f, s, e)))
  /\ \A s, ev : ev # "close" => Muted(Emit(s, ev)) /\ \A c : Muted([Emit(s, ev) EXCEPT !.c = c])
  /\ \A f, s : s # r /\ f \in {"closed", "_destroy"} => \A e : Muted(CallE(f, s, e))
  /\ \A s, c, b : Muted(WriteCall(s, c, b))
  /\ \A s, ev, l : Muted(OnCall(s, ev, l)) /\ Muted(OffCall(s, ev, l))
BY DEF Muted, Closing, Emits, Call, CallC, CallE, Emit, WriteCall, OnCall, OffCall

LEMMA StillIsMuted ==
  ASSUME NEW P, AllStill(P)
  PROVE  AllMuted(P)
BY DEF AllStill, Still, Aside, Loud, AllMuted, Muted, Closing, Emits

\* Such a step of a call that is run.
Mutes ==
  /\ \E f : Running(f) /\ f \notin {"itError", "on", "emit"}
  /\ \E P : Continue(P) /\ AllMuted(P)
  /\ Steady /\ listeners' = listeners

LEMMA MutesStep ==
  ASSUME Inv, ItInv, Mutes, NoClose, it' = it
  PROVE  ItInv'
<1>1. PICK f : Running(f) /\ f \notin {"itError", "on", "emit"}
  BY DEF Mutes
<1>2. PICK P : Continue(P) /\ AllMuted(P)
  BY DEF Mutes
<1>3. IsSeq(stack) /\ stack # <<>> /\ stack[1].fn = f
  BY <1>1, Top
<1>4. Shifted(P, 1) /\ Unfelt(1) /\ ~ListensNow(1)
  BY <1>1, <1>2, <1>3, Replaced DEF AllMuted, Unfelt, ListensNow, Emits
<1>5. Steady /\ (HearsErrors => HearsErrors')
  BY DEF Mutes, HearsErrors
<1> QED BY <1>2, <1>4, <1>5, MutedStep

-----------------------------------------------------------------------------
(* The iterator: the steps of the readable side. *)

LEMMA ReaderShape ==
  ASSUME Inv, RInv
  PROVE  r \in DOMAIN rs /\ {"destroyed", "errored", "endEmitted"} \subseteq DOMAIN rs[r]
BY UserAssumption DEF Inv, States, RInv, ReaderTypes, ReaderParts

LEMMA PushMutes ==
  ASSUME Inv, RInv, Push
  PROVE  Mutes
<1>1. top.s = r /\ r \in DOMAIN rs /\ Running("push") /\ listeners' = listeners
  BY ReaderRuns, Zenon DEF Push, ReaderCalls
<1>2. Steady
  <2>0. {"destroyed", "errored", "endEmitted"} \subseteq DOMAIN rs[r]
    BY ReaderShape
  <2>1. CASE rs[r].destroyed
    <3>1. rs' = rs
      BY <1>1, <2>1 DEF Push
    <3> QED BY <3>1 DEF Steady
  <2>2. CASE ~rs[r].destroyed /\ top.c = Eof
    <3>1. rs' = [rs EXCEPT ![r].ended = TRUE, ![r].reading = FALSE]
      BY <1>1, <2>2 DEF Push, Eof, Empty
    <3> QED BY <1>1, <2>0, <3>1 DEF Steady
  <2>3. CASE ~rs[r].destroyed /\ top.c = Empty
    <3>1. rs' = [rs EXCEPT ![r].reading = FALSE]
      BY <1>1, <2>3 DEF Push, Eof, Empty
    <3> QED BY <1>1, <2>0, <3>1 DEF Steady
  <2>4. CASE ~rs[r].destroyed /\ top.c \notin {Eof, Empty}
    <3>1. PICK c : c = top.c
      OBVIOUS
    <3>2. rs' = [rs EXCEPT ![r].buffer = Append(@, c),
                           ![r].reading = FALSE,
                           ![r].flowTick = @ \/ rs[r].flowing,
                           ![r].readableTick =
                             @ \/ (~rs[r].flowing /\ ~rs[r].readableTick /\ ~rs[r].ended)]
      BY <1>1, <2>4, <3>1 DEF Push
    <3>3. /\ rs'[r].destroyed = rs[r].destroyed /\ rs'[r].errored = rs[r].errored
          /\ rs'[r].endEmitted = rs[r].endEmitted
      BY <1>1, <2>0, <3>2
    <3> QED BY <3>3 DEF Steady
  <2> QED BY <2>1, <2>2, <2>3, <2>4
<1>3. \E P : Continue(P) /\ AllMuted(P)
  <2>1. AllMuted(<<>>) /\ AllMuted(EndIfDrained(r))
    BY MutedLists, MutedCalls DEF EndIfDrained
  <2>2. Continue(<<>>) \/ Continue(EndIfDrained(r))
    BY <1>1 DEF Push
  <2> QED BY <2>1, <2>2
<1> QED BY <1>1, <1>2, <1>3 DEF Mutes

LEMMA TickingMutes ==
  ASSUME Inv, RInv, MaybeRead \/ FlowTick \/ FlowMore \/ ReadableTick
  PROVE  Mutes
<1>1. CASE MaybeRead
  <2>1. top.s = r /\ Running("maybeRead") /\ listeners' = listeners
    BY <1>1, ReaderRuns DEF MaybeRead, ReaderCalls
  <2>2. PICK ask : ask = (/\ ~rs[r].reading /\ ~rs[r].ended /\ ~rs[r].destroyed
                          /\ Len(rs[r].buffer) < Hwm[r])
    OBVIOUS
  <2>3. rs' = [rs EXCEPT ![r].reading = @ \/ ask] /\ Continue(Then(ask, <<Call("_read", r)>>))
    BY <1>1, <2>1, <2>2 DEF MaybeRead
  <2>4. AllMuted(Then(ask, <<Call("_read", r)>>))
    BY MutedLists, MutedCalls
  <2>5. Steady
    BY <2>3, ReaderShape DEF Steady
  <2> QED BY <2>1, <2>3, <2>4, <2>5 DEF Mutes
<1>2. CASE FlowTick
  <2>1. top.s = r /\ Running("flowTick") /\ listeners' = listeners
    BY <1>2, ReaderRuns DEF FlowTick, ReaderCalls
  <2>2. rs' = [rs EXCEPT ![r].flowTick = FALSE] /\ Continue(<<Call("flow", r)>>)
    BY <1>2, <2>1 DEF FlowTick
  <2>3. AllMuted(<<Call("flow", r)>>)
    BY MutedLists, MutedCalls
  <2>4. Steady
    BY <2>2, ReaderShape DEF Steady
  <2> QED BY <2>1, <2>2, <2>3, <2>4 DEF Mutes
<1>3. CASE FlowMore
  <2>1. top.s = r /\ Running("flowMore") /\ listeners' = listeners /\ rs' = rs
    BY <1>3, ReaderRuns DEF FlowMore, ReaderCalls
  <2>2. Continue(Then(rs[r].buffer # <<>> \/ rs[r].ended, <<Call("flow", r)>>))
    BY <1>3, <2>1 DEF FlowMore
  <2>3. AllMuted(Then(rs[r].buffer # <<>> \/ rs[r].ended, <<Call("flow", r)>>)) /\ Steady
    BY <2>1, MutedLists, MutedCalls DEF Steady
  <2> QED BY <2>1, <2>2, <2>3 DEF Mutes
<1>4. CASE ReadableTick
  <2>1. top.s = r /\ Running("readableTick") /\ listeners' = listeners
    BY <1>4, ReaderRuns DEF ReadableTick, ReaderCalls
  <2>2. PICK a : a = (~rs[r].destroyed /\ ~rs[r].endEmitted /\ rs[r].buffer # <<>>)
    OBVIOUS
  <2>3. /\ rs' = [rs EXCEPT ![r].readableTick = FALSE]
        /\ Continue(Then(a, <<Emit(r, "readable")>>))
    BY <1>4, <2>1, <2>2 DEF ReadableTick
  <2>4. AllMuted(Then(a, <<Emit(r, "readable")>>))
    BY MutedLists, MutedCalls
  <2>5. Steady
    BY <2>3, ReaderShape DEF Steady
  <2> QED BY <2>1, <2>3, <2>4, <2>5 DEF Mutes
<1> QED BY <1>1, <1>2, <1>3, <1>4

LEMMA FlowMutes ==
  ASSUME Inv, RInv, Flow
  PROVE  Mutes
<1>1. top.s = r /\ Running("flow") /\ listeners' = listeners
  BY ReaderRuns DEF Flow, ReaderCalls
<1>2. Steady
  <2>1. rs' = rs \/ rs' = [rs EXCEPT ![r].buffer = Tail(@)]
    BY <1>1 DEF Flow
  <2> QED BY <2>1, ReaderShape DEF Steady
<1>3. \E P : Continue(P) /\ AllMuted(P)
  <2>1. PICK e : e = [Emit(r, "data") EXCEPT !.c = Head(rs[r].buffer)]
    OBVIOUS
  <2>2. \/ Continue(<<>>) \/ Continue(<<e, Call("flow", r)>>) \/ Continue(<<Call("emitEnd", r)>>)
        \/ Continue(<<Call("maybeRead", r), Call("flowMore", r)>>)
    BY <1>1, <2>1, Zenon DEF Flow
  <2>3. Muted(e)
    BY <2>1, MutedCalls
  <2>4. /\ AllMuted(<<>>) /\ AllMuted(<<e, Call("flow", r)>>) /\ AllMuted(<<Call("emitEnd", r)>>)
        /\ AllMuted(<<Call("maybeRead", r), Call("flowMore", r)>>)
    BY <2>3, MutedLists, MutedCalls
  <2> QED BY <2>2, <2>4
<1> QED BY <1>1, <1>2, <1>3 DEF Mutes

LEMMA EmitEndMutes ==
  ASSUME Inv, RInv, EmitEnd
  PROVE  Mutes
<1>1. top.s = r /\ Running("emitEnd") /\ listeners' = listeners
  BY ReaderRuns DEF EmitEnd, ReaderCalls
<1>2. PICK due : due = (~rs[r].endEmitted /\ ~rs[r].destroyed)
  OBVIOUS
<1>3. PICK P : P = Then(due, <<Emit(r, "end"), Call("autoDestroy", r)>>)
  OBVIOUS
<1>4. rs' = [rs EXCEPT ![r].endEmitted = @ \/ due] /\ Continue(P)
  BY <1>1, <1>2, <1>3 DEF EmitEnd
<1>5. AllMuted(P)
  BY <1>3, MutedLists, MutedCalls
<1>6. Steady
  <2>1. r \in DOMAIN rs /\ {"destroyed", "errored", "endEmitted"} \subseteq DOMAIN rs[r]
    BY UserAssumption DEF Inv, States, RInv, ReaderTypes, ReaderParts
  <2> QED BY <1>4, <2>1 DEF Steady
<1> QED BY <1>1, <1>4, <1>5, <1>6 DEF Mutes

LEMMA ReadMutes ==
  ASSUME Inv, RInv, Read \/ AfterRead \/ Unshift
  PROVE  Mutes
<1>1. CASE Read
  <2>1. top.s = r /\ Running("read") /\ listeners' = listeners
    BY <1>1, ReaderRuns DEF Read, ReaderCalls
  <2>2. Steady
    <3>1. rs' = rs \/ rs' = [rs EXCEPT ![r].buffer = Tail(@)]
      BY <1>1, <2>1 DEF Read
    <3> QED BY <3>1, ReaderShape DEF Steady
  <2>3. \E P : Continue(P) /\ AllMuted(P)
    <3>1. \/ \E f \in {"emitEnd", "maybeRead"} : Continue(<<Call(f, r)>>)
          \/ \E a : Continue(Then(a, <<Call("maybeRead", r)>>) \o <<Call("afterRead", r)>>)
      BY <1>1, <2>1 DEF Read
    <3>2. \A f \in {"emitEnd", "maybeRead"} : AllMuted(<<Call(f, r)>>)
      BY MutedLists, MutedCalls
    <3>3. ASSUME NEW a PROVE AllMuted(Then(a, <<Call("maybeRead", r)>>) \o <<Call("afterRead", r)>>)
      BY MutedLists, MutedCalls, MutedJoined
    <3> QED BY <3>1, <3>2, <3>3
  <2> QED BY <2>1, <2>2, <2>3 DEF Mutes
<1>2. CASE AfterRead
  <2>1. top.s = r /\ Running("afterRead") /\ listeners' = listeners /\ rs' = rs
    BY <1>2, ReaderRuns DEF AfterRead, ReaderCalls
  <2>2. \E a : Continue(Then(a, <<Call("emitEnd", r)>>))
    BY <1>2, <2>1 DEF AfterRead
  <2>3. Steady /\ \A a : AllMuted(Then(a, <<Call("emitEnd", r)>>))
    BY <2>1, MutedLists, MutedCalls DEF Steady
  <2> QED BY <2>1, <2>2, <2>3 DEF Mutes
<1>3. CASE Unshift
  <2>1. top.s = r /\ Running("unshift") /\ listeners' = listeners
    BY <1>3, ReaderRuns DEF Unshift, ReaderCalls
  <2>2. rs' = [rs EXCEPT ![r].buffer = <<top.c>> \o @] /\ Continue(<<>>)
    BY <1>3, <2>1 DEF Unshift
  <2>3. Steady
    BY <2>2, ReaderShape DEF Steady
  <2> QED BY <2>1, <2>2, <2>3, MutedLists DEF Mutes
<1> QED BY <1>1, <1>2, <1>3

LEMMA PausingMutes ==
  ASSUME Inv, RInv, PauseCall \/ ResumeCall
  PROVE  Mutes
<1>1. CASE PauseCall
  <2>1. top.s = r /\ Running("pause") /\ listeners' = listeners
    BY <1>1, ReaderRuns DEF PauseCall, ReaderCalls
  <2>2. rs' = [rs EXCEPT ![r] = Paused(@)] /\ Continue(<<>>)
    BY <1>1, <2>1 DEF PauseCall, Pause
  <2>3. Steady
    BY <2>2, ReaderShape DEF Steady, Paused
  <2> QED BY <2>1, <2>2, <2>3, MutedLists DEF Mutes
<1>2. CASE ResumeCall
  <2>1. top.s = r /\ Running("resume") /\ listeners' = listeners
    BY <1>2, ReaderRuns DEF ResumeCall, ReaderCalls
  <2>2. (rs' = rs \/ rs' = [rs EXCEPT ![r] = Resumed(@)]) /\ Continue(<<>>)
    BY <1>2, <2>1 DEF ResumeCall, Resume
  <2>3. ASSUME rs' = [rs EXCEPT ![r] = Resumed(@)] PROVE Steady
    <3>1. rs'[r].destroyed = rs[r].destroyed /\ rs'[r].errored = rs[r].errored
          /\ rs'[r].endEmitted = rs[r].endEmitted
      BY <2>3, ReaderShape DEF Resumed
    <3> QED BY <3>1 DEF Steady
  <2>4. ASSUME rs' = rs PROVE Steady
    BY <2>4 DEF Steady
  <2> QED BY <2>1, <2>2, <2>3, <2>4, MutedLists DEF Mutes
<1> QED BY <1>1, <1>2

LEMMA RestMutes ==
  ASSUME Inv, RInv, AtRest
  PROVE  Mutes
BY StillIsMuted DEF AtRest, Mutes, Loud, Steady

LEMMA Quiet ==
  ASSUME io' = io
  PROVE  NoClose
BY DEF NoClose

LEMMA RunningMutes ==
  ASSUME Inv, RInv, ReadableStep \/ Read \/ AfterRead \/ Unshift \/ PauseCall \/ ResumeCall
                      \/ WritableStep \/ CorkStep \/ AutoDestroy \/ FailNext \/ DropWrites
  PROVE  Mutes
<1>1. CASE ReadableStep
  BY <1>1, PushMutes, TickingMutes, FlowMutes, EmitEndMutes DEF ReadableStep
<1>2. CASE Read \/ AfterRead \/ Unshift \/ PauseCall \/ ResumeCall
  BY <1>2, ReadMutes, PausingMutes
<1>3. CASE WritableStep \/ CorkStep \/ AutoDestroy \/ FailNext \/ DropWrites
  BY <1>3, WriterRests, RestMutes
<1> QED BY <1>1, <1>2, <1>3

LEMMA TickKeepsIt ==
  ASSUME Inv, WInv, ItInv, RunTick, io' = io, it' = it
  PROVE  ItInv'
<1>1. /\ stack = <<>> /\ ticks # <<>> /\ stack' = <<Head(ticks)>>
      /\ rs' = rs /\ listeners' = listeners
  BY DEF RunTick
<1>2. PICK f : f = Head(ticks)
  OBVIOUS
<1>3. PICK P : P = <<f>>
  OBVIOUS
<1>4. f.fn \in {"callback", "flowTick", "readableTick", "maybeRead", "destroy"}
  BY <1>1, <1>2, TailOf DEF WInv, Ordered, Frames, TickFrames, Inv, Calls, AllPlain
<1>5. Muted(f)
  BY <1>4 DEF Muted, Closing, Emits
<1>6. AllMuted(P)
  BY <1>3, <1>5, MutedLists
<1>7. Shifted(P, 0) /\ Unfelt(0) /\ ~ListensNow(0)
  <2>1. stack' = P \o stack /\ IsSeq(stack)
    <3>1. P \in Seq({f}) /\ stack' = P
      BY <1>1, <1>2, <1>3
    <3> QED BY <1>1, <3>1, Short
  <2>2. IsSeq(P)
    BY <1>6 DEF AllMuted
  <2>3. Shifted(P, 0)
    BY <2>1, <2>2, Pushed
  <2> QED BY <2>3 DEF Unfelt, ListensNow
<1>8. Steady /\ NoClose /\ (HearsErrors => HearsErrors')
  BY <1>1, Quiet DEF Steady, HearsErrors
<1> QED BY <1>6, <1>7, <1>8, MutedStep

LEMMA OfferedMuted ==
  ASSUME use \in Uses, NEW f \in Offered
  PROVE  Muted(f)
<1>0. use \in {"data", "read", "iterate", "write"}
  BY UserAssumption
<1>1. CASE use = "data"
  <2>1. f \in (IF Listens(r, "data")
                 THEN {OffCall(r, "data", Received), Call("pause", r), Call("resume", r)}
                 ELSE {OnCall(r, "data", Received)})
               \cup {CallE("destroy", r, err) : err \in BOOLEAN}
    BY <1>1, Zenon DEF Offered
  <2>2. /\ Muted(OffCall(r, "data", Received)) /\ Muted(OnCall(r, "data", Received))
        /\ Muted(Call("pause", r)) /\ Muted(Call("resume", r))
        /\ \A err \in BOOLEAN : Muted(CallE("destroy", r, err))
    BY MutedCalls
  <2> QED BY <2>1, <2>2
<1>2. CASE use = "read"
  <2>1. f \in (IF Listens(r, "readable") THEN {Call("read", r)}
               ELSE {OnCall(r, "readable", User(r))})
              \cup (IF got # <<>> /\ ~rs[r].endEmitted /\ ~rs[r].destroyed
                    THEN {CallC("unshift", r, Last(got))} ELSE {})
              \cup {CallE("destroy", r, TRUE)}
    BY <1>2, Zenon DEF Offered
  <2>2. /\ Muted(Call("read", r)) /\ Muted(OnCall(r, "readable", User(r)))
        /\ Muted(CallC("unshift", r, Last(got))) /\ Muted(CallE("destroy", r, TRUE))
    BY MutedCalls
  <2> QED BY <2>1, <2>2
<1>3. CASE use = "iterate"
  <2>1. f \in (IF it.open THEN {Call("itNext", r), Call("itReturn", r)}
               ELSE IF rs[r].destroyed THEN {} ELSE {Call("iterate", r)})
              \cup {CallE("destroy", r, err) : err \in BOOLEAN}
    BY <1>3, Zenon DEF Offered
  <2>2. /\ Muted(Call("itNext", r)) /\ Muted(Call("itReturn", r)) /\ Muted(Call("iterate", r))
        /\ \A err \in BOOLEAN : Muted(CallE("destroy", r, err))
    BY MutedCalls
  <2> QED BY <2>1, <2>2
<1>4. CASE use = "write"
  <2>1. f \in {WriteCall(w, calls + 1, TRUE), Call("end", w), Call("cork", w), Call("uncork", w)}
              \cup {CallE("destroy", w, err) : err \in BOOLEAN}
    BY <1>4, Zenon DEF Offered
  <2>2. /\ Muted(WriteCall(w, calls + 1, TRUE)) /\ Muted(Call("end", w))
        /\ Muted(Call("cork", w)) /\ Muted(Call("uncork", w))
        /\ \A err \in BOOLEAN : Muted(CallE("destroy", w, err))
    BY MutedCalls
  <2> QED BY <2>1, <2>2
<1> QED BY <1>0, <1>1, <1>2, <1>3, <1>4

LEMMA UserKeepsIt ==
  ASSUME Inv, ItInv, use \in Uses, UserCalls \/ UserReturns \/ CallbackRuns \/ DataArrives
  PROVE  ItInv'
<1>1. UNCHANGED <<rs, listeners, io, it>>
  BY DEF UserCalls, UserReturns, CallbackRuns, DataArrives, userVars
<1>2. Steady /\ NoClose /\ (HearsErrors => HearsErrors')
  BY <1>1, Quiet DEF Steady, HearsErrors
<1>3. CASE UserCalls
  <2>1. PICK f \in Offered : stack' = <<f>> \o stack
    BY <1>3 DEF UserCalls
  <2>2. PICK P : P = <<f>>
    OBVIOUS
  <2>3. AllMuted(P)
    BY <2>2, OfferedMuted, MutedLists
  <2>4. Shifted(P, 0) /\ Unfelt(0) /\ ~ListensNow(0)
    <3>1. stack' = P \o stack /\ IsSeq(stack)
      BY <2>1, <2>2 DEF Inv, Calls
    <3>2. IsSeq(P)
      BY <2>3 DEF AllMuted
    <3>3. Shifted(P, 0)
      BY <3>1, <3>2, Pushed
    <3> QED BY <3>3 DEF Unfelt, ListensNow
  <2> QED BY <1>1, <1>2, <2>3, <2>4, MutedStep
<1>4. CASE UserReturns \/ CallbackRuns \/ DataArrives
  <2>1. \E f \in {"user", "callback", "userData"} : Running(f)
    BY <1>4 DEF UserReturns, CallbackRuns, DataArrives
  <2>2. \/ Continue(<<>>) \/ Continue(<<User(r)>>) \/ \E a : Continue(Then(a, <<User(w)>>))
    BY <1>4 DEF UserReturns, CallbackRuns, DataArrives
  <2>3. /\ AllMuted(<<>>) /\ AllMuted(<<User(r)>>) /\ \A a : AllMuted(Then(a, <<User(w)>>))
    BY MutedLists, MutedCalls DEF User
  <2>4. Mutes
    BY <1>1, <1>2, <2>1, <2>2, <2>3 DEF Mutes
  <2> QED BY <1>1, <1>2, <2>4, MutesStep
<1> QED BY <1>3, <1>4

-----------------------------------------------------------------------------
(* The iterator: the close of the stream. *)

\* The subclass has been asked to close the stream and has not answered, or
\* has answered and nothing came of it yet.
LEMMA ClosingGoesOn ==
  ASSUME ItInv, ~ClosedClean, NEW P, NEW d, Shifted(P, d), Unfelt(d), ~ListensNow(d), NoEnds(P),
         UNCHANGED <<rs, listeners, it>>,
         \A k \in 1..Len(P) : Closing(P[k], r) => (rs[r].errored => P[k].err),
         \A k \in DOMAIN io' : Closing(io'[k], r) => (rs[r].errored => io'[k].err)
  PROVE  ItInv'
<1>1. Finished' /\ (Over => Over')
  BY FinishedKept DEF ItInv
<1>2. ErrorFirst' /\ ErrorHeard'
  BY <1>1, ErrorFirstKept, ErrorHeardKept DEF ItInv, HearsErrors
<1>3. rs'[r].errored => rs[r].errored /\ rs'[r].destroyed
  BY DEF ItInv, ErrorKept
<1>4. ErrorKept'
  BY <1>3, ErrorStays DEF ItInv
<1> QED BY <1>1, <1>2, <1>4 DEF ItInv

LEMMA AnswerMuted ==
  ASSUME NEW x, x.fn \in Hooks, ~Closing(x, r), NEW err
  PROVE  AllMuted(Answer(x, err))
<1>1. CASE x.fn = "_read"
  <2>1. AllMuted(<<CallE("destroy", r, TRUE)>>) /\ AllMuted(Then(~rs[r].destroyed, NextRead))
    BY MutedLists, MutedCalls DEF NextRead
  <2> QED BY <1>1, <2>1 DEF Answer
<1>2. CASE x.fn = "_write"
  BY <1>2, MutedLists, MutedCalls DEF Answer
<1>3. CASE x.fn = "_final"
  BY <1>3, MutedLists, MutedCalls DEF Answer
<1>4. CASE x.fn = "_destroy"
  <2>1. x.s # r
    BY <1>4 DEF Closing
  <2> QED BY <1>4, <2>1, MutedLists, MutedCalls DEF Answer
<1> QED BY <1>1, <1>2, <1>3, <1>4 DEF Hooks

LEMMA CalledKeepsIt ==
  ASSUME Inv, ItInv, SubclassCalled
  PROVE  ItInv'
<1>1. PICK x : x = top
  OBVIOUS
<1>2. /\ x = stack[1] /\ 1 \in DOMAIN stack /\ IsSeq(stack) /\ stack # <<>> /\ x.fn \in Hooks
      /\ Running(x.fn)
  <2>1. stack # <<>> /\ top.fn \in Hooks
    BY DEF SubclassCalled
  <2>2. Running(top.fn)
    BY <2>1 DEF Running
  <2> QED BY <1>1, <2>1, <2>2, Top
<1>3. UNCHANGED <<rs, listeners, it>>
  BY DEF SubclassCalled
<1>4. \/ \E err \in BOOLEAN : Continue(Answer(x, err)) /\ io' = io
      \/ Continue(<<>>) /\ io' = Append(io, x)
      \/ x.fn = "_read" /\ Continue(<<CallC("push", r, Empty)>>) /\ io' = io
  BY <1>1 DEF SubclassCalled
<1>5. CASE ~Closing(x, r)
  <2>1. AllMuted(<<>>) /\ AllMuted(<<CallC("push", r, Empty)>>)
    BY MutedLists, MutedCalls
  <2>2. \E P : Continue(P) /\ AllMuted(P)
    BY <1>2, <1>4, <1>5, <2>1, AnswerMuted
  <2>3. NoClose
    <3>1. CASE io' = io
      BY <3>1, Quiet
    <3>2. CASE io' = Append(io, x)
      BY <1>5, <3>2, DebtAdded DEF NoClose
    <3> QED BY <1>4, <3>1, <3>2
  <2>4. Steady /\ x.fn \notin {"itError", "on", "emit"}
    BY <1>2, <1>3 DEF Steady, Hooks
  <2>5. Mutes
    BY <1>2, <1>3, <2>2, <2>4 DEF Mutes
  <2> QED BY <1>3, <2>3, <2>5, MutesStep
<1>6. CASE Closing(x, r)
  <2>1. x.fn = "_destroy" /\ x.s = r /\ (rs[r].errored => x.err) /\ ~ClosedClean
    BY <1>2, <1>6 DEF Closing, Hooks, ItInv, ErrorKept, ClosedClean, NothingLeft
  <2>2. \A k \in DOMAIN io : Closing(io[k], r) => (rs[r].errored => io[k].err)
    BY DEF ItInv, ErrorKept
  <2>3. CASE \E err \in BOOLEAN : Continue(Answer(x, err)) /\ io' = io
    <3>1. PICK err \in BOOLEAN : Continue(Answer(x, err)) /\ io' = io
      BY <2>3
    <3>2. PICK f : f = CallE("closed", r, x.err \/ err)
      OBVIOUS
    <3>3. PICK P : P = <<f>>
      OBVIOUS
    <3>4. Continue(P)
      BY <2>1, <3>1, <3>2, <3>3 DEF Answer
    <3>5. IsSeq(P) /\ \A k \in 1..Len(P) : P[k] = f
      BY <3>3, Short
    <3>6. f.fn = "closed" /\ (rs[r].errored => f.err)
      BY <2>1, <3>2 DEF CallE
    <3>7. NoEnds(P) /\ \A k \in 1..Len(P) : Closing(P[k], r) => (rs[r].errored => P[k].err)
      BY <3>5, <3>6 DEF NoEnds, Emits
    <3>8. Shifted(P, 1) /\ Unfelt(1) /\ ~ListensNow(1)
      BY <1>2, <2>1, <3>4, <3>5, Replaced DEF Unfelt, ListensNow, Emits
    <3>9. \A k \in DOMAIN io' : Closing(io'[k], r) => (rs[r].errored => io'[k].err)
      BY <2>2, <3>1
    <3> QED BY <1>3, <2>1, <3>7, <3>8, <3>9, ClosingGoesOn
  <2>4. CASE Continue(<<>>) /\ io' = Append(io, x)
    <3>1. PICK P : P = <<>>
      OBVIOUS
    <3>2. IsSeq(P) /\ Continue(P) /\ \A k \in 1..Len(P) : FALSE
      BY <2>4, <3>1, Short
    <3>3. NoEnds(P) /\ \A k \in 1..Len(P) : Closing(P[k], r) => (rs[r].errored => P[k].err)
      BY <3>2 DEF NoEnds
    <3>4. Shifted(P, 1) /\ Unfelt(1) /\ ~ListensNow(1)
      BY <1>2, <2>1, <3>2, Replaced DEF Unfelt, ListensNow, Emits
    <3>5. \A k \in DOMAIN io' : Closing(io'[k], r) => (rs[r].errored => io'[k].err)
      BY <2>1, <2>2, <2>4, DebtAdded
    <3> QED BY <1>3, <2>1, <3>3, <3>4, <3>5, ClosingGoesOn
  <2> QED BY <1>4, <2>1, <2>3, <2>4
<1> QED BY <1>5, <1>6

LEMMA AnswersKeepIt ==
  ASSUME Inv, ItInv, NEW i \in DOMAIN io, SubclassAnswers(i)
  PROVE  ItInv'
<1>1. PICK x : x = io[i]
  OBVIOUS
<1>2. /\ stack = <<>> /\ io' = RemoveAt(io, i) /\ x.fn \in Hooks
      /\ UNCHANGED <<rs, listeners, it>>
  BY <1>1 DEF SubclassAnswers, Inv, Calls, Owed
<1>3. PICK err \in BOOLEAN : stack' = Answer(x, err)
  BY <1>1 DEF SubclassAnswers
<1>4. \A k \in DOMAIN io' : \E m \in DOMAIN io : io'[k] = io[m]
  BY <1>2, DebtPaid
<1>5. PICK P : P = Answer(x, err)
  OBVIOUS
<1>6. IsSeq(P)
  <2>1. x.fn # "_destroy" => IsSeq(P)
    BY <1>2, <1>5, PlainAnswer DEF AllPlain
  <2>2. x.fn = "_destroy" => IsSeq(P)
    BY <1>2, <1>5, PlainAnswer, Short
  <2> QED BY <2>1, <2>2
<1>7. Shifted(P, 0) /\ Unfelt(0) /\ ~ListensNow(0)
  <2>1. stack' = P
    BY <1>3, <1>5
  <2>2. P \o <<>> = P
    BY <1>6 DEF IsSeq
  <2> QED BY <1>2, <1>6, <2>1, <2>2, Pushed, Short DEF Unfelt, ListensNow
<1>8. CASE ~Closing(x, r)
  <2>1. AllMuted(P)
    BY <1>2, <1>5, <1>8, AnswerMuted
  <2>2. Steady /\ NoClose /\ (HearsErrors => HearsErrors')
    BY <1>2, <1>4 DEF Steady, NoClose, HearsErrors
  <2> QED BY <1>2, <1>7, <2>1, <2>2, MutedStep
<1>9. CASE Closing(x, r)
  <2>1. x.fn = "_destroy" /\ x.s = r /\ (rs[r].errored => x.err) /\ ~ClosedClean
    BY <1>1, <1>2, <1>9 DEF Closing, Hooks, ItInv, ErrorKept, ClosedClean, NothingLeft
  <2>2. PICK f : f = CallE("closed", r, x.err \/ err)
    OBVIOUS
  <2>3. P = <<f>>
    BY <1>5, <2>1, <2>2 DEF Answer
  <2>4. \A k \in 1..Len(P) : P[k] = f
    BY <2>3
  <2>5. f.fn = "closed" /\ (rs[r].errored => f.err)
    BY <2>1, <2>2 DEF CallE
  <2>6. NoEnds(P) /\ \A k \in 1..Len(P) : Closing(P[k], r) => (rs[r].errored => P[k].err)
    BY <2>4, <2>5 DEF NoEnds, Emits
  <2>7. \A k \in DOMAIN io' : Closing(io'[k], r) => (rs[r].errored => io'[k].err)
    BY <1>4 DEF ItInv, ErrorKept
  <2> QED BY <1>2, <1>7, <2>1, <2>6, <2>7, ClosingGoesOn
<1> QED BY <1>8, <1>9

\* What a destroy() leaves to be done: calls that are muted, and the close.
ToDrop(s) ==
  Then(s \in Writers, FailWrites(s, ws[s].pending)
                      \o FailWrites(s, ws[s].corkedBuffer)
                      \o <<Call("dropWrites", s)>>)
ToClose(s, e) == CallE(IF s \in CustomDestroy THEN "_destroy" ELSE "closed", s, e)

LEMMA DropMuted ==
  ASSUME NEW s
  PROVE  AllMuted(ToDrop(s))
<1>1. AllMuted(FailWrites(s, ws[s].pending)) /\ AllMuted(FailWrites(s, ws[s].corkedBuffer))
  BY StillFailures, StillIsMuted
<1>2. PICK a : a = FailWrites(s, ws[s].pending) \o FailWrites(s, ws[s].corkedBuffer)
  OBVIOUS
<1>3. AllMuted(a) /\ AllMuted(<<Call("dropWrites", s)>>)
  BY <1>1, <1>2, MutedJoined, MutedLists, MutedCalls
<1>4. AllMuted(Then(s \in Writers, a \o <<Call("dropWrites", s)>>))
  BY <1>3, MutedJoined, MutedLists
<1> QED BY <1>2, <1>4 DEF ToDrop

\* A stream is destroyed.
LEMMA Destroying ==
  ASSUME Destroy, ~Destroyed(top.s)
  PROVE  /\ rs' = [x \in Readers |->
                    IF x = top.s THEN [rs[x] EXCEPT !.destroyed = TRUE, !.ended = TRUE,
                                                    !.errored = @ \/ top.err]
                    ELSE rs[x]]
         /\ Continue(ToDrop(top.s) \o <<ToClose(top.s, top.err)>>)
<1>1. PICK s : s = top.s
  OBVIOUS
<1>2. CASE ~Destroyed(s)
  <2>1. PICK P : P = Then(s \in Writers, FailWrites(s, ws[s].pending)
                                         \o FailWrites(s, ws[s].corkedBuffer)
                                         \o <<Call("dropWrites", s)>>)
                     \o <<CallE(IF s \in CustomDestroy THEN "_destroy" ELSE "closed", s, top.err)>>
    OBVIOUS
  <2>2. /\ rs' = [x \in Readers |->
                   IF x = s THEN [rs[x] EXCEPT !.destroyed = TRUE, !.ended = TRUE,
                                               !.errored = @ \/ top.err]
                   ELSE rs[x]]
        /\ Continue(P)
    BY <1>1, <1>2, <2>1 DEF Destroy
  <2>3. P = ToDrop(s) \o <<ToClose(s, top.err)>>
    BY <2>1, Zenon DEF ToDrop, ToClose
  <2> QED BY <1>1, <2>2, <2>3, Zenon
<1> QED BY <1>1, <1>2, Zenon

LEMMA OtherDestroyMutes ==
  ASSUME Inv, RInv, Destroy, Destroyed(top.s) \/ top.s # r
  PROVE  Mutes
<1>1. Running("destroy") /\ listeners' = listeners
  BY Zenon DEF Destroy
<1>2. PICK s : s = top.s
  OBVIOUS
<1>3. CASE Destroyed(s)
  <2>1. Continue(<<>>) /\ rs' = rs
    BY <1>2, <1>3 DEF Destroy
  <2>2. AllMuted(<<>>) /\ Steady
    BY <2>1, MutedLists DEF Steady
  <2> QED BY <1>1, <2>1, <2>2 DEF Mutes
<1>4. CASE ~Destroyed(s) /\ s # r
  <2>1. PICK P : P = ToDrop(s) \o <<ToClose(s, top.err)>>
    OBVIOUS
  <2>2. Continue(P) /\ rs' = [x \in Readers |->
                              IF x = s THEN [rs[x] EXCEPT !.destroyed = TRUE, !.ended = TRUE,
                                                          !.errored = @ \/ top.err]
                              ELSE rs[x]]
    <3>1. ~Destroyed(top.s)
      BY <1>2, <1>4
    <3> QED BY <1>2, <2>1, <3>1, Destroying, Zenon
  <2>3. AllMuted(P)
    <3>1. Muted(ToClose(s, top.err))
      BY <1>4, MutedCalls DEF ToClose
    <3> QED BY <2>1, <3>1, DropMuted, MutedJoined, MutedLists
  <2>4. rs'[r] = rs[r]
    <3>1. rs' = [x \in Readers |-> IF x = s THEN [rs[x] EXCEPT !.destroyed = TRUE, !.ended = TRUE,
                                                              !.errored = @ \/ top.err]
                                  ELSE rs[x]]
      BY <2>2
    <3>2. r \in Readers /\ s # r
      BY <1>4, OneStream
    <3> QED BY <3>1, <3>2
  <2>5. Steady
    BY <2>4 DEF Steady
  <2>6. \E R : Continue(R) /\ AllMuted(R)
    BY <2>2, <2>3
  <2> QED BY <1>1, <2>5, <2>6 DEF Mutes
<1> QED BY <1>2, <1>3, <1>4

LEMMA DestroyKeepsIt ==
  ASSUME Inv, RInv, ItInv, Destroy, ~Destroyed(top.s), top.s = r, io' = io, it' = it
  PROVE  ItInv'
<1>1. /\ Running("destroy") /\ listeners' = listeners /\ IsSeq(stack) /\ stack # <<>>
      /\ stack[1].fn = "destroy"
  <2>1. Running("destroy") /\ listeners' = listeners
    BY Zenon DEF Destroy
  <2> QED BY <2>1, Top
<1>2. PICK e : e = top.err
  OBVIOUS
<1>3. PICK f : f = ToClose(r, e)
  OBVIOUS
<1>4. PICK Q : Q = ToDrop(r)
  OBVIOUS
<1>5. PICK P : P = Q \o <<f>>
  OBVIOUS
<1>6. /\ rs'[r] = [rs[r] EXCEPT !.destroyed = TRUE, !.ended = TRUE, !.errored = @ \/ e]
      /\ Continue(P)
  <2>1. /\ rs' = [x \in Readers |->
                   IF x = r THEN [rs[x] EXCEPT !.destroyed = TRUE, !.ended = TRUE,
                                               !.errored = @ \/ e]
                   ELSE rs[x]]
        /\ Continue(P)
    <3>1. P = ToDrop(top.s) \o <<ToClose(top.s, top.err)>>
      BY <1>2, <1>3, <1>4, <1>5
    <3>2. /\ rs' = [x \in Readers |->
                     IF x = top.s THEN [rs[x] EXCEPT !.destroyed = TRUE, !.ended = TRUE,
                                                     !.errored = @ \/ top.err]
                     ELSE rs[x]]
          /\ Continue(ToDrop(top.s) \o <<ToClose(top.s, top.err)>>)
      BY Destroying, Zenon
    <3> QED BY <1>2, <3>1, <3>2
  <2>2. rs' = [x \in Readers |->
                IF x = r THEN [rs[x] EXCEPT !.destroyed = TRUE, !.ended = TRUE,
                                            !.errored = @ \/ e]
                ELSE rs[x]]
    BY <2>1
  <2>3. r \in Readers
    BY OneStream
  <2> QED BY <2>1, <2>2, <2>3
<1>7. IsSeq(P) /\ \A k \in 1..Len(P) : Muted(P[k]) \/ P[k] = f
  <2>1. AllMuted(Q)
    BY <1>4, DropMuted
  <2>2. IsSeq(Q) /\ IsSeq(<<f>>) /\ DOMAIN Q = 1..Len(Q) /\ \A k \in DOMAIN <<f>> : <<f>>[k] = f
    BY <2>1, Indexed, Short DEF AllMuted
  <2>3. IsSeq(P) /\ DOMAIN P = 1..Len(P)
    BY <1>5, <2>2, Joined, Indexed
  <2>4. ASSUME NEW k \in DOMAIN P PROVE Muted(P[k]) \/ P[k] = f
    <3>1. k \in DOMAIN (Q \o <<f>>)
      BY <1>5, <2>4
    <3>2. (k \in DOMAIN Q /\ P[k] = Q[k]) \/ \E i \in DOMAIN <<f>> : P[k] = <<f>>[i]
      BY <1>5, <2>2, <3>1, JoinedOrigin
    <3> QED BY <2>1, <2>2, <3>2 DEF AllMuted
  <2> QED BY <2>3, <2>4
<1>8. f.fn \in {"_destroy", "closed"} /\ f.s = r /\ f.err = e
  BY <1>3 DEF ToClose, CallE
<1>9. NoEnds(P)
  BY <1>7, <1>8 DEF NoEnds, Muted, Emits
<1>10. Shifted(P, 1) /\ Unfelt(1) /\ ~ListensNow(1)
  <2>1. Shifted(P, 1)
    BY <1>1, <1>6, <1>7, Replaced
  <2> QED BY <1>1, <2>1 DEF Unfelt, ListensNow, Emits
<1>11. /\ ~rs[r].destroyed /\ Alive(r)
  BY OneStream DEF Destroyed, Inv, Life
<1>12. /\ rs'[r].destroyed = TRUE /\ rs'[r].endEmitted = rs[r].endEmitted
       /\ rs'[r].errored => e
  <2>1. ~rs[r].errored
    BY <1>11 DEF ItInv, ErrorKept
  <2> QED BY <1>6, <2>1, ReaderShape
<1>13. ~ClosedClean
  BY <1>11 DEF ClosedClean
<1>14. Finished' /\ (Over => Over')
  BY <1>12, <1>13, FinishedKept DEF ItInv
<1>15. ErrorFirst' /\ ErrorHeard'
  BY <1>1, <1>9, <1>10, <1>14, ErrorFirstKept, ErrorHeardKept DEF ItInv, HearsErrors
<1>16. ErrorKept'
  <2>1. ASSUME NEW k \in DOMAIN stack', Closing(stack'[k], r), rs'[r].errored
        PROVE  stack'[k].err
    <3>1. CASE k \in 1..Len(P) /\ stack'[k] = P[k]
      <4>1. P[k] = f
        BY <1>7, <2>1, <3>1 DEF Muted
      <4> QED BY <1>8, <1>12, <2>1, <3>1, <4>1
    <3>2. CASE \E m \in DOMAIN stack : stack'[k] = stack[m]
      BY <1>11, <2>1, <3>2 DEF Alive, Leaving
    <3> QED BY <1>10, <3>1, <3>2, Origin
  <2>2. ASSUME NEW k \in DOMAIN io' PROVE ~Closing(io'[k], r)
    BY <1>11 DEF Alive
  <2> QED BY <1>12, <2>1, <2>2 DEF ErrorKept, Closing
<1> QED BY <1>14, <1>15, <1>16 DEF ItInv

LEMMA OtherClosedMutes ==
  ASSUME Inv, RInv, Closed, top.s # r
  PROVE  Mutes
<1>1. Running("closed") /\ listeners' = listeners
  BY Zenon DEF Closed
<1>2. PICK s : s = top.s
  OBVIOUS
<1>3. PICK P : P = Then(top.err, <<[Emit(s, "error") EXCEPT !.err = TRUE]>>)
                   \o <<Emit(s, "close")>>
  OBVIOUS
<1>4. /\ rs' = [x \in Readers |-> IF x = s THEN [rs[x] EXCEPT !.errored = @ \/ top.err]
                                  ELSE rs[x]]
      /\ Continue(P)
  BY <1>2, <1>3 DEF Closed
<1>5. AllMuted(P)
  <2>1. Muted([Emit(s, "error") EXCEPT !.err = TRUE]) /\ Muted(Emit(s, "close"))
    BY <1>2 DEF Muted, Closing, Emits, Emit
  <2> QED BY <1>3, <2>1, MutedLists, MutedJoined
<1>6. rs'[r] = rs[r]
  BY <1>2, <1>4, OneStream
<1>7. Steady
  BY <1>6 DEF Steady
<1> QED BY <1>1, <1>4, <1>5, <1>7 DEF Mutes

LEMMA ClosedKeepsIt ==
  ASSUME Inv, RInv, ItInv, Closed, top.s = r, io' = io, it' = it
  PROVE  ItInv'
<1>1. /\ Running("closed") /\ listeners' = listeners /\ IsSeq(stack) /\ stack # <<>>
      /\ stack[1].fn = "closed" /\ top = stack[1] /\ 1 \in DOMAIN stack
  <2>1. Running("closed") /\ listeners' = listeners
    BY Zenon DEF Closed
  <2> QED BY <2>1, Top
<1>2. PICK e : e = top.err
  OBVIOUS
<1>3. PICK a : a = [Emit(r, "error") EXCEPT !.err = TRUE]
  OBVIOUS
<1>4. PICK P : P = Then(e, <<a>>) \o <<Emit(r, "close")>>
  OBVIOUS
<1>5. /\ rs' = [x \in Readers |-> IF x = r THEN [rs[x] EXCEPT !.errored = @ \/ e] ELSE rs[x]]
      /\ Continue(P)
  BY <1>2, <1>3, <1>4 DEF Closed
<1>6. a.fn = "emit" /\ Emits(a, r, "error") /\ Emit(r, "close").fn = "emit"
      /\ ~Emits(a, r, "close")
  BY <1>3 DEF Emit, Emits
<1>7. /\ e => P = <<a, Emit(r, "close")>>
      /\ ~e => P = <<Emit(r, "close")>>
  <2>1. \A b, c : <<b>> \o <<c>> = <<b, c>>
    BY Pair
  <2>2. PICK c : c = Emit(r, "close")
    OBVIOUS
  <2>3. <<>> \o <<c>> = <<c>>
    BY ConcatEmptySeq
  <2> QED BY <1>4, <2>1, <2>2, <2>3, Zenon DEF Then
<1>8. IsSeq(P) /\ \A k \in 1..Len(P) : P[k].fn = "emit"
  BY <1>6, <1>7, Short
<1>9. Shifted(P, 1) /\ Unfelt(1) /\ ~ListensNow(1)
  BY <1>1, <1>5, <1>8, Replaced DEF Unfelt, ListensNow, Emits
<1>10. /\ Closing(stack[1], r) /\ Leaving(stack[1], r) /\ ~ClosedClean
       /\ \A m \in DOMAIN stack : m # 1 => ~Leaving(stack[m], r)
       /\ \A m \in DOMAIN io : ~Closing(io[m], r)
  <2>1. Closing(stack[1], r) /\ Leaving(stack[1], r)
    BY <1>1 DEF Closing, Leaving
  <2>2. OneLeaves(r)
    BY OneStream DEF Inv, Life
  <2> QED BY <1>1, <2>1, <2>2 DEF OneLeaves, ClosedClean, NothingLeft
<1>11. rs[r].destroyed
  <2>1. Destroyed(r)
    BY <1>1, <1>10, OneStream DEF Inv, Life, Alive
  <2>2. r \in Writers => (rs[r].destroyed <=> ws[r].destroyed)
    BY OneStream DEF Inv, States
  <2> QED BY <2>1, <2>2 DEF Destroyed
<1>12. /\ rs'[r].destroyed = rs[r].destroyed /\ rs'[r].endEmitted = rs[r].endEmitted
       /\ rs'[r].errored <=> e
  <2>1. rs[r].errored => e
    BY <1>1, <1>2, <1>10 DEF ItInv, ErrorKept
  <2>2. rs'[r] = [rs[r] EXCEPT !.errored = @ \/ e]
    BY <1>5, OneStream
  <2> QED BY <2>1, <2>2, ReaderShape
<1>13. NothingLeft'
  <2>1. ASSUME NEW k \in DOMAIN stack' PROVE ~Closing(stack'[k], r)
    <3>1. CASE k \in 1..Len(P) /\ stack'[k] = P[k]
      BY <1>8, <3>1 DEF Closing
    <3>2. CASE \E m \in DOMAIN stack : m > 1 /\ stack'[k] = stack[m]
      BY <1>10, <3>2 DEF Leaving
    <3> QED BY <1>9, <3>1, <3>2, Origin
  <2> QED BY <1>10, <2>1 DEF NothingLeft, Closing
<1>14. ErrorKept'
  BY <1>11, <1>12, <1>13 DEF ErrorKept, NothingLeft
<1>15. Finished' /\ (Over => Over')
  BY <1>10, <1>12, FinishedKept DEF ItInv
<1>16. ErrorHeard'
  BY <1>1, <1>9, ErrorHeardKept DEF ItInv, HearsErrors
<1>17. ErrorFirst'
  <2>1. CASE ~e
    <3>1. ClosedClean'
      BY <1>11, <1>12, <1>13, <2>1 DEF ClosedClean
    <3> QED BY <3>1 DEF ErrorFirst, Over
  <2>2. CASE e
    <3> SUFFICES ASSUME NEW k \in DOMAIN stack',
                        stack'[k].fn = "itEnd" \/ Emits(stack'[k], r, "close")
                 PROVE  Over' \/ ~it'.open \/ it'.done \/ it'.returned \/ FailsFirst(k)'
      BY DEF ErrorFirst, Emits
    <3>1. Len(P) = 2 /\ P[1] = a /\ P[2] = Emit(r, "close")
      BY <1>7, <2>2
    <3>2. CASE k \in 1..Len(P) /\ stack'[k] = P[k]
      <4>1. k # 1
        BY <1>6, <3>1, <3>2
      <4>2. k = 2 /\ 1 \in 1..(2 - 1)
        BY <3>1, <3>2, <4>1
      <4>3. stack'[1] = a
        BY <1>9, <3>1 DEF Shifted
      <4> QED BY <1>6, <4>2, <4>3 DEF FailsFirst, Emits
    <3>3. CASE \E m \in DOMAIN stack :
                 m > 1 /\ k = m + Len(P) - 1 /\ stack'[k] = stack[m]
      <4>1. PICK m \in DOMAIN stack : k = m + Len(P) - 1 /\ stack'[k] = stack[m]
        BY <3>3
      <4>2. Over \/ ~it.open \/ it.done \/ it.returned \/ FailsFirst(m)
        BY <4>1 DEF ItInv, ErrorFirst
      <4>3. k \in Nat
        <5>1. IsSeq(stack')
          BY <1>9 DEF Shifted
        <5> QED BY <5>1, Indexed
      <4> QED BY <1>9, <1>15, <4>1, <4>2, <4>3, FirstMoved
    <3> QED BY <1>9, <3>2, <3>3, Origin
  <2> QED BY <2>1, <2>2
<1> QED BY <1>14, <1>15, <1>16, <1>17 DEF ItInv

-----------------------------------------------------------------------------
(* The iterator: the listeners. *)

LEMMA OnKeepsIt ==
  ASSUME Inv, RInv, ItInv, On, io' = io, it' = it
  PROVE  ItInv'
<1>1. /\ top.s = r /\ top = stack[1] /\ 1 \in DOMAIN stack /\ stack[1].fn = "on"
      /\ IsSeq(stack) /\ stack # <<>> /\ r \in DOMAIN rs /\ Running("on")
  BY ReaderRuns DEF On, ReaderCalls
<1>2. PICK ev : ev = top.ev
  OBVIOUS
<1>3. PICK l : l = top.l
  OBVIOUS
<1>4. PICK P : P = <<>>
  OBVIOUS
<1>5. /\ listeners' = [listeners EXCEPT ![r][ev] = Append(@, l)] /\ Continue(P)
      /\ CASE ev = "data" -> Resume(r)
           [] ev = "readable" ->
                /\ rs' = [rs EXCEPT ![r] = Paused(@)]
                /\ ticks' = Append(ticks, Call("maybeRead", r))
           [] OTHER -> UNCHANGED <<rs, ticks>>
  BY <1>1, <1>2, <1>3, <1>4 DEF On
<1>6. Steady
  <2>1. ASSUME rs' = rs PROVE Steady
    BY <2>1 DEF Steady
  <2>2. ASSUME rs' = [rs EXCEPT ![r] = Paused(@)] PROVE Steady
    BY <2>2, ReaderShape DEF Steady, Paused
  <2>3. ASSUME rs' = [rs EXCEPT ![r] = Resumed(@)] PROVE Steady
    <3>1. rs'[r].destroyed = rs[r].destroyed /\ rs'[r].errored = rs[r].errored
          /\ rs'[r].endEmitted = rs[r].endEmitted
      BY <2>3, ReaderShape DEF Resumed
    <3> QED BY <3>1 DEF Steady
  <2>4. \/ rs' = rs \/ rs' = [rs EXCEPT ![r] = Paused(@)] \/ rs' = [rs EXCEPT ![r] = Resumed(@)]
    BY <1>5 DEF Resume
  <2> QED BY <2>1, <2>2, <2>3, <2>4
<1>7. HeardAt(l, r, ev) /\ ev \in Events
  BY <1>1, <1>2, <1>3, Top DEF RInv, Fetching, Fetches, Known
<1>8. AllMuted(P) /\ Shifted(P, 1) /\ Unfelt(1)
  <2>1. AllMuted(P)
    BY <1>4, MutedLists
  <2>2. Shifted(P, 1)
    BY <1>1, <1>5, <2>1, Replaced DEF AllMuted
  <2> QED BY <1>1, <2>1, <2>2 DEF Unfelt, Emits
<1>9. (HearsErrors => HearsErrors') /\ (ListensNow(1) => HearsErrors')
  <2>1. CASE ev = "error"
    <3>1. IsSeq(listeners[r]["error"]) /\ listeners'[r]["error"] = Append(listeners[r]["error"], l)
      BY <1>5, <1>7, <2>1, OneStream DEF Inv, Calls, Listening
    <3>2. PICK q : q = listeners[r]["error"]
      OBVIOUS
    <3>3. PICK a : a = Append(q, l)
      OBVIOUS
    <3>4. listeners'[r]["error"] = a /\ IsSeq(q) /\ IsSeq(a) /\ Len(a) = Len(q) + 1
          /\ (\A k \in 1..Len(q) : a[k] = q[k]) /\ a[Len(q) + 1] = l
      BY <3>1, <3>2, <3>3, AppendedTo
    <3>5. Len(q) \in Nat /\ DOMAIN q = 1..Len(q) /\ DOMAIN a = 1..Len(a)
      BY <3>4, Indexed
    <3>6. (\A k \in DOMAIN q : k \in DOMAIN a) /\ Len(q) + 1 \in DOMAIN a
      BY <3>4, <3>5
    <3>7. ListensNow(1) => l.fn = "itError"
      BY <1>1, <1>3 DEF ListensNow
    <3>8. HearsErrors => \E k \in DOMAIN q : q[k].fn = "itError"
      BY <3>2 DEF HearsErrors
    <3>9. (\E k \in DOMAIN a : a[k].fn = "itError") => HearsErrors'
      BY <3>4 DEF HearsErrors
    <3> QED BY <3>4, <3>5, <3>6, <3>7, <3>8, <3>9
  <2>2. CASE ev # "error"
    <3>1. listeners'[r]["error"] = listeners[r]["error"]
      BY <1>5, <1>7, <2>2, OneStream DEF Inv, Calls, Listening, Events
    <3>2. ~ListensNow(1)
      BY <1>1, <1>3, <1>7, <2>2 DEF ListensNow, HeardAt
    <3> QED BY <3>1, <3>2 DEF HearsErrors
  <2> QED BY <2>1, <2>2
<1>10. NoClose
  BY Quiet
<1> QED BY <1>6, <1>8, <1>9, <1>10, MutedStep

LEMMA RemoveKeepsIt ==
  ASSUME Inv, RInv, ItInv, RemoveListener, io' = io, it' = it
  PROVE  ItInv'
<1>1. /\ top.s = r /\ top = stack[1] /\ 1 \in DOMAIN stack /\ stack[1].fn = "off"
      /\ IsSeq(stack) /\ stack # <<>> /\ r \in DOMAIN rs /\ Running("off")
  BY ReaderRuns DEF RemoveListener, ReaderCalls
<1>2. PICK ev : ev = top.ev
  OBVIOUS
<1>3. PICK P : P = <<>>
  OBVIOUS
<1>4. \E kept, a : /\ listeners' = [listeners EXCEPT ![r][ev] = kept]
                   /\ rs' = [rs EXCEPT ![r].flowing = a]
  <2>1. PICK s : s = top.s
    OBVIOUS
  <2>2. PICK i \in 0..Len(listeners[s][ev]) :
          LET kept == IF i = 0 THEN listeners[s][ev] ELSE RemoveAt(listeners[s][ev], i)
          IN /\ listeners' = [listeners EXCEPT ![s][ev] = kept]
             /\ rs' = [rs EXCEPT ![s].flowing = @ /\ ~(ev = "data" /\ kept = <<>>)]
    BY <1>2, <2>1, Zenon DEF RemoveListener
  <2>3. PICK kept : /\ listeners' = [listeners EXCEPT ![s][ev] = kept]
                    /\ rs' = [rs EXCEPT ![s].flowing = @ /\ ~(ev = "data" /\ kept = <<>>)]
    BY <2>2, Zenon
  <2>4. PICK a : a = (rs[s].flowing /\ ~(ev = "data" /\ kept = <<>>))
    OBVIOUS
  <2>5. rs' = [rs EXCEPT ![s].flowing = a]
    BY <2>3, <2>4, Zenon
  <2>6. s = r
    BY <1>1, <2>1
  <2> QED BY <2>3, <2>5, <2>6, Zenon
<1>5. Steady
  <2>1. PICK a : rs' = [rs EXCEPT ![r].flowing = a]
    BY <1>4
  <2> QED BY <2>1, ReaderShape DEF Steady
<1>6. ev \in Events
  BY <1>1, <1>2, Top DEF Known
<1>7. it.returned \/ (HearsErrors => HearsErrors')
  <2>1. it.returned \/ ev = "data"
    BY <1>1, <1>2 DEF RInv, Fetching, Fetches
  <2>2. CASE ev = "data"
    <3>1. PICK kept : listeners' = [listeners EXCEPT ![r][ev] = kept]
      BY <1>4
    <3>2. listeners'[r]["error"] = listeners[r]["error"]
      BY <1>6, <2>2, <3>1, OneStream DEF Inv, Calls, Listening, Events
    <3> QED BY <3>2 DEF HearsErrors
  <2> QED BY <2>1, <2>2
<1>8. AllMuted(P) /\ Shifted(P, 1) /\ Unfelt(1) /\ ~ListensNow(1)
  <2>1. AllMuted(P) /\ Continue(P)
    BY <1>3, MutedLists DEF RemoveListener
  <2>2. Shifted(P, 1)
    BY <1>1, <2>1, Replaced DEF AllMuted
  <2> QED BY <1>1, <2>1, <2>2 DEF Unfelt, ListensNow, Emits
<1> QED BY <1>5, <1>7, <1>8, Quiet, MutedStep

LEMMA EmitKeepsIt ==
  ASSUME Inv, RInv, ItInv, EmitStep, io' = io, it' = it
  PROVE  ItInv'
<1>1. /\ Running("emit") /\ top = stack[1] /\ 1 \in DOMAIN stack /\ stack[1].fn = "emit"
      /\ IsSeq(stack) /\ stack # <<>> /\ top.s \in Streams /\ top.ev \in Events
      /\ rs' = rs /\ listeners' = listeners
  BY Top DEF EmitStep, Known
<1>2. PICK P : P = Notifications
  OBVIOUS
<1>3. PICK list : list = listeners[top.s][top.ev]
  OBVIOUS
<1>4. /\ Continue(P) /\ IsSeq(P) /\ Len(P) = Len(list) /\ Len(P) \in Nat /\ DOMAIN P = 1..Len(P)
      /\ \A k \in 1..Len(P) :
           P[k].fn = list[k].fn /\ HeardAt(list[k], top.s, top.ev) /\ k \in DOMAIN list
  BY <1>2, <1>3, Telling
<1>5. ASSUME NEW k \in 1..Len(P)
      PROVE  /\ P[k].fn \notin {"closed", "_destroy", "emit"}
             /\ P[k].fn = "itEnd" => top.s = r /\ top.ev \in {"end", "close"}
             /\ P[k].fn = "itError" => top.s = r /\ top.ev = "error"
  <2>1. Listener(list[k])
    BY <1>1, <1>3, <1>4 DEF Inv, Calls, Listening
  <2> QED BY <1>4, <2>1 DEF HeardAt, Listener
<1>6. Shifted(P, 1) /\ ~ListensNow(1)
  BY <1>1, <1>4, Replaced DEF ListensNow
<1>7. Steady /\ NoClose /\ (HearsErrors => HearsErrors') /\ \A k \in 1..Len(P) : ~Closing(P[k], r)
  BY <1>1, <1>5, Quiet DEF Steady, HearsErrors, Closing
<1>8. CASE ~(top.s = r /\ top.ev \in {"end", "close", "error"})
  <2>1. AllMuted(P)
    BY <1>4, <1>5, <1>8 DEF AllMuted, Muted, Closing, Emits
  <2>2. Unfelt(1)
    BY <1>1, <1>8 DEF Unfelt, Emits
  <2> QED BY <1>6, <1>7, <2>1, <2>2, MutedStep
<1>9. CASE top.s = r /\ top.ev \in {"end", "close", "error"}
  <2>1. (ClosedClean => ClosedClean') /\ Finished' /\ (Over => Over')
    <3>1. ClosedClean => ClosedClean'
      BY <1>6, <1>7, CleanKept
    <3> QED BY <1>7, <3>1, FinishedKept DEF ItInv, Steady
  <2>2. ErrorHeard'
    BY <1>6, <1>7, ErrorHeardKept DEF ItInv
  <2>3. ErrorKept'
    <3>1. rs'[r].errored => rs[r].errored /\ rs'[r].destroyed
      BY <1>1 DEF ItInv, ErrorKept
    <3>2. \A k \in DOMAIN io' : Closing(io'[k], r) => (rs[r].errored => io'[k].err)
      BY DEF ItInv, ErrorKept
    <3> QED BY <1>6, <1>7, <3>1, <3>2, ErrorStays DEF ItInv
  <2>4. ErrorFirst'
    <3>1. CASE top.ev = "end"
      <4>1. rs[r].endEmitted
        BY <1>1, <1>9, <3>1, OneStream DEF Inv, Life, Emits
      <4> QED BY <1>1, <4>1 DEF ErrorFirst, Over
    <3>2. CASE top.ev = "close"
      <4>1. Emits(stack[1], r, "close")
        BY <1>1, <1>9, <3>2 DEF Emits
      <4>2. ~FailsFirst(1)
        BY DEF FailsFirst
      <4>3. Over \/ ~it.open \/ it.done \/ it.returned
        BY <1>1, <4>1, <4>2 DEF ItInv, ErrorFirst
      <4> QED BY <2>1, <4>3 DEF ErrorFirst
    <3>3. CASE top.ev = "error"
      <4> SUFFICES ASSUME NEW k \in DOMAIN stack',
                          stack'[k].fn = "itEnd" \/ Emits(stack'[k], r, "close"),
                          it.open, ~it.returned
                   PROVE  FailsFirst(k)'
        BY DEF ErrorFirst, Emits
      <4>1. PICK m \in DOMAIN stack : m > 1 /\ k = m + Len(P) - 1 /\ stack'[k] = stack[m]
        BY <1>5, <1>6, <3>3, Origin DEF Emits
      <4>2. ~WillHear
        <5>1. ASSUME NEW j \in DOMAIN stack, stack[j].fn = "on" PROVE FALSE
          <6>1. j # 1 /\ \A n \in 1..(j - 1) : stack[n].fn = "on"
            BY <1>1, <5>1 DEF RInv, Fetching, Joining, Joins
          <6>2. 1 \in 1..(j - 1)
            BY <1>1, <6>1, Indexed
          <6> QED BY <1>1, <6>1, <6>2
        <5> QED BY <5>1 DEF WillHear
      <4>3. PICK i \in DOMAIN list : list[i].fn = "itError"
        BY <1>3, <1>9, <3>3, <4>2 DEF ItInv, ErrorHeard, HearsErrors
      <4>4. IsSeq(list) /\ DOMAIN list = 1..Len(list)
        BY <1>1, <1>3, Indexed DEF Inv, Calls, Listening
      <4>5. i \in 1..Len(P) /\ stack'[i] = P[i] /\ P[i].fn = "itError"
        BY <1>4, <1>6, <4>3, <4>4 DEF Shifted
      <4>6. i \in 1..(k - 1)
        <5>1. m \in Nat
          BY <1>1, <4>1, Indexed
        <5>2. PICK n \in Nat : n = Len(P)
          BY <1>4
        <5>3. k = m + n - 1 /\ i \in 1..n
          BY <4>1, <4>5, <5>2
        <5> QED BY <4>1, <5>1, <5>3
      <4> QED BY <4>5, <4>6 DEF FailsFirst, Emits
    <3> QED BY <1>9, <3>1, <3>2, <3>3
  <2> QED BY <2>1, <2>2, <2>3, <2>4 DEF ItInv
<1> QED BY <1>8, <1>9

-----------------------------------------------------------------------------
(* The iterator: its own steps. *)

SameStreams == UNCHANGED <<rs, listeners, io>>

\* What a step of the iterator leaves of the invariant.
LEMMA IteratorLeaves ==
  ASSUME Inv, ItInv, NEW f, Running(f), NEW P, Continue(P), AllMuted(P), SameStreams
  PROVE  /\ Shifted(P, 1) /\ 1 \in DOMAIN stack /\ stack[1].fn = f /\ top = stack[1]
         /\ ErrorKept' /\ (ClosedClean => ClosedClean') /\ (Over => Over') /\ NoEnds(P)
         /\ (HearsErrors => HearsErrors')
<1>1. /\ 1 \in DOMAIN stack /\ stack[1].fn = f /\ top = stack[1] /\ IsSeq(stack) /\ stack # <<>>
  BY Top
<1>2. Shifted(P, 1)
  BY <1>1, Replaced DEF AllMuted
<1>3. NoEnds(P) /\ \A k \in 1..Len(P) : ~Closing(P[k], r)
  BY DEF AllMuted, Muted, NoEnds
<1>4. Steady /\ NoClose /\ (HearsErrors => HearsErrors')
  BY Quiet DEF SameStreams, Steady, HearsErrors
<1>5. ClosedClean => ClosedClean'
  BY <1>2, <1>3, <1>4, CleanKept
<1>6. Over => Over'
  BY <1>4, <1>5 DEF Over, Steady
<1>7. ErrorKept'
  <2>1. rs'[r].errored => rs[r].errored /\ rs'[r].destroyed
    BY DEF ItInv, ErrorKept, SameStreams
  <2>2. \A k \in DOMAIN io' : Closing(io'[k], r) => (rs[r].errored => io'[k].err)
    BY DEF ItInv, ErrorKept, SameStreams
  <2> QED BY <1>2, <1>3, <2>1, <2>2, ErrorStays DEF ItInv
<1> QED BY <1>1, <1>2, <1>3, <1>4, <1>5, <1>6, <1>7

LEMMA IterateKeepsIt ==
  ASSUME Inv, RInv, ItInv, Iterate, SameStreams
  PROVE  ItInv'
<1>1. PICK on : on = InOrder(OnCall)
  OBVIOUS
<1>2. PICK z : z = <<Call("resume", r)>>
  OBVIOUS
<1>3. PICK P : P = on \o z
  OBVIOUS
<1>4. Running("iterate") /\ Continue(P) /\ it' = [it EXCEPT !.open = TRUE]
  BY <1>1, <1>2, <1>3 DEF Iterate
<1>5. /\ IsSeq(on) /\ Len(on) = 4 /\ on[3] = OnCall(r, "error", Call("itError", r))
      /\ \A k \in 1..4 : Muted(on[k])
  <2>1. /\ IsSeq(on) /\ Len(on) = 4
        /\ on[1] = OnCall(r, "data", Call("itData", r)) /\ on[2] = OnCall(r, "end", Call("itEnd", r))
        /\ on[3] = OnCall(r, "error", Call("itError", r)) /\ on[4] = OnCall(r, "close", Call("itEnd", r))
    BY <1>1, FourInOrder
  <2>2. Muted(on[1]) /\ Muted(on[2]) /\ Muted(on[3]) /\ Muted(on[4])
    BY <2>1, MutedCalls
  <2>3. \A k \in 1..4 : k = 1 \/ k = 2 \/ k = 3 \/ k = 4
    OBVIOUS
  <2> QED BY <2>1, <2>2, <2>3
<1>6. AllMuted(on) /\ AllMuted(z)
  BY <1>2, <1>5, MutedLists, MutedCalls DEF AllMuted
<1>7. AllMuted(P)
  BY <1>3, <1>6, MutedJoined
<1>8. /\ Shifted(P, 1) /\ 1 \in DOMAIN stack /\ stack[1].fn = "iterate"
      /\ ErrorKept' /\ (ClosedClean => ClosedClean') /\ (Over => Over') /\ NoEnds(P)
  BY <1>4, <1>7, IteratorLeaves
<1>9. ~it.open /\ ~rs[r].destroyed
  BY <1>8 DEF RInv, Fetching, Sharp, AtTop
<1>10. Alive(r)
  <2>1. r \in Writers => (rs[r].destroyed <=> ws[r].destroyed)
    BY OneStream DEF Inv, States
  <2>2. ~Destroyed(r)
    BY <1>9, <2>1 DEF Destroyed
  <2> QED BY <2>2, OneStream DEF Inv, Life
<1>11. ErrorFirst'
  <2> SUFFICES ASSUME NEW k \in DOMAIN stack',
                      stack'[k].fn = "itEnd" \/ Emits(stack'[k], r, "close")
               PROVE  FALSE
    BY DEF ErrorFirst, Emits
  <2>1. PICK m \in DOMAIN stack : stack'[k] = stack[m]
    BY <1>8, Origin DEF NoEnds
  <2>2. stack[m].fn # "itEnd"
    BY <1>9 DEF RInv, Fetching, Fetches
  <2>3. ~Emits(stack[m], r, "close")
    BY <1>10 DEF Alive, Leaving
  <2> QED BY <2>1, <2>2, <2>3
<1>12. ErrorHeard'
  <2>1. Len(P) = 5 /\ P[3] = on[3]
    <3>1. IsSeq(z) /\ Len(z) = 1
      BY <1>2, Short
    <3>2. /\ Len(on \o z) = Len(on) + Len(z)
          /\ \A k \in 1..Len(on) : (on \o z)[k] = on[k]
      BY <1>5, <3>1, Joined
    <3>3. Len(P) = 4 + 1 /\ \A k \in 1..4 : P[k] = on[k]
      BY <1>3, <1>5, <3>1, <3>2
    <3> QED BY <3>3
  <2>2. stack'[3] = P[3] /\ 3 \in DOMAIN stack'
    <3>1. /\ Len(stack) \in Nat /\ DOMAIN stack' = 1..Len(stack') /\ 1 <= Len(stack)
          /\ Len(stack') = Len(P) + Len(stack) - 1
      BY <1>8, Indexed DEF Shifted
    <3>2. 3 \in 1..Len(P)
      BY <2>1
    <3>3. stack'[3] = P[3]
      BY <1>8, <3>2 DEF Shifted
    <3> QED BY <2>1, <3>1, <3>3
  <2>3. P[3].fn = "on" /\ P[3].l.fn = "itError"
    BY <1>5, <2>1 DEF OnCall, Call
  <2> QED BY <2>2, <2>3 DEF ErrorHeard, WillHear
<1>13. Finished'
  <2>1. /\ it'.done = it.done /\ it'.failed = it.failed /\ it'.returned = it.returned
        /\ it'.answers = it.answers /\ it'.queue = it.queue /\ rs' = rs
    BY <1>4 DEF RInv, ReaderTypes, Iterator, SameStreams
  <2> QED BY <1>8, <2>1 DEF ItInv, Finished
<1> QED BY <1>8, <1>11, <1>12, <1>13 DEF ItInv

LEMMA ItDataKeepsIt ==
  ASSUME Inv, RInv, ItInv, ItData, SameStreams
  PROVE  ItInv'
<1>1. PICK P : P = <<>>
  OBVIOUS
<1>2. Running("itData") /\ Continue(P) /\ AllMuted(P) /\ it \in Iterator
  BY <1>1, MutedLists DEF ItData, RInv, ReaderTypes
<1>3. /\ Shifted(P, 1) /\ 1 \in DOMAIN stack /\ stack[1].fn = "itData"
      /\ ErrorKept' /\ (ClosedClean => ClosedClean') /\ (Over => Over') /\ NoEnds(P)
      /\ (HearsErrors => HearsErrors')
  BY <1>2, IteratorLeaves
<1>4. /\ it'.open = it.open /\ it'.done = it.done /\ it'.failed = it.failed
      /\ it'.returned = it.returned /\ it'.answers = it.answers
  BY <1>2 DEF ItData, Iterator
<1>5. Unfelt(1) /\ ~ListensNow(1)
  BY <1>3 DEF Unfelt, ListensNow, Emits
<1>6. ErrorFirst' /\ ErrorHeard'
  BY <1>3, <1>4, <1>5, ErrorFirstKept, ErrorHeardKept DEF ItInv
<1>7. ~rs[r].endEmitted
  <2> SUFFICES ASSUME rs[r].endEmitted PROVE FALSE
    OBVIOUS
  <2>1. InFlight /\ ~Arriving
    BY <1>3 DEF InFlight, Arriving, Delivers, Brings
  <2>2. /\ Given \in Nat /\ Buffered \in Nat /\ Len(rs[r].buffer) \in Nat /\ Sent = Given + 1
        /\ Buffered = Sent + Len(rs[r].buffer)
    BY <2>1, Sizes DEF RInv
  <2>3. produced = Buffered /\ produced \in 0..Total /\ Given = Total /\ Total \in Nat
    <3>1. produced = Buffered + 0
      BY <2>1 DEF RInv, InLine, One
    <3>2. produced = Buffered
      BY <2>2, <3>1
    <3>3. Given = Total /\ produced \in 0..Total
      BY DEF RInv, ReaderTypes, Ending
    <3>4. Total \in Nat
      BY UserAssumption
    <3> QED BY <3>2, <3>3, <3>4
  <2>4. PICK a \in Nat, b \in Nat : a = Given /\ b = Len(rs[r].buffer)
    BY <2>2
  <2>5. (a + 1) + b \in 0..a
    BY <2>2, <2>3, <2>4
  <2> QED BY <2>5
<1>8. Finished'
  <2>1. rs' = rs
    BY DEF SameStreams
  <2> QED BY <1>3, <1>4, <1>7, <2>1 DEF ItInv, Finished
<1> QED BY <1>3, <1>6, <1>8 DEF ItInv

LEMMA ItEndKeepsIt ==
  ASSUME Inv, RInv, ItInv, Waiters, ItEnd, SameStreams
  PROVE  ItInv'
<1>1. PICK P : P = <<>>
  OBVIOUS
<1>2. Running("itEnd") /\ Continue(P) /\ AllMuted(P) /\ it \in Iterator
  BY <1>1, MutedLists DEF ItEnd, RInv, ReaderTypes
<1>3. /\ Shifted(P, 1) /\ 1 \in DOMAIN stack /\ stack[1].fn = "itEnd"
      /\ ErrorKept' /\ (ClosedClean => ClosedClean') /\ (Over => Over') /\ NoEnds(P)
      /\ (HearsErrors => HearsErrors')
  BY <1>2, IteratorLeaves
<1>4. /\ it'.open = it.open /\ it'.failed = it.failed /\ it'.returned = it.returned
      /\ it'.queue = it.queue /\ it'.done
      /\ it'.answers = it.answers \/ ~it.done
      /\ it'.answers = it.answers \/ it.waiters > 0
  <2>1. CASE it.done
    BY <1>2, <2>1 DEF ItEnd
  <2>2. CASE ~it.done
    <3>1. it' = [it EXCEPT !.done = TRUE, !.waiters = 0,
                           !.answers = @ \cup Answered(it.waiters, "done")]
      BY <2>2 DEF ItEnd
    <3>2. it.waiters > 0 \/ Answered(it.waiters, "done") = {}
      BY DEF Answered
    <3>3. it'.answers = it.answers \cup Answered(it.waiters, "done")
      BY <1>2, <3>1 DEF Iterator
    <3> QED BY <1>2, <2>2, <3>1, <3>2, <3>3 DEF Iterator
  <2> QED BY <2>1, <2>2
<1>5. Unfelt(1) /\ ~ListensNow(1)
  BY <1>3 DEF Unfelt, ListensNow, Emits
<1>6. ErrorFirst' /\ ErrorHeard'
  BY <1>3, <1>4, <1>5, ErrorFirstKept, ErrorHeardKept DEF ItInv
<1>7. Over \/ it.done \/ it.returned
  <2>1. ~FailsFirst(1)
    BY DEF FailsFirst
  <2>2. it.open
    BY <1>3 DEF RInv, Fetching, Fetches
  <2> QED BY <1>3, <2>1, <2>2 DEF ItInv, ErrorFirst
<1>8. Finished'
  <2>1. rs' = rs
    BY DEF SameStreams
  <2>2. it'.done /\ ~it'.failed /\ ~it'.returned => Over'
    BY <1>3, <1>4, <1>7 DEF ItInv, Finished
  <2>3. ASSUME "done" \in it'.answers, ~it'.returned
        PROVE  ClosedClean' \/ (rs'[r].endEmitted /\ it'.queue = <<>>)
    <3>1. CASE it'.answers = it.answers
      BY <1>3, <1>4, <2>1, <2>3, <3>1 DEF ItInv, Finished
    <3>2. CASE it'.answers # it.answers
      <4>1. ~it.done /\ it.queue = <<>>
        BY <1>4, <3>2 DEF Waiters
      <4> QED BY <1>3, <1>4, <1>7, <2>1, <2>3, <4>1 DEF Over
    <3> QED BY <3>1, <3>2
  <2> QED BY <2>2, <2>3 DEF Finished
<1> QED BY <1>3, <1>6, <1>8 DEF ItInv

LEMMA ItErrorKeepsIt ==
  ASSUME Inv, RInv, ItInv, ItError, SameStreams
  PROVE  ItInv'
<1>1. PICK P : P = <<>>
  OBVIOUS
<1>2. Running("itError") /\ Continue(P) /\ AllMuted(P) /\ it \in Iterator
  BY <1>1, MutedLists DEF ItError, RInv, ReaderTypes
<1>3. /\ Shifted(P, 1) /\ 1 \in DOMAIN stack /\ stack[1].fn = "itError"
      /\ ErrorKept' /\ (ClosedClean => ClosedClean') /\ (Over => Over')
      /\ (HearsErrors => HearsErrors')
  BY <1>2, IteratorLeaves
<1>4. /\ it'.open = it.open /\ it'.returned = it.returned /\ it'.queue = it.queue /\ it'.done
      /\ "done" \in it'.answers => "done" \in it.answers
      /\ ~it'.failed => it.done /\ ~it.failed
  <2>1. CASE it.done
    BY <1>2, <2>1 DEF ItError
  <2>2. CASE ~it.done
    <3>1. it' = [it EXCEPT !.done = TRUE, !.failed = TRUE, !.waiters = 0,
                           !.answers = @ \cup Answered(it.waiters, "failed")]
      BY <2>2 DEF ItError
    <3>2. "done" \notin Answered(it.waiters, "failed")
      BY DEF Answered
    <3>3. it'.answers = it.answers \cup Answered(it.waiters, "failed")
      BY <1>2, <3>1 DEF Iterator
    <3> QED BY <1>2, <3>1, <3>2, <3>3 DEF Iterator
  <2> QED BY <2>1, <2>2
<1>5. ~ListensNow(1)
  BY <1>3 DEF ListensNow
<1>6. ErrorFirst' /\ ErrorHeard'
  <2>1. ErrorFirst'
    BY <1>4 DEF ErrorFirst
  <2>2. ErrorHeard'
    BY <1>3, <1>4, <1>5, ErrorHeardKept DEF ItInv
  <2> QED BY <2>1, <2>2
<1>7. Finished'
  <2>1. rs' = rs
    BY DEF SameStreams
  <2> QED BY <1>3, <1>4, <2>1 DEF ItInv, Finished
<1> QED BY <1>3, <1>6, <1>7 DEF ItInv

LEMMA ItNextKeepsIt ==
  ASSUME Inv, RInv, ItInv, ItNext, SameStreams
  PROVE  ItInv'
<1>1. PICK P : P = <<>>
  OBVIOUS
<1>2. Running("itNext") /\ Continue(P) /\ AllMuted(P) /\ it \in Iterator
  BY <1>1, MutedLists DEF ItNext, RInv, ReaderTypes
<1>3. /\ Shifted(P, 1) /\ 1 \in DOMAIN stack /\ stack[1].fn = "itNext"
      /\ ErrorKept' /\ (ClosedClean => ClosedClean') /\ (Over => Over') /\ NoEnds(P)
      /\ (HearsErrors => HearsErrors')
  BY <1>2, IteratorLeaves
<1>4. /\ it'.open = it.open /\ it'.done = it.done /\ it'.failed = it.failed
      /\ it'.returned = it.returned /\ (it.queue = <<>> => it'.queue = <<>>)
      /\ "done" \in it'.answers =>
           "done" \in it.answers \/ (it.queue = <<>> /\ it.done /\ ~it.failed)
  <2>1. CASE it.queue # <<>>
    <3>1. it' = [it EXCEPT !.queue = Tail(@)]
      BY <2>1 DEF ItNext
    <3> QED BY <1>2, <2>1, <3>1 DEF Iterator
  <2>2. CASE it.queue = <<>> /\ it.done
    <3>1. it' = [it EXCEPT !.answers = @ \cup {IF it.failed THEN "failed" ELSE "done"}]
      BY <2>2 DEF ItNext
    <3> QED BY <1>2, <2>2, <3>1 DEF Iterator
  <2>3. CASE it.queue = <<>> /\ ~it.done
    <3>1. it' = [it EXCEPT !.waiters = @ + 1]
      BY <2>3 DEF ItNext
    <3> QED BY <1>2, <2>3, <3>1 DEF Iterator
  <2> QED BY <2>1, <2>2, <2>3
<1>5. Unfelt(1) /\ ~ListensNow(1)
  BY <1>3 DEF Unfelt, ListensNow, Emits
<1>6. ErrorFirst' /\ ErrorHeard'
  BY <1>3, <1>4, <1>5, ErrorFirstKept, ErrorHeardKept DEF ItInv
<1>7. Finished'
  <2>1. rs' = rs
    BY DEF SameStreams
  <2> QED BY <1>3, <1>4, <2>1 DEF ItInv, Finished, Over
<1> QED BY <1>3, <1>6, <1>7 DEF ItInv

LEMMA ItReturnKeepsIt ==
  ASSUME Inv, RInv, ItInv, ItReturn, SameStreams
  PROVE  ItInv'
<1>1. PICK P : P = InOrder(OffCall)
  OBVIOUS
<1>2. Running("itReturn") /\ Continue(P) /\ it' = [it EXCEPT !.done = TRUE, !.returned = TRUE]
  BY <1>1 DEF ItReturn
<1>3. AllMuted(P)
  <2>1. IsSeq(P) /\ Len(P) = 4
    BY <1>1, FourInOrder
  <2>2. ASSUME NEW k \in 1..4 PROVE Muted(P[k])
    <3>1. PICK ev \in Events : P[k] = OffCall(r, ev, IteratorListens[ev])
      BY <1>1, FourInOrder
    <3> QED BY <3>1, MutedCalls
  <2> QED BY <2>1, <2>2 DEF AllMuted
<1>4. ErrorKept'
  BY <1>2, <1>3, IteratorLeaves
<1>5. it'.returned
  BY <1>2 DEF RInv, ReaderTypes, Iterator
<1> QED BY <1>4, <1>5 DEF ItInv, ErrorFirst, ErrorHeard, Finished

LEMMA IteratorKeepsIt ==
  ASSUME Inv, RInv, ItInv, Waiters, IteratorStep, UNCHANGED <<rs, listeners>>
  PROVE  ItInv'
<1>1. SameStreams
  BY DEF IteratorStep, SameStreams
<1>2. Iterate \/ ItData \/ ItEnd \/ ItError \/ ItNext \/ ItReturn
  BY DEF IteratorStep
<1> QED BY <1>1, <1>2, IterateKeepsIt, ItDataKeepsIt, ItEndKeepsIt, ItErrorKeepsIt,
           ItNextKeepsIt, ItReturnKeepsIt

-----------------------------------------------------------------------------
(* An end is complete. *)

LEMMA LibraryKeepsIt ==
  ASSUME Inv, WInv, RInv, ItInv, Library
  PROVE  ItInv'
<1>1. io' = io /\ it' = it
  BY DEF Library
<1>2. CASE \/ ReadableStep \/ Read \/ AfterRead \/ Unshift \/ PauseCall \/ ResumeCall
           \/ WritableStep \/ CorkStep \/ AutoDestroy \/ FailNext \/ DropWrites
  BY <1>1, <1>2, RunningMutes, Quiet, MutesStep
<1>3. CASE On \/ RemoveListener
  BY <1>1, <1>3, OnKeepsIt, RemoveKeepsIt
<1>4. CASE Destroy
  <2>1. CASE Destroyed(top.s) \/ top.s # r
    BY <1>1, <1>4, <2>1, OtherDestroyMutes, Quiet, MutesStep
  <2>2. CASE ~Destroyed(top.s) /\ top.s = r
    BY <1>1, <1>4, <2>2, DestroyKeepsIt
  <2> QED BY <2>1, <2>2
<1>5. CASE Closed
  <2>1. CASE top.s # r
    BY <1>1, <1>5, <2>1, OtherClosedMutes, Quiet, MutesStep
  <2>2. CASE top.s = r
    BY <1>1, <1>5, <2>2, ClosedKeepsIt
  <2> QED BY <2>1, <2>2
<1>6. CASE EmitStep \/ RunTick
  BY <1>1, <1>6, EmitKeepsIt, TickKeepsIt
<1> QED BY <1>2, <1>3, <1>4, <1>5, <1>6 DEF Library, ReaderCall, DestroyStep

LEMMA NextItInv ==
  ASSUME Inv, WInv, RInv, Waiters, ItInv, use \in Uses, [Next]_vars
  PROVE  ItInv'
<1>1. CASE Library
  BY <1>1, LibraryKeepsIt
<1>2. CASE SubclassCalled
  BY <1>2, CalledKeepsIt
<1>3. CASE UserCalls \/ UserReturns \/ DataArrives \/ CallbackRuns
  BY <1>3, UserKeepsIt
<1>4. CASE IteratorStep /\ UNCHANGED <<rs, ws, listeners, ticks, ret, emitted>>
  BY <1>4, IteratorKeepsIt
<1>5. ASSUME NEW i \in DOMAIN io, SubclassAnswers(i) PROVE ItInv'
  BY <1>5, AnswersKeepIt
<1>6. CASE UNCHANGED vars
  <2>1. UNCHANGED <<rs, listeners, stack, io, it>>
    BY <1>6 DEF vars, streamVars, userVars
  <2>2. ErrorKept' /\ ErrorFirst'
    BY <2>1 DEF ItInv, ErrorKept, ErrorFirst, Over, ClosedClean, NothingLeft, FailsFirst,
                Closing, Emits
  <2>3. ErrorHeard' /\ Finished'
    BY <2>1 DEF ItInv, ErrorHeard, HearsErrors, WillHear, Finished, Over, ClosedClean,
                NothingLeft, Closing
  <2> QED BY <2>2, <2>3 DEF ItInv
<1> QED BY <1>1, <1>2, <1>3, <1>4, <1>5, <1>6 DEF Next, Proceed

LEMMA InitItInv ==
  ASSUME Init
  PROVE  ItInv
<1>1. /\ rs = [s \in Readers |-> ReadableState] /\ stack = <<>> /\ io = <<>> /\ it = NoIterator
  BY DEF Init, StreamInit
<1>2. rs[r] = ReadableState
  BY <1>1, OneStream
<1>3. ~rs[r].errored
  BY <1>2 DEF ReadableState
<1>4. ~it.open /\ ~it.done /\ it.answers = {}
  BY <1>1 DEF NoIterator
<1>5. DOMAIN stack = {} /\ DOMAIN io = {}
  BY <1>1
<1> QED BY <1>3, <1>4, <1>5 DEF ItInv, ErrorKept, ErrorFirst, ErrorHeard, Finished

LEMMA EndComplete ==
  ASSUME Inv, RInv, ItInv
  PROVE  EndIsComplete
<1>1. rs[r].endEmitted => got \o it.queue = FirstChunks(Total)
  BY GivenChunks DEF RInv, Ending
<1>2. ASSUME Contains(emitted[r], "end") PROVE rs[r].endEmitted
  <2>1. Came(r, "end")
    <3>1. emitted[r] \in Seq(Lifecycle)
      BY OneStream DEF Inv, States
    <3> QED BY <1>2, <3>1 DEF Came, Contains
  <2> QED BY <2>1, OneStream DEF Inv, Life
<1>3. ASSUME "done" \in it.answers, ~it.returned
      PROVE  got = FirstChunks(Total) \/ (rs[r].destroyed /\ ~rs[r].errored)
  <2>1. ClosedClean \/ (rs[r].endEmitted /\ it.queue = <<>>)
    BY <1>3 DEF ItInv, Finished
  <2>2. CASE rs[r].endEmitted /\ it.queue = <<>>
    <3>1. got \in Seq(Nat)
      BY DEF RInv, ReaderTypes
    <3>2. got \o <<>> = got
      BY <3>1
    <3> QED BY <1>1, <2>2, <3>2
  <2> QED BY <2>1, <2>2 DEF ClosedClean
<1> QED BY <1>1, <1>2, <1>3 DEF EndIsComplete

\* At 'end' every chunk of the source was given out, and an iterator that says
\* it is done gave every chunk, unless the stream was destroyed without an error
\* or the iterator was returned (_emitEnd and the async iterator of stream.js):
\* an iterator hears of an error before it hears that the stream is closed.
THEOREM EndsAreComplete ==
  Spec => []EndIsComplete
<1> DEFINE I == Inv /\ WInv /\ RInv /\ Waiters /\ Tally /\ ItInv /\ use \in Uses
<1>1. Init => I
  <2>1. Init => use \in Uses
    BY DEF Init, StreamInit
  <2> QED BY <2>1, InitInv, InitWInv, InitRInv, InitCounters, InitItInv
<1>2. I /\ [Next]_vars => I'
  <2> SUFFICES ASSUME I, [Next]_vars PROVE I'
    OBVIOUS
  <2>1. Inv' /\ (use \in Uses)'
    BY NextInv
  <2>2. WInv'
    BY NextWInv
  <2>3. RInv' /\ Waiters' /\ Tally' /\ ItInv'
    BY <2>2, NextRInv, NextWaiters, NextTally, NextItInv
  <2> QED BY <2>1, <2>2, <2>3
<1>3. I => EndIsComplete
  BY EndComplete
<1> QED BY <1>1, <1>2, <1>3, PTL DEF Spec

=============================================================================
