------------------------- MODULE JsStreamUserProofs -------------------------
(***************************************************************************)
(* A theorem about JsStreamUser for every length of the source, every      *)
(* number of calls of user code and every way the subclass answers: the    *)
(* events of a stream's life come in order and once each.                  *)
(***************************************************************************)
EXTENDS JsStreamUser, SequenceTheorems, TLAPS

-----------------------------------------------------------------------------
(* The inductive invariant. *)

IsSeq(q) == q \in Seq(ToSet(q))

\* What listens to a stream: user code, the iterator, the other side.
Listener(l) ==
  /\ {"fn", "s"} \subseteq DOMAIN l /\ l.s \in Streams
  /\ l.fn \in {"user", "userData", "itData", "itEnd", "itError",
               "endOther", "pushOther"}

\* The functions of a readable and of a writable side.
ReaderCalls == {"push", "maybeRead", "flow", "flowTick", "flowMore",
                "readableTick", "emitEnd", "read", "afterRead", "unshift",
                "on", "off", "pause", "resume"}
WriterCalls == {"write", "written", "doWrite", "onwrite", "afterWrite", "end",
                "maybeFinish", "_final", "finalDone", "finish", "cork", "uncork",
                "dropWrites"}

\* A call that is due is one of a stream that has the function.
Known(f) ==
  /\ f.s \in Streams
  /\ f.fn \in ReaderCalls => f.s \in Readers
  /\ f.fn \in WriterCalls => f.s \in Writers
  /\ f.fn \in {"emit", "on", "off"} => f.ev \in Events
  /\ f.fn = "on" => Listener(f.l)

\* A call that has no part in the life of a stream.
Vital == {"emit", "closed", "_destroy"}
Plain(f) ==
  /\ Known(f)
  /\ f.fn \notin {"closed", "_destroy"}
  /\ f.fn = "emit" => f.ev \notin Lifecycle

\* The shapes of the state, as far as they matter here.
States ==
  /\ DOMAIN rs = Readers
  /\ \A s \in Readers : {"destroyed", "endEmitted"} \subseteq DOMAIN rs[s]
  /\ DOMAIN ws = Writers
  /\ \A s \in Writers : {"destroyed", "finished"} \subseteq DOMAIN ws[s]
  /\ \A s \in Readers \cap Writers : rs[s].destroyed <=> ws[s].destroyed
  /\ emitted \in [Streams -> Seq(Lifecycle)]

\* The calls that are due: of the listeners, of the ticks, those on the stack
\* and those that the subclass has yet to answer.
AllPlain(q) == IsSeq(q) /\ \A k \in 1..Len(q) : Plain(q[k])

Listening ==
  /\ DOMAIN listeners = Streams
  /\ \A s \in Streams : DOMAIN listeners[s] = Events
  /\ \A s \in Streams, ev \in Events :
       /\ IsSeq(listeners[s][ev])
       /\ \A k \in DOMAIN listeners[s][ev] : Listener(listeners[s][ev][k])

Owed == IsSeq(io) /\ \A k \in DOMAIN io : io[k].s \in Streams /\ io[k].fn \in Hooks

Calls ==
  /\ Listening /\ AllPlain(ticks) /\ Owed
  /\ IsSeq(stack) /\ \A k \in DOMAIN stack : Known(stack[k])

Emits(f, s, ev) == f.fn = "emit" /\ f.s = s /\ f.ev = ev

\* What is left of destroy(): the answer of the subclass, or the event close.
Closing(f, s) == f.fn \in {"closed", "_destroy"} /\ f.s = s
Leaving(f, s) == Closing(f, s) \/ Emits(f, s, "close")

\* One thing is left of destroy(), at most, and nothing once 'close' came.
OneLeaves(s) ==
  /\ \A k, l \in DOMAIN stack :
       Leaving(stack[k], s) /\ Leaving(stack[l], s) => k = l
  /\ \A k, l \in DOMAIN io : Closing(io[k], s) /\ Closing(io[l], s) => k = l
  /\ \A k \in DOMAIN stack, l \in DOMAIN io :
       ~(Leaving(stack[k], s) /\ Closing(io[l], s))

Came(s, ev) == \E k \in DOMAIN emitted[s] : emitted[s][k] = ev

\* Where the life of stream s stands.
Alive(s) ==
  /\ \A k \in DOMAIN stack : ~Leaving(stack[k], s)
  /\ \A k \in DOMAIN io : ~Closing(io[k], s)
  /\ \A k \in DOMAIN stack : ~Emits(stack[k], s, "error")
  /\ ~Came(s, "error") /\ ~Came(s, "close")

Gone(s) ==
  /\ \A k \in DOMAIN stack : ~Leaving(stack[k], s)
  /\ \A k \in DOMAIN io : ~Closing(io[k], s)

Failed(s) ==
  /\ \A k \in DOMAIN stack : ~Closing(stack[k], s) /\ ~Emits(stack[k], s, "error")
  /\ \A k \in DOMAIN io : ~Closing(io[k], s)

Life(s) ==
  /\ OneLeaves(s)
  /\ ~Destroyed(s) => Alive(s)
  /\ Came(s, "close") => Gone(s)
  /\ Came(s, "error") => Failed(s)
  /\ Came(s, "end") => s \in Readers /\ rs[s].endEmitted
  /\ Came(s, "finish") => s \in Writers /\ ws[s].finished
  /\ \A k \in DOMAIN stack :
       /\ Emits(stack[k], s, "end") =>
            s \in Readers /\ rs[s].endEmitted /\ ~Came(s, "end") /\ ~Destroyed(s)
       /\ Emits(stack[k], s, "finish") =>
            s \in Writers /\ ws[s].finished /\ ~Came(s, "finish") /\ ~Destroyed(s)
       /\ Emits(stack[k], s, "error") =>
            2 \in DOMAIN stack /\ Emits(stack[2], s, "close")

\* 'end', 'finish' and 'error' are emitted before anything else runs.
AtOnce ==
  \A k \in DOMAIN stack :
    stack[k].fn = "emit" /\ stack[k].ev \in Lifecycle \ {"close"} => k = 1

Inv ==
  /\ States /\ Calls /\ AtOnce
  /\ \A s \in Streams : Life(s)
  /\ LifecycleOrder

-----------------------------------------------------------------------------
(* Sequences, whatever their elements. *)

LEMMA Indexed ==
  ASSUME NEW q, IsSeq(q)
  PROVE  Len(q) \in Nat /\ DOMAIN q = 1..Len(q)
BY DEF IsSeq

LEMMA SeqIsSeq ==
  ASSUME NEW T, NEW q \in Seq(T)
  PROVE  IsSeq(q)
<1>1. DOMAIN q = 1..Len(q) /\ Len(q) \in Nat /\ q \in [1..Len(q) -> T]
  OBVIOUS
<1>2. q \in [1..Len(q) -> ToSet(q)]
  BY <1>1 DEF ToSet
<1> QED BY <1>1, <1>2, SeqDef DEF IsSeq

LEMMA Common ==
  ASSUME NEW p, NEW q, IsSeq(p), IsSeq(q)
  PROVE  p \in Seq(ToSet(p) \cup ToSet(q)) /\ q \in Seq(ToSet(p) \cup ToSet(q))
<1>1. p \in Seq(ToSet(p)) /\ q \in Seq(ToSet(q))
  BY DEF IsSeq
<1>2. ToSet(p) \subseteq ToSet(p) \cup ToSet(q) /\ ToSet(q) \subseteq ToSet(p) \cup ToSet(q)
  OBVIOUS
<1> QED BY <1>1, <1>2, SeqMonotonic

LEMMA Joined ==
  ASSUME NEW p, NEW q, IsSeq(p), IsSeq(q)
  PROVE  /\ IsSeq(p \o q) /\ Len(p \o q) = Len(p) + Len(q)
         /\ \A k \in 1..Len(p) : (p \o q)[k] = p[k]
         /\ \A k \in 1..Len(q) : (p \o q)[k + Len(p)] = q[k]
<1>1. PICK T : p \in Seq(T) /\ q \in Seq(T)
  BY Common
<1>2. p \o q \in Seq(T)
  BY <1>1
<1>3. IsSeq(p \o q)
  BY <1>2, SeqIsSeq
<1>4. /\ Len(p \o q) = Len(p) + Len(q)
      /\ \A k \in 1..Len(p) : (p \o q)[k] = p[k]
      /\ \A k \in 1..Len(q) : (p \o q)[k + Len(p)] = q[k]
  BY <1>1
<1> QED BY <1>3, <1>4

LEMMA TailOf ==
  ASSUME NEW q, IsSeq(q), q # <<>>
  PROVE  /\ IsSeq(Tail(q)) /\ Len(q) \in Nat \ {0} /\ Len(Tail(q)) = Len(q) - 1
         /\ \A k \in 1..(Len(q) - 1) : Tail(q)[k] = q[k + 1]
         /\ 1 \in DOMAIN q /\ Head(q) = q[1]
<1>1. PICK T : q \in Seq(T)
  BY DEF IsSeq
<1>2. IsSeq(Tail(q))
  <2>1. Tail(q) \in Seq(T)
    BY <1>1
  <2> QED BY <2>1, SeqIsSeq
<1>3. /\ Len(q) \in Nat \ {0} /\ Len(Tail(q)) = Len(q) - 1
      /\ \A k \in 1..(Len(q) - 1) : Tail(q)[k] = q[k + 1]
      /\ 1 \in DOMAIN q /\ Head(q) = q[1]
  BY <1>1
<1> QED BY <1>2, <1>3

LEMMA Short ==
  /\ IsSeq(<<>>)
  /\ \A a : IsSeq(<<a>>)
  /\ \A a, b : IsSeq(<<a, b>>)
<1>1. <<>> \in Seq({})
  OBVIOUS
<1>2. \A a : <<a>> \in Seq({a})
  OBVIOUS
<1>3. \A a, b : <<a, b>> \in Seq({a, b})
  OBVIOUS
<1> QED BY <1>1, <1>2, <1>3, SeqIsSeq

\* The elements of a sequence all satisfy what those of its parts do.
LEMMA AppendedTo ==
  ASSUME NEW q, IsSeq(q), NEW a
  PROVE  /\ IsSeq(Append(q, a)) /\ Len(Append(q, a)) = Len(q) + 1
         /\ \A k \in 1..Len(q) : Append(q, a)[k] = q[k]
         /\ Append(q, a)[Len(q) + 1] = a
<1>1. q \in Seq(ToSet(q) \cup {a}) /\ a \in ToSet(q) \cup {a}
  BY SeqMonotonic DEF IsSeq
<1>2. PICK T : q \in Seq(T) /\ a \in T
  BY <1>1
<1>3. IsSeq(Append(q, a))
  <2>1. Append(q, a) \in Seq(T)
    BY <1>2
  <2> QED BY <2>1, SeqIsSeq
<1>4. /\ Len(Append(q, a)) = Len(q) + 1
      /\ \A k \in 1..Len(q) : Append(q, a)[k] = q[k]
      /\ Append(q, a)[Len(q) + 1] = a
  BY <1>2
<1> QED BY <1>3, <1>4

LEMMA Removed ==
  ASSUME NEW q, IsSeq(q), NEW i \in 1..Len(q)
  PROVE  /\ IsSeq(RemoveAt(q, i)) /\ Len(RemoveAt(q, i)) = Len(q) - 1
         /\ \A k \in 1..(Len(q) - 1) :
              RemoveAt(q, i)[k] = IF k < i THEN q[k] ELSE q[k + 1]
<1>1. PICK T : q \in Seq(T)
  BY DEF IsSeq
<1>2. PICK a : a = SubSeq(q, 1, i - 1)
  OBVIOUS
<1>3. PICK b : b = SubSeq(q, i + 1, Len(q))
  OBVIOUS
<1>4. Len(q) \in Nat \ {0} /\ i \in Int /\ 1 <= i /\ i <= Len(q)
  BY <1>1
<1>5. a \in Seq(T) /\ Len(a) = i - 1 /\ \A k \in 1..(i - 1) : a[k] = q[k]
  BY <1>1, <1>2, <1>4
<1>6. b \in Seq(T) /\ Len(b) = Len(q) - i /\ \A k \in 1..(Len(q) - i) : b[k] = q[k + i]
  BY <1>1, <1>3, <1>4
<1>7. PICK c : c = a \o b
  OBVIOUS
<1>8. c \in Seq(T) /\ Len(c) = Len(q) - 1 /\ RemoveAt(q, i) = c
  <2>0. a \in Seq(T) /\ b \in Seq(T)
    BY <1>5, <1>6
  <2>1. c \in Seq(T) /\ Len(c) = Len(a) + Len(b)
    BY <1>7, <2>0
  <2>2. Len(a) + Len(b) = Len(q) - 1
    BY <1>4, <1>5, <1>6
  <2>3. RemoveAt(q, i) = c
    BY <1>2, <1>3, <1>7 DEF RemoveAt
  <2> QED BY <2>1, <2>2, <2>3
<1>9. ASSUME NEW k \in 1..(Len(q) - 1)
      PROVE  c[k] = IF k < i THEN q[k] ELSE q[k + 1]
  <2>1. CASE k < i
    BY <1>4, <1>5, <1>6, <1>7, <2>1
  <2>2. CASE ~(k < i)
    <3>1. PICK m : m = k - (i - 1)
      OBVIOUS
    <3>2. m \in 1..Len(b) /\ k = m + Len(a) /\ m + i = k + 1
      BY <1>4, <1>5, <1>6, <2>2, <3>1
    <3>3. c[k] = b[m]
      <4>1. IsSeq(a) /\ IsSeq(b)
        BY <1>5, <1>6, SeqIsSeq
      <4> QED BY <1>7, <3>2, <4>1, Joined, SMTT(30)
    <3> QED BY <1>6, <2>2, <3>2, <3>3
  <2> QED BY <2>1, <2>2
<1>10. IsSeq(c)
  BY <1>8, SeqIsSeq
<1> QED BY <1>8, <1>9, <1>10

-----------------------------------------------------------------------------
(* The stack. *)

\* The calls P take the place of the first d calls.
Shifted(P, d) ==
  /\ IsSeq(stack) /\ IsSeq(stack') /\ IsSeq(P)
  /\ d \in 0..1 /\ d <= Len(stack)
  /\ Len(stack') = Len(P) + Len(stack) - d
  /\ \A k \in 1..Len(P) : stack'[k] = P[k]
  /\ \A k \in (d + 1)..Len(stack) : stack'[k + Len(P) - d] = stack[k]

LEMMA Pushed ==
  ASSUME IsSeq(stack), NEW P, IsSeq(P), stack' = P \o stack
  PROVE  Shifted(P, 0)
<1>1. Len(stack) \in Nat /\ Len(P) \in Nat
  BY Indexed
<1>2. /\ IsSeq(stack') /\ Len(stack') = Len(P) + Len(stack)
      /\ \A k \in 1..Len(P) : stack'[k] = P[k]
      /\ \A k \in 1..Len(stack) : stack'[k + Len(P)] = stack[k]
  BY Joined
<1>3. \A k \in 1..Len(stack) : k + Len(P) - 0 = k + Len(P)
  BY <1>1
<1> QED BY <1>1, <1>2, <1>3 DEF Shifted

LEMMA Replaced ==
  ASSUME IsSeq(stack), stack # <<>>, NEW P, IsSeq(P), Continue(P)
  PROVE  Shifted(P, 1)
<1>1. /\ IsSeq(Tail(stack)) /\ Len(Tail(stack)) = Len(stack) - 1
      /\ \A k \in 1..(Len(stack) - 1) : Tail(stack)[k] = stack[k + 1]
      /\ Len(stack) \in Nat \ {0}
  BY TailOf
<1>2. PICK t : t = Tail(stack)
  OBVIOUS
<1>3. /\ IsSeq(t) /\ Len(t) = Len(stack) - 1 /\ stack' = P \o t
      /\ \A k \in 1..(Len(stack) - 1) : t[k] = stack[k + 1]
  BY <1>1, <1>2 DEF Continue
<1>4. /\ Len(stack') = Len(P) + Len(t) /\ IsSeq(stack')
      /\ \A k \in 1..Len(P) : stack'[k] = P[k]
      /\ \A k \in 1..Len(t) : stack'[k + Len(P)] = t[k]
  BY <1>3, Joined
<1>5. Len(P) \in Nat
  BY Indexed
<1>6. ASSUME NEW k \in (1 + 1)..Len(stack) PROVE stack'[k + Len(P) - 1] = stack[k]
  <2>1. PICK m : m = k - 1
    OBVIOUS
  <2>2. /\ m \in 1..Len(t) /\ m \in 1..(Len(stack) - 1) /\ m + 1 = k
        /\ m + Len(P) = k + Len(P) - 1
    BY <1>1, <1>3, <1>5, <2>1
  <2>3. stack'[m + Len(P)] = t[m] /\ t[m] = stack[m + 1]
    BY <1>3, <1>4, <2>2
  <2> QED BY <2>2, <2>3
<1> QED BY <1>1, <1>3, <1>4, <1>5, <1>6 DEF Shifted

LEMMA Origin ==
  ASSUME NEW P, NEW d, Shifted(P, d), NEW k \in DOMAIN stack'
  PROVE  \/ k \in 1..Len(P) /\ stack'[k] = P[k]
         \/ \E m \in DOMAIN stack :
              m > d /\ k = m + Len(P) - d /\ stack'[k] = stack[m]
<1>0. IsSeq(stack) /\ IsSeq(stack') /\ IsSeq(P)
  BY DEF Shifted
<1>1. /\ Len(stack) \in Nat /\ Len(P) \in Nat /\ Len(stack') \in Nat
      /\ DOMAIN stack = 1..Len(stack) /\ DOMAIN stack' = 1..Len(stack')
  BY <1>0, Indexed
<1>2. d \in 0..1 /\ Len(stack') = Len(P) + Len(stack) - d
  BY DEF Shifted
<1>3. CASE k <= Len(P)
  BY <1>1, <1>3 DEF Shifted
<1>4. CASE k > Len(P)
  <2>1. PICK m : m = k - Len(P) + d
    OBVIOUS
  <2>2. m \in (d + 1)..Len(stack) /\ k = m + Len(P) - d /\ m \in DOMAIN stack /\ m > d
    <3>1. k \in Int /\ k <= Len(stack') /\ d \in Int
      BY <1>1, <1>2
    <3>2. m \in Int /\ m >= d + 1 /\ m <= Len(stack) /\ k = m + Len(P) - d
      BY <1>1, <1>2, <1>4, <2>1, <3>1
    <3> QED BY <1>1, <1>2, <3>2
  <2>3. stack'[m + Len(P) - d] = stack[m]
    BY <2>2 DEF Shifted
  <2> QED BY <2>2, <2>3
<1> QED BY <1>1, <1>3, <1>4

-----------------------------------------------------------------------------
(* What the life of a stream needs of a step. *)

\* Call f is no part of the life of stream s.
Apart(f, s) == ~Closing(f, s) /\ \A ev \in Lifecycle : ~Emits(f, s, ev)

LEMMA PlainIsApart ==
  ASSUME NEW f, Plain(f), NEW s
  PROVE  Apart(f, s)
BY DEF Plain, Apart, Closing, Emits

\* The life of stream s goes on as it was; what it has reached, it keeps.
Unmoved(s) ==
  /\ emitted'[s] = emitted[s]
  /\ Destroyed(s) => Destroyed(s)'
  /\ s \in Readers /\ rs[s].endEmitted => rs'[s].endEmitted
  /\ s \in Writers /\ ws[s].finished => ws'[s].finished

\* The subclass owes no answer to a _destroy that it did not owe before.
IoKept(s) ==
  /\ \A k, l \in DOMAIN io' : Closing(io'[k], s) /\ Closing(io'[l], s) => k = l
  /\ (\E k \in DOMAIN io' : Closing(io'[k], s)) =>
       \E k \in DOMAIN io : Closing(io[k], s)

LEMMA IoUnchanged ==
  ASSUME Inv, NEW s \in Streams, io' = io
  PROVE  IoKept(s)
BY DEF Inv, Life, OneLeaves, IoKept

\* What is left of destroy() on the new stack was left on the old one.
LEMMA LeavingOrigin ==
  ASSUME NEW s, NEW P, NEW d, Shifted(P, d), \A k \in 1..Len(P) : Apart(P[k], s),
         NEW k \in DOMAIN stack', ~Apart(stack'[k], s)
  PROVE  \E m \in DOMAIN stack : m > d /\ k = m + Len(P) - d /\ stack'[k] = stack[m]
BY Origin

LEMMA LifeKept ==
  ASSUME Inv, NEW s \in Streams, NEW P, NEW d, Shifted(P, d),
         \A k \in 1..Len(P) : Apart(P[k], s),
         1 \in DOMAIN stack => Apart(stack[1], s),
         Unmoved(s), IoKept(s)
  PROVE  Life(s)'
<1>0. Life(s) /\ OneLeaves(s)
  BY DEF Inv, Life
<1>1. ASSUME NEW m \in DOMAIN stack
      PROVE  /\ ~Emits(stack[m], s, "end") /\ ~Emits(stack[m], s, "finish")
             /\ ~Emits(stack[m], s, "error")
  <2>1. m = 1 => Apart(stack[m], s)
    OBVIOUS
  <2>2. m # 1 => ~(stack[m].fn = "emit" /\ stack[m].ev \in Lifecycle \ {"close"})
    BY DEF Inv, AtOnce
  <2> QED BY <2>1, <2>2 DEF Apart, Emits, Lifecycle
<1>2. ASSUME NEW k \in DOMAIN stack', ~Apart(stack'[k], s)
      PROVE  \E m \in DOMAIN stack : k = m + Len(P) - d /\ stack'[k] = stack[m]
  BY <1>2, LeavingOrigin
<1>3. ASSUME NEW k \in DOMAIN stack'
      PROVE  /\ ~Emits(stack'[k], s, "end") /\ ~Emits(stack'[k], s, "finish")
             /\ ~Emits(stack'[k], s, "error")
  BY <1>1, <1>2 DEF Apart, Lifecycle
<1>4. ASSUME NEW k \in DOMAIN stack', Leaving(stack'[k], s)
      PROVE  \E m \in DOMAIN stack : /\ k = m + Len(P) - d /\ stack'[k] = stack[m]
                                     /\ Leaving(stack[m], s)
  BY <1>2, <1>4 DEF Apart, Leaving, Lifecycle
<1>5. OneLeaves(s)'
  <2>1. ASSUME NEW k \in DOMAIN stack', NEW l \in DOMAIN stack',
               Leaving(stack'[k], s), Leaving(stack'[l], s)
        PROVE  k = l
    <3>1. PICK m \in DOMAIN stack : k = m + Len(P) - d /\ Leaving(stack[m], s)
      BY <1>4, <2>1
    <3>2. PICK n \in DOMAIN stack : l = n + Len(P) - d /\ Leaving(stack[n], s)
      BY <1>4, <2>1
    <3>3. m = n
      BY <1>0, <3>1, <3>2 DEF OneLeaves
    <3> QED BY <3>1, <3>2, <3>3
  <2>2. ASSUME NEW k \in DOMAIN stack', NEW l \in DOMAIN io',
               Leaving(stack'[k], s), Closing(io'[l], s)
        PROVE  FALSE
    <3>1. PICK m \in DOMAIN stack : Leaving(stack[m], s)
      BY <1>4, <2>2
    <3>2. PICK n \in DOMAIN io : Closing(io[n], s)
      BY <2>2 DEF IoKept
    <3> QED BY <1>0, <3>1, <3>2 DEF OneLeaves
  <2> QED BY <2>1, <2>2 DEF OneLeaves, IoKept, Leaving, Closing, Emits
<1>6. \A ev : Came(s, ev)' <=> Came(s, ev)
  BY DEF Came, Unmoved
<1>7. Gone(s) => Gone(s)'
  BY <1>4 DEF Gone, IoKept, Leaving, Closing, Emits
<1>8. ~Destroyed(s)' => Alive(s)'
  <2>1. Alive(s) => Alive(s)'
    BY <1>3, <1>4, <1>6 DEF Alive, IoKept, Leaving, Closing, Emits
  <2> QED BY <1>0, <2>1 DEF Life, Unmoved
<1>9. Failed(s) => Failed(s)'
  BY <1>2, <1>3 DEF Failed, IoKept, Apart, Closing, Emits
<1>10. /\ Came(s, "end")' => s \in Readers /\ rs'[s].endEmitted
       /\ Came(s, "finish")' => s \in Writers /\ ws'[s].finished
  BY <1>0, <1>6 DEF Life, Unmoved
<1>11. \A k \in DOMAIN stack' :
         /\ ~Emits(stack[k], s, "end")' /\ ~Emits(stack[k], s, "finish")'
         /\ ~Emits(stack[k], s, "error")'
  BY <1>3 DEF Emits
<1> QED BY <1>0, <1>5, <1>6, <1>7, <1>8, <1>9, <1>10, <1>11 DEF Life

\* rs, and ws, keep what the life of a stream depends on.
RsKept ==
  /\ DOMAIN rs' = Readers
  /\ \A s \in Readers :
       /\ {"destroyed", "endEmitted"} \subseteq DOMAIN rs'[s]
       /\ rs'[s].destroyed <=> rs[s].destroyed
       /\ rs[s].endEmitted => rs'[s].endEmitted

WsKept ==
  /\ DOMAIN ws' = Writers
  /\ \A s \in Writers :
       /\ {"destroyed", "finished"} \subseteq DOMAIN ws'[s]
       /\ ws'[s].destroyed <=> ws[s].destroyed
       /\ ws[s].finished => ws'[s].finished

LEMMA NothingWritten ==
  ASSUME Inv
  PROVE  (rs' = rs => RsKept) /\ (ws' = ws => WsKept)
BY DEF Inv, States, RsKept, WsKept

\* A step in which only plain calls come and go.
LEMMA PlainStep ==
  ASSUME Inv, NEW P, NEW d, Shifted(P, d), AllPlain(P),
         1 \in DOMAIN stack => Plain(stack[1]),
         RsKept, WsKept, Listening', AllPlain(ticks)', Owed', emitted' = emitted,
         \A s \in Streams : IoKept(s)
  PROVE  Inv'
<1>0. Len(P) \in Nat /\ d \in 0..1 /\ IsSeq(stack')
  BY Indexed DEF Shifted
<1>1. States'
  BY DEF Inv, States, RsKept, WsKept
<1>2. Calls'
  <2>1. ASSUME NEW k \in DOMAIN stack' PROVE Known(stack'[k])
    <3>1. \A m \in DOMAIN stack : Known(stack[m])
      BY DEF Inv, Calls
    <3> QED BY <3>1, Origin DEF AllPlain, Plain
  <2> QED BY <1>0, <2>1 DEF Calls, Known, Listener
<1>3. AtOnce'
  <2>1. ASSUME NEW k \in DOMAIN stack',
               stack'[k].fn = "emit" /\ stack'[k].ev \in Lifecycle \ {"close"}
        PROVE  FALSE
    <3>1. \A m \in DOMAIN stack :
            ~(stack[m].fn = "emit" /\ stack[m].ev \in Lifecycle \ {"close"})
      BY DEF Inv, AtOnce, Plain
    <3> QED BY <2>1, <3>1, Origin DEF AllPlain, Plain
  <2> QED BY <2>1 DEF AtOnce
<1>4. ASSUME NEW s \in Streams PROVE Life(s)'
  <2>1. Unmoved(s)
    BY DEF Unmoved, Destroyed, RsKept, WsKept
  <2>2. \A k \in 1..Len(P) : Apart(P[k], s)
    BY PlainIsApart DEF AllPlain
  <2>3. 1 \in DOMAIN stack => Apart(stack[1], s)
    BY PlainIsApart
  <2> QED BY <2>1, <2>2, <2>3, LifeKept
<1>5. LifecycleOrder'
  BY DEF Inv, LifecycleOrder
<1> QED BY <1>1, <1>2, <1>3, <1>4, <1>5 DEF Inv

\* The call on top of the stack.
LEMMA Top ==
  ASSUME Inv, NEW f, Running(f)
  PROVE  /\ IsSeq(stack) /\ stack # <<>> /\ 1 \in DOMAIN stack
         /\ top = stack[1] /\ stack[1].fn = f /\ Known(stack[1]) /\ Known(top)
         /\ top.s \in Streams /\ top.fn = f
<1>1. IsSeq(stack) /\ stack # <<>> /\ top.fn = f
  BY DEF Inv, Calls, Running
<1>2. 1 \in DOMAIN stack /\ top = stack[1]
  BY <1>1, TailOf DEF top
<1> QED BY <1>1, <1>2 DEF Inv, Calls, Known

\* A function of the library runs, up to its next call.
LEMMA PlainRun ==
  ASSUME Inv, NEW f, Running(f), f \notin Vital,
         NEW P, Continue(P), AllPlain(P),
         RsKept, WsKept, Listening', AllPlain(ticks)', io' = io, emitted' = emitted
  PROVE  Inv'
<1>1. IsSeq(stack) /\ stack # <<>> /\ Known(stack[1]) /\ stack[1].fn = f
  BY Top
<1>2. Shifted(P, 1)
  BY <1>1, Replaced DEF AllPlain
<1>3. Plain(stack[1])
  BY <1>1 DEF Plain, Vital
<1>4. Owed' /\ \A s \in Streams : IoKept(s)
  BY IoUnchanged DEF Inv, Calls, Owed
<1> QED BY <1>2, <1>3, <1>4, PlainStep

-----------------------------------------------------------------------------
(* The calls that the library makes. *)

LEMMA PlainLists ==
  /\ AllPlain(<<>>)
  /\ \A a : Plain(a) => AllPlain(<<a>>)
  /\ \A a, b : Plain(a) /\ Plain(b) => AllPlain(<<a, b>>)
  /\ \A c, q : AllPlain(q) => AllPlain(Then(c, q))
<1>1. AllPlain(<<>>)
  BY Short DEF AllPlain
<1>2. ASSUME NEW a, Plain(a) PROVE AllPlain(<<a>>)
  BY <1>2, Short DEF AllPlain
<1>3. ASSUME NEW a, NEW b, Plain(a), Plain(b) PROVE AllPlain(<<a, b>>)
  <2>1. IsSeq(<<a, b>>) /\ Len(<<a, b>>) = 2
    BY Short
  <2>2. \A k \in 1..2 : Plain(<<a, b>>[k])
    BY <1>3
  <2> QED BY <2>1, <2>2 DEF AllPlain
<1>4. ASSUME NEW c, NEW q, AllPlain(q) PROVE AllPlain(Then(c, q))
  BY <1>1, <1>4 DEF Then
<1> QED BY <1>1, <1>2, <1>3, <1>4

LEMMA PlainJoined ==
  ASSUME NEW p, NEW q, AllPlain(p), AllPlain(q)
  PROVE  AllPlain(p \o q)
<1>1. IsSeq(p) /\ IsSeq(q) /\ Len(p) \in Nat /\ Len(q) \in Nat
  BY Indexed DEF AllPlain
<1>2. /\ IsSeq(p \o q) /\ Len(p \o q) = Len(p) + Len(q)
      /\ \A k \in 1..Len(p) : (p \o q)[k] = p[k]
      /\ \A k \in 1..Len(q) : (p \o q)[k + Len(p)] = q[k]
  BY <1>1, Joined
<1>3. ASSUME NEW k \in 1..Len(p \o q) PROVE Plain((p \o q)[k])
  <2>1. CASE k <= Len(p)
    BY <1>1, <1>2, <2>1 DEF AllPlain
  <2>2. CASE k > Len(p)
    <3>1. PICK m : m = k - Len(p)
      OBVIOUS
    <3>2. m \in 1..Len(q) /\ k = m + Len(p)
      BY <1>1, <1>2, <2>2, <3>1
    <3>3. (p \o q)[m + Len(p)] = q[m] /\ Plain(q[m])
      BY <1>2, <3>2 DEF AllPlain
    <3> QED BY <3>2, <3>3
  <2> QED BY <1>1, <2>1, <2>2
<1> QED BY <1>2, <1>3 DEF AllPlain

LEMMA PlainCalls ==
  ASSUME NEW f, NEW s \in Streams, f \notin Vital \cup {"on", "off"},
         f \in ReaderCalls => s \in Readers, f \in WriterCalls => s \in Writers
  PROVE  /\ Plain(Call(f, s))
         /\ \A c : Plain(CallC(f, s, c))
         /\ \A e : Plain(CallE(f, s, e))
<1>1. /\ Call(f, s).fn = f /\ Call(f, s).s = s
      /\ \A c : CallC(f, s, c).fn = f /\ CallC(f, s, c).s = s
      /\ \A e : CallE(f, s, e).fn = f /\ CallE(f, s, e).s = s
  BY DEF Call, CallC, CallE
<1> QED BY <1>1 DEF Plain, Known, Vital

LEMMA PlainEvents ==
  ASSUME NEW s \in Streams, NEW ev \in Events \ Lifecycle
  PROVE  Plain(Emit(s, ev)) /\ \A c : Plain([Emit(s, ev) EXCEPT !.c = c])
<1>1. /\ Emit(s, ev).fn = "emit" /\ Emit(s, ev).s = s /\ Emit(s, ev).ev = ev
      /\ \A c : /\ [Emit(s, ev) EXCEPT !.c = c].fn = "emit"
                /\ [Emit(s, ev) EXCEPT !.c = c].s = s
                /\ [Emit(s, ev) EXCEPT !.c = c].ev = ev
  BY DEF Emit
<1> QED BY <1>1 DEF Plain, Known, ReaderCalls, WriterCalls

LEMMA PlainCallback ==
  ASSUME NEW s \in Streams, NEW item, NEW err
  PROVE  AllPlain(Callback(s, item, err))
<1>1. PICK f : f = [fn |-> "callback", s |-> s, c |-> item.c, err |-> err]
  OBVIOUS
<1>2. f.fn = "callback" /\ f.s = s
  BY <1>1
<1>3. Plain(f)
  BY <1>2 DEF Plain, Known, ReaderCalls, WriterCalls
<1>4. AllPlain(<<f>>)
  BY <1>3, PlainLists
<1> QED BY <1>1, <1>4, PlainLists DEF Callback

-----------------------------------------------------------------------------
(* The readable side. *)

LEMMA Unheard ==
  ASSUME Inv
  PROVE  (listeners' = listeners => Listening') /\ (ticks' = ticks => AllPlain(ticks)')
BY DEF Inv, Calls, Listening, AllPlain

LEMMA TicksAdded ==
  ASSUME Inv, NEW q, AllPlain(q), ticks' = ticks \o q
  PROVE  AllPlain(ticks)'
<1>1. AllPlain(ticks \o q)
  BY PlainJoined DEF Inv, Calls
<1> QED BY <1>1 DEF AllPlain

\* Neither destroyed nor endEmitted is written.
LEMMA ReaderFields ==
  ASSUME Inv, NEW s \in Readers
  PROVE  /\ \A a : rs' = [rs EXCEPT ![s].reading = a] => RsKept
         /\ \A a : rs' = [rs EXCEPT ![s].buffer = a] => RsKept
         /\ \A a : rs' = [rs EXCEPT ![s].flowing = a] => RsKept
         /\ \A a : rs' = [rs EXCEPT ![s].flowTick = a] => RsKept
         /\ \A a : rs' = [rs EXCEPT ![s].readableTick = a] => RsKept
         /\ \A a, b : rs' = [rs EXCEPT ![s].ended = a, ![s].reading = b] => RsKept
<1> USE DEF Inv, States, RsKept
<1>1. ASSUME NEW a, rs' = [rs EXCEPT ![s].reading = a] PROVE RsKept
  BY <1>1
<1>2. ASSUME NEW a, rs' = [rs EXCEPT ![s].buffer = a] PROVE RsKept
  BY <1>2
<1>3. ASSUME NEW a, rs' = [rs EXCEPT ![s].flowing = a] PROVE RsKept
  BY <1>3
<1>4. ASSUME NEW a, rs' = [rs EXCEPT ![s].flowTick = a] PROVE RsKept
  BY <1>4
<1>5. ASSUME NEW a, rs' = [rs EXCEPT ![s].readableTick = a] PROVE RsKept
  BY <1>5
<1>6. ASSUME NEW a, NEW b, rs' = [rs EXCEPT ![s].ended = a, ![s].reading = b] PROVE RsKept
  BY <1>6
<1> HIDE DEF Inv, States, RsKept
<1> QED BY <1>1, <1>2, <1>3, <1>4, <1>5, <1>6

LEMMA PushStep ==
  ASSUME Inv, Push, io' = io
  PROVE  Inv'
<1>0. Running("push") /\ "push" \notin Vital
  BY DEF Push, Vital
<1>1. PICK s : s = top.s
  OBVIOUS
<1>2. s \in Readers /\ s \in Streams
  BY <1>0, <1>1, Top DEF Known, ReaderCalls
<1>3. RsKept
  <2>1. rs' = rs => RsKept
    BY NothingWritten
  <2>2. rs' = [rs EXCEPT ![s].ended = TRUE, ![s].reading = FALSE] => RsKept
    BY <1>2, ReaderFields
  <2>3. rs' = [rs EXCEPT ![s].reading = FALSE] => RsKept
    BY <1>2, ReaderFields
  <2>4. ASSUME NEW a, NEW b, NEW c,
               rs' = [rs EXCEPT ![s].buffer = Append(@, a), ![s].reading = FALSE,
                                ![s].flowTick = @ \/ b, ![s].readableTick = @ \/ c]
        PROVE  RsKept
    <3>1. PICK x : x = Append(rs[s].buffer, a)
      OBVIOUS
    <3>2. PICK y : y = (rs[s].flowTick \/ b)
      OBVIOUS
    <3>3. PICK z : z = (rs[s].readableTick \/ c)
      OBVIOUS
    <3>4. rs' = [rs EXCEPT ![s] = [[[[rs[s] EXCEPT !.buffer = x] EXCEPT !.reading = FALSE]
                                  EXCEPT !.flowTick = y] EXCEPT !.readableTick = z]]
      BY <1>2, <2>4, <3>1, <3>2, <3>3 DEF Inv, States
    <3> QED BY <1>2, <3>4 DEF Inv, States, RsKept
  <2>5. \/ rs' = rs
        \/ rs' = [rs EXCEPT ![s].ended = TRUE, ![s].reading = FALSE]
        \/ rs' = [rs EXCEPT ![s].reading = FALSE]
        \/ rs' = [rs EXCEPT ![s].buffer = Append(@, top.c), ![s].reading = FALSE,
                            ![s].flowTick = @ \/ rs[s].flowing,
                            ![s].readableTick = @ \/ (/\ ~rs[s].flowing
                                                      /\ ~rs[s].readableTick
                                                      /\ ~rs[s].ended)]
    BY <1>1, Zenon DEF Push
  <2> QED BY <2>1, <2>2, <2>3, <2>4, <2>5, ZenonT(60)
<1>4. WsKept /\ Listening' /\ emitted' = emitted
  BY NothingWritten, Unheard DEF Push
<1>5. AllPlain(ticks)'
  <2>1. ticks' = ticks => AllPlain(ticks)'
    BY Unheard
  <2>2. ASSUME NEW a, NEW b, ticks' = ticks \o Then(a, ScheduleFlow(s, rs[s]))
                                            \o Then(b, <<Call("readableTick", s)>>)
        PROVE  AllPlain(ticks)'
    <3>1. Plain(Call("flowTick", s)) /\ Plain(Call("readableTick", s))
      BY <1>2, PlainCalls DEF Vital, WriterCalls, ReaderCalls
    <3>2. AllPlain(ScheduleFlow(s, rs[s])) /\ AllPlain(<<Call("readableTick", s)>>)
      BY <3>1, PlainLists DEF ScheduleFlow
    <3>3. AllPlain(Then(a, ScheduleFlow(s, rs[s])))
          /\ AllPlain(Then(b, <<Call("readableTick", s)>>)) /\ AllPlain(ticks)
      BY <3>2, PlainLists DEF Inv, Calls
    <3>4. AllPlain(ticks \o Then(a, ScheduleFlow(s, rs[s])))
      BY <3>3, PlainJoined
    <3>5. AllPlain(ticks \o Then(a, ScheduleFlow(s, rs[s]))
                         \o Then(b, <<Call("readableTick", s)>>))
      BY <3>3, <3>4, PlainJoined
    <3> QED BY <2>2, <3>5 DEF AllPlain
  <2> QED BY <1>1, <2>1, <2>2 DEF Push
<1>6. PICK P : Continue(P) /\ AllPlain(P)
  <2>1. AllPlain(EndIfDrained(s))
    BY <1>2, PlainCalls, PlainLists DEF EndIfDrained, Vital, WriterCalls
  <2> QED BY <1>1, <2>1, PlainLists DEF Push
<1> QED BY <1>0, <1>3, <1>4, <1>5, <1>6, PlainRun

LEMMA ReaderRun ==
  ASSUME Inv, NEW f, Running(f), f \notin Vital, NEW P, Continue(P), AllPlain(P),
         RsKept, UNCHANGED <<ws, listeners, ticks, io, emitted>>
  PROVE  Inv'
<1>1. WsKept /\ Listening' /\ AllPlain(ticks)'
  BY NothingWritten, Unheard
<1> QED BY <1>1, PlainRun

LEMMA MaybeReadStep ==
  ASSUME Inv, MaybeRead, io' = io
  PROVE  Inv'
<1>0. Running("maybeRead") /\ "maybeRead" \notin Vital
  BY DEF MaybeRead, Vital
<1>1. PICK s : s = top.s
  OBVIOUS
<1>2. s \in Readers /\ s \in Streams
  BY <1>0, <1>1, Top DEF Known, ReaderCalls
<1>3. RsKept
  <2>1. PICK a : rs' = [rs EXCEPT ![s].reading = a]
    BY <1>1, Zenon DEF MaybeRead
  <2> QED BY <1>2, <2>1, ReaderFields
<1>4. PICK P : Continue(P) /\ AllPlain(P)
  <2>1. Plain(Call("_read", s))
    BY <1>2, PlainCalls DEF Vital, WriterCalls, ReaderCalls
  <2>2. AllPlain(<<Call("_read", s)>>)
    BY <2>1, PlainLists
  <2> QED BY <1>1, <2>2, PlainLists DEF MaybeRead
<1> QED BY <1>0, <1>3, <1>4, ReaderRun DEF MaybeRead

LEMMA FlowTickStep ==
  ASSUME Inv, FlowTick, io' = io
  PROVE  Inv'
<1>0. Running("flowTick") /\ "flowTick" \notin Vital
  BY DEF FlowTick, Vital
<1>2. top.s \in Readers /\ top.s \in Streams
  BY <1>0, Top DEF Known, ReaderCalls
<1>3. RsKept
  BY <1>2, ReaderFields DEF FlowTick
<1>4. AllPlain(<<Call("flow", top.s)>>)
  BY <1>2, PlainLists, PlainCalls DEF Vital, WriterCalls
<1> QED BY <1>0, <1>3, <1>4, ReaderRun DEF FlowTick

LEMMA FlowStep ==
  ASSUME Inv, Flow, io' = io
  PROVE  Inv'
<1>0. Running("flow") /\ "flow" \notin Vital
  BY DEF Flow, Vital
<1>1. PICK s : s = top.s
  OBVIOUS
<1>2. s \in Readers /\ s \in Streams
  BY <1>0, <1>1, Top DEF Known, ReaderCalls
<1>3. RsKept
  <2>1. rs' = rs \/ rs' = [rs EXCEPT ![s].buffer = Tail(@)]
    BY <1>1, Zenon DEF Flow
  <2> QED BY <1>2, <2>1, NothingWritten, ReaderFields
<1>4. PICK P : Continue(P) /\ AllPlain(P)
  <2>1. /\ Plain(Call("flow", s)) /\ Plain(Call("emitEnd", s))
        /\ Plain(Call("maybeRead", s)) /\ Plain(Call("flowMore", s))
    BY <1>2, PlainCalls DEF Vital, WriterCalls, ReaderCalls
  <2>2. \A c : Plain([Emit(s, "data") EXCEPT !.c = c])
    BY <1>2, PlainEvents DEF Events, Lifecycle
  <2>3. /\ \A c : AllPlain(<<[Emit(s, "data") EXCEPT !.c = c], Call("flow", s)>>)
        /\ AllPlain(<<Call("emitEnd", s)>>) /\ AllPlain(<<>>)
        /\ AllPlain(<<Call("maybeRead", s), Call("flowMore", s)>>)
    BY <2>1, <2>2, PlainLists
  <2>4. \/ Continue(<<>>)
        \/ Continue(<<[Emit(s, "data") EXCEPT !.c = Head(rs[s].buffer)], Call("flow", s)>>)
        \/ Continue(<<Call("emitEnd", s)>>)
        \/ Continue(<<Call("maybeRead", s), Call("flowMore", s)>>)
    BY <1>1, Zenon DEF Flow
  <2> QED BY <2>3, <2>4
<1> QED BY <1>0, <1>3, <1>4, ReaderRun DEF Flow

LEMMA FlowMoreStep ==
  ASSUME Inv, FlowMore, io' = io
  PROVE  Inv'
<1>0. Running("flowMore") /\ "flowMore" \notin Vital
  BY DEF FlowMore, Vital
<1>2. top.s \in Readers /\ top.s \in Streams
  BY <1>0, Top DEF Known, ReaderCalls
<1>3. RsKept
  BY NothingWritten DEF FlowMore
<1>4. AllPlain(<<Call("flow", top.s)>>)
  BY <1>2, PlainLists, PlainCalls DEF Vital, WriterCalls
<1>5. PICK P : Continue(P) /\ AllPlain(P)
  BY <1>4, PlainLists DEF FlowMore
<1> QED BY <1>0, <1>3, <1>5, ReaderRun DEF FlowMore

LEMMA ReadableTickStep ==
  ASSUME Inv, ReadableTick, io' = io
  PROVE  Inv'
<1>0. Running("readableTick") /\ "readableTick" \notin Vital
  BY DEF ReadableTick, Vital
<1>1. PICK s : s = top.s
  OBVIOUS
<1>2. s \in Readers /\ s \in Streams
  BY <1>0, <1>1, Top DEF Known, ReaderCalls
<1>3. RsKept
  BY <1>1, <1>2, ReaderFields DEF ReadableTick
<1>4. AllPlain(<<Emit(s, "readable")>>)
  BY <1>2, PlainLists, PlainEvents DEF Events, Lifecycle
<1>5. PICK P : Continue(P) /\ AllPlain(P)
  BY <1>1, <1>4, PlainLists DEF ReadableTick
<1> QED BY <1>0, <1>3, <1>5, ReaderRun DEF ReadableTick

LEMMA ReadStep ==
  ASSUME Inv, Read, io' = io
  PROVE  Inv'
<1>0. Running("read") /\ "read" \notin Vital
  BY DEF Read, Vital
<1>1. PICK s : s = top.s
  OBVIOUS
<1>2. s \in Readers /\ s \in Streams
  BY <1>0, <1>1, Top DEF Known, ReaderCalls
<1>3. RsKept
  <2>1. rs' = rs \/ rs' = [rs EXCEPT ![s].buffer = Tail(@)]
    BY <1>1, Zenon DEF Read
  <2> QED BY <1>2, <2>1, NothingWritten, ReaderFields
<1>4. PICK P : Continue(P) /\ AllPlain(P)
  <2>1. Plain(Call("emitEnd", s)) /\ Plain(Call("maybeRead", s)) /\ Plain(Call("afterRead", s))
    BY <1>2, PlainCalls DEF Vital, WriterCalls, ReaderCalls
  <2>2. /\ AllPlain(<<Call("emitEnd", s)>>) /\ AllPlain(<<Call("maybeRead", s)>>)
        /\ AllPlain(<<Call("afterRead", s)>>)
    BY <2>1, PlainLists
  <2>3. \A a : AllPlain(Then(a, <<Call("maybeRead", s)>>) \o <<Call("afterRead", s)>>)
    BY <2>2, PlainLists, PlainJoined
  <2>4. \/ Continue(<<Call(IF rs[s].ended THEN "emitEnd" ELSE "maybeRead", s)>>)
        \/ \E a : Continue(Then(a, <<Call("maybeRead", s)>>) \o <<Call("afterRead", s)>>)
    BY <1>1, Zenon DEF Read
  <2> QED BY <2>2, <2>3, <2>4
<1> QED BY <1>0, <1>3, <1>4, ReaderRun DEF Read

LEMMA AfterReadStep ==
  ASSUME Inv, AfterRead, io' = io
  PROVE  Inv'
<1>0. Running("afterRead") /\ "afterRead" \notin Vital
  BY DEF AfterRead, Vital
<1>2. top.s \in Readers /\ top.s \in Streams
  BY <1>0, Top DEF Known, ReaderCalls
<1>3. RsKept
  BY NothingWritten DEF AfterRead
<1>4. AllPlain(<<Call("emitEnd", top.s)>>)
  BY <1>2, PlainLists, PlainCalls DEF Vital, WriterCalls
<1>5. PICK P : Continue(P) /\ AllPlain(P)
  BY <1>4, PlainLists DEF AfterRead
<1> QED BY <1>0, <1>3, <1>5, ReaderRun DEF AfterRead

LEMMA UnshiftStep ==
  ASSUME Inv, Unshift, io' = io
  PROVE  Inv'
<1>0. Running("unshift") /\ "unshift" \notin Vital
  BY DEF Unshift, Vital
<1>2. top.s \in Readers
  BY <1>0, Top DEF Known, ReaderCalls
<1>3. RsKept
  BY <1>2, ReaderFields DEF Unshift
<1> QED BY <1>0, <1>3, PlainLists, ReaderRun DEF Unshift

LEMMA Resuming ==
  ASSUME Inv, NEW s \in Readers, Resume(s)
  PROVE  RsKept /\ AllPlain(ticks)'
<1>1. s \in Streams
  BY DEF Streams
<1>2. RsKept
  <2>1. CASE rs' = rs
    BY <2>1, NothingWritten
  <2>2. CASE rs' = [rs EXCEPT ![s] = Resumed(@)]
    <3>1. PICK a : a = (rs[s].flowTick \/ ~rs[s].destroyed)
      OBVIOUS
    <3>2. rs' = [rs EXCEPT ![s] = [rs[s] EXCEPT !.flowing = TRUE, !.flowTick = a]]
      BY <2>2, <3>1 DEF Resumed, Inv, States
    <3> QED BY <3>2 DEF Inv, States, RsKept
  <2> QED BY <2>1, <2>2 DEF Resume
<1>3. AllPlain(ticks)'
  <2>1. Plain(Call("flowTick", s))
    BY <1>1, PlainCalls DEF Vital, WriterCalls
  <2>2. AllPlain(ScheduleFlow(s, rs[s]))
    BY <2>1, PlainLists DEF ScheduleFlow
  <2>3. \A a : AllPlain(Then(a, ScheduleFlow(s, rs[s])))
    BY <2>2, PlainLists
  <2>4. \E a : ticks' = ticks \o Then(a, ScheduleFlow(s, rs[s]))
    BY DEF Resume
  <2> QED BY <2>3, <2>4, TicksAdded
<1> QED BY <1>2, <1>3

LEMMA Pausing ==
  ASSUME Inv, NEW s \in Readers, rs' = [rs EXCEPT ![s] = Paused(@)]
  PROVE  RsKept
BY ReaderFields DEF Inv, States, RsKept, Paused

\* on() of a listener of the kinds that listen to a stream.
LEMMA ListenerAdded ==
  ASSUME Inv, NEW s \in Streams, NEW ev \in Events, NEW l, Listener(l),
         listeners' = [listeners EXCEPT ![s][ev] = Append(@, l)]
  PROVE  Listening'
<1>1. PICK q : q = Append(listeners[s][ev], l)
  OBVIOUS
<1>2. Listening
  BY DEF Inv, Calls
<1>3. IsSeq(listeners[s][ev])
  BY <1>2 DEF Listening
<1>4. PICK n \in Nat : n = Len(listeners[s][ev]) /\ DOMAIN listeners[s][ev] = 1..n
  BY <1>3, Indexed
<1>5. IsSeq(q) /\ Len(q) = n + 1 /\ q[n + 1] = l /\ \A k \in 1..n : q[k] = listeners[s][ev][k]
  BY <1>1, <1>3, <1>4, AppendedTo
<1>6. DOMAIN q = 1..(n + 1)
  BY <1>5, Indexed
<1>7. \A k \in DOMAIN q : Listener(q[k])
  <2>1. \A k \in 1..n : Listener(q[k])
    BY <1>2, <1>4, <1>5 DEF Listening
  <2>2. \A k \in 1..(n + 1) : k \in 1..n \/ k = n + 1
    BY <1>4
  <2> QED BY <1>5, <1>6, <2>1, <2>2
<1>8. DOMAIN listeners' = Streams /\ \A x \in Streams : DOMAIN listeners'[x] = Events
  BY <1>2 DEF Listening
<1>9. \A x \in Streams, y \in Events :
        listeners'[x][y] = IF x = s /\ y = ev THEN q ELSE listeners[x][y]
  BY <1>1, <1>2 DEF Listening
<1>10. \A x \in Streams, y \in Events :
         /\ IsSeq(listeners'[x][y])
         /\ \A k \in DOMAIN listeners'[x][y] : Listener(listeners'[x][y][k])
  BY <1>2, <1>5, <1>7, <1>9 DEF Listening
<1> QED BY <1>8, <1>10 DEF Listening, IsSeq, Listener

LEMMA OnStep ==
  ASSUME Inv, On, io' = io
  PROVE  Inv'
<1>0. Running("on") /\ "on" \notin Vital
  BY DEF On, Vital
<1>1. PICK s : s = top.s
  OBVIOUS
<1>2. s \in Readers /\ s \in Streams /\ top.ev \in Events /\ Listener(top.l)
  BY <1>0, <1>1, Top DEF Known, ReaderCalls
<1>3. listeners' = [listeners EXCEPT ![s][top.ev] = Append(@, top.l)]
  BY <1>1, Zenon DEF On
<1>4. Listening'
  BY <1>2, <1>3, ListenerAdded
<1>5. RsKept /\ AllPlain(ticks)'
  <2>1. CASE top.ev = "data"
    BY <1>1, <1>2, <2>1, Resuming DEF On
  <2>2. CASE top.ev = "readable"
    <3>1. rs' = [rs EXCEPT ![s] = Paused(@)] /\ ticks' = Append(ticks, Call("maybeRead", s))
      BY <1>1, <2>2 DEF On
    <3>2. AllPlain(<<Call("maybeRead", s)>>)
      BY <1>2, PlainLists, PlainCalls DEF Vital, WriterCalls
    <3>3. ticks' = ticks \o <<Call("maybeRead", s)>>
      <4>1. PICK T : ticks \in Seq(T) /\ Call("maybeRead", s) \in T
        <5>1. ticks \in Seq(ToSet(ticks))
          BY DEF Inv, Calls, AllPlain, IsSeq
        <5>2. ticks \in Seq(ToSet(ticks) \cup {Call("maybeRead", s)})
          BY <5>1, SeqMonotonic
        <5> QED BY <5>2
      <4> QED BY <3>1, <4>1, AppendIsConcat
    <3> QED BY <1>2, <3>1, <3>2, <3>3, Pausing, TicksAdded
  <2>3. CASE top.ev \notin {"data", "readable"}
    <3>1. rs' = rs /\ ticks' = ticks
      BY <2>3 DEF On
    <3> QED BY <3>1, NothingWritten, Unheard
  <2> QED BY <2>1, <2>2, <2>3
<1>6. WsKept
  BY NothingWritten DEF On
<1>7. Continue(<<>>) /\ AllPlain(<<>>) /\ emitted' = emitted
  BY PlainLists DEF On
<1> QED BY <1>0, <1>4, <1>5, <1>6, <1>7, PlainRun

LEMMA RemoveListenerStep ==
  ASSUME Inv, RemoveListener, io' = io
  PROVE  Inv'
<1>0. Running("off") /\ "off" \notin Vital
  BY DEF RemoveListener, Vital
<1>1. PICK s : s = top.s
  OBVIOUS
<1>2. PICK ev : ev = top.ev
  OBVIOUS
<1>3. s \in Readers /\ s \in Streams /\ ev \in Events
  BY <1>0, <1>1, <1>2, Top DEF Known, ReaderCalls
<1>4. PICK all : all = listeners[s][ev]
  OBVIOUS
<1>5. Listening
  BY DEF Inv, Calls
<1>6. IsSeq(all) /\ \A k \in DOMAIN all : Listener(all[k])
  BY <1>3, <1>4, <1>5 DEF Listening
<1>7. PICK n \in Nat : n = Len(all) /\ DOMAIN all = 1..n
  BY <1>6, Indexed
<1>8. PICK i, kept, flowing :
        /\ i \in 0..n
        /\ kept = IF i = 0 THEN all ELSE RemoveAt(all, i)
        /\ listeners' = [listeners EXCEPT ![s][ev] = kept]
        /\ rs' = [rs EXCEPT ![s].flowing = flowing]
  <2>1. PICK i \in 0..Len(all) : LET kept == IF i = 0 THEN all ELSE RemoveAt(all, i)
             IN /\ listeners' = [listeners EXCEPT ![s][ev] = kept]
                /\ rs' = [rs EXCEPT
                     ![s].flowing = @ /\ ~(ev = "data" /\ kept = <<>>)]
    BY <1>1, <1>2, <1>4, Zenon DEF RemoveListener
  <2>2. PICK kept : kept = IF i = 0 THEN all ELSE RemoveAt(all, i)
    OBVIOUS
  <2>3. PICK flowing : /\ listeners' = [listeners EXCEPT ![s][ev] = kept]
                       /\ rs' = [rs EXCEPT ![s].flowing = flowing]
    BY <2>1, <2>2, Zenon
  <2>4. i \in 0..n
    BY <1>7
  <2> QED BY <2>2, <2>3, <2>4
<1>9. IsSeq(kept) /\ \A k \in DOMAIN kept : Listener(kept[k])
  <2>1. CASE i = 0
    BY <1>6, <1>8, <2>1
  <2>2. CASE i # 0
    <3>1. i \in 1..Len(all) /\ kept = RemoveAt(all, i)
      BY <1>7, <1>8, <2>2
    <3>2. /\ IsSeq(kept) /\ Len(kept) = n - 1
          /\ \A k \in 1..(n - 1) : kept[k] = IF k < i THEN all[k] ELSE all[k + 1]
      BY <1>6, <1>7, <3>1, Removed
    <3>3. DOMAIN kept = 1..(n - 1)
      BY <3>2, Indexed
    <3>4. \A k \in 1..(n - 1) : k \in 1..n /\ k + 1 \in 1..n
      BY <1>7
    <3> QED BY <1>6, <1>7, <3>2, <3>3, <3>4
  <2> QED BY <2>1, <2>2
<1>10. Listening'
  <2>1. DOMAIN listeners' = Streams /\ \A x \in Streams : DOMAIN listeners'[x] = Events
    BY <1>5, <1>8 DEF Listening
  <2>2. \A x \in Streams, y \in Events :
          listeners'[x][y] = IF x = s /\ y = ev THEN kept ELSE listeners[x][y]
    BY <1>3, <1>5, <1>8 DEF Listening
  <2>3. \A x \in Streams, y \in Events :
          /\ IsSeq(listeners'[x][y])
          /\ \A k \in DOMAIN listeners'[x][y] : Listener(listeners'[x][y][k])
    BY <1>5, <1>9, <2>2 DEF Listening
  <2> QED BY <2>1, <2>3 DEF Listening, IsSeq, Listener
<1>11. RsKept
  BY <1>3, <1>8, ReaderFields
<1>12. WsKept /\ AllPlain(ticks)' /\ emitted' = emitted /\ Continue(<<>>)
  BY NothingWritten, Unheard DEF RemoveListener
<1> QED BY <1>0, <1>10, <1>11, <1>12, PlainLists, PlainRun

LEMMA PauseStep ==
  ASSUME Inv, PauseCall, io' = io
  PROVE  Inv'
<1>0. Running("pause") /\ "pause" \notin Vital
  BY DEF PauseCall, Vital
<1>1. top.s \in Readers
  BY <1>0, Top DEF Known, ReaderCalls
<1>2. RsKept
  BY <1>1, Pausing DEF PauseCall, Pause
<1> QED BY <1>0, <1>2, PlainLists, ReaderRun DEF PauseCall, Pause

LEMMA ResumeStep ==
  ASSUME Inv, ResumeCall, io' = io
  PROVE  Inv'
<1>0. Running("resume") /\ "resume" \notin Vital
  BY DEF ResumeCall, Vital
<1>1. top.s \in Readers
  BY <1>0, Top DEF Known, ReaderCalls
<1>2. RsKept /\ AllPlain(ticks)'
  BY <1>1, Resuming DEF ResumeCall
<1>3. WsKept /\ Listening' /\ emitted' = emitted /\ Continue(<<>>)
  BY NothingWritten, Unheard DEF ResumeCall
<1> QED BY <1>0, <1>2, <1>3, PlainLists, PlainRun

-----------------------------------------------------------------------------
(* The writable side. *)

\* Neither destroyed nor finished is written.
LEMMA WriterFields ==
  ASSUME Inv, NEW s \in Writers
  PROVE  /\ \A a, b : ws' = [ws EXCEPT ![s].length = a, ![s].corkedBuffer = b] => WsKept
         /\ \A a, b : ws' = [ws EXCEPT ![s].length = a, ![s].pending = b] => WsKept
         /\ \A a, b : ws' = [ws EXCEPT ![s].current = a, ![s].pending = b] => WsKept
         /\ \A a, b : ws' = [ws EXCEPT ![s].current = a, ![s].length = b] => WsKept
         /\ \A a : ws' = [ws EXCEPT ![s].needDrain = a] => WsKept
         /\ \A a : ws' = [ws EXCEPT ![s].ended = a] => WsKept
         /\ \A a : ws' = [ws EXCEPT ![s].corked = a] => WsKept
         /\ \A a, b, c : ws' = [ws EXCEPT ![s].corked = a, ![s].pending = b,
                                          ![s].corkedBuffer = c] => WsKept
         /\ \A a, b, c : ws' = [ws EXCEPT ![s].pending = a, ![s].corkedBuffer = b,
                                          ![s].length = c] => WsKept
<1> USE DEF Inv, States, WsKept
<1>1. ASSUME NEW a, NEW b, ws' = [ws EXCEPT ![s].length = a, ![s].corkedBuffer = b] PROVE WsKept
  BY <1>1
<1>2. ASSUME NEW a, NEW b, ws' = [ws EXCEPT ![s].length = a, ![s].pending = b] PROVE WsKept
  BY <1>2
<1>3. ASSUME NEW a, NEW b, ws' = [ws EXCEPT ![s].current = a, ![s].pending = b] PROVE WsKept
  BY <1>3
<1>4. ASSUME NEW a, NEW b, ws' = [ws EXCEPT ![s].current = a, ![s].length = b] PROVE WsKept
  BY <1>4
<1>5. ASSUME NEW a, ws' = [ws EXCEPT ![s].needDrain = a] PROVE WsKept
  BY <1>5
<1>6. ASSUME NEW a, ws' = [ws EXCEPT ![s].ended = a] PROVE WsKept
  BY <1>6
<1>7. ASSUME NEW a, ws' = [ws EXCEPT ![s].corked = a] PROVE WsKept
  BY <1>7
<1>8. ASSUME NEW a, NEW b, NEW c,
             ws' = [ws EXCEPT ![s].corked = a, ![s].pending = b, ![s].corkedBuffer = c]
      PROVE  WsKept
  BY <1>8
<1>9. ASSUME NEW a, NEW b, NEW c,
             ws' = [ws EXCEPT ![s].pending = a, ![s].corkedBuffer = b, ![s].length = c]
      PROVE  WsKept
  BY <1>9
<1> HIDE DEF Inv, States, WsKept
<1> QED BY <1>1, <1>2, <1>3, <1>4, <1>5, <1>6, <1>7, <1>8, <1>9

LEMMA WriterRun ==
  ASSUME Inv, NEW f, Running(f), f \notin Vital, NEW P, Continue(P), AllPlain(P),
         WsKept, UNCHANGED <<rs, listeners, ticks, io, emitted>>
  PROVE  Inv'
<1>1. RsKept /\ Listening' /\ AllPlain(ticks)'
  BY NothingWritten, Unheard
<1> QED BY <1>1, PlainRun

LEMMA WriteStep ==
  ASSUME Inv, Write, io' = io
  PROVE  Inv'
<1>0. Running("write") /\ "write" \notin Vital
  BY DEF Write, Vital
<1>1. PICK s : s = top.s
  OBVIOUS
<1>2. s \in Writers /\ s \in Streams
  BY <1>0, <1>1, Top DEF Known, WriterCalls
<1>3. WsKept
  <2>1. \/ ws' = ws
        \/ \E a, b : ws' = [ws EXCEPT ![s].length = a, ![s].corkedBuffer = b]
        \/ \E a, b : ws' = [ws EXCEPT ![s].length = a, ![s].pending = b]
    BY <1>1, Zenon DEF Write
  <2> QED BY <1>2, <2>1, NothingWritten, WriterFields
<1>4. AllPlain(ticks)'
  <2>1. ticks' = ticks \/ \E item : ticks' = ticks \o Callback(s, item, TRUE)
    BY <1>1, Zenon DEF Write
  <2> QED BY <1>2, <2>1, Unheard, PlainCallback, TicksAdded
<1>5. PICK P : Continue(P) /\ AllPlain(P)
  <2>1. /\ Plain(CallE("destroy", s, TRUE)) /\ Plain(Call("doWrite", s))
        /\ Plain(Call("written", s))
    BY <1>2, PlainCalls DEF Vital, WriterCalls, ReaderCalls
  <2>2. /\ AllPlain(<<>>) /\ AllPlain(<<CallE("destroy", s, TRUE)>>)
        /\ AllPlain(<<Call("doWrite", s), Call("written", s)>>)
    BY <2>1, PlainLists
  <2>3. \/ Continue(<<>>) \/ Continue(<<CallE("destroy", s, TRUE)>>)
        \/ Continue(<<Call("doWrite", s), Call("written", s)>>)
    BY <1>1, Zenon DEF Write
  <2> QED BY <2>2, <2>3
<1>6. RsKept /\ Listening' /\ emitted' = emitted
  BY NothingWritten, Unheard DEF Write
<1> QED BY <1>0, <1>3, <1>4, <1>5, <1>6, PlainRun

LEMMA WrittenStep ==
  ASSUME Inv, Written, io' = io
  PROVE  Inv'
<1>0. Running("written") /\ "written" \notin Vital
  BY DEF Written, Vital
<1>1. PICK s : s = top.s
  OBVIOUS
<1>2. s \in Writers
  BY <1>0, <1>1, Top DEF Known, WriterCalls
<1>3. \E a : ws' = [ws EXCEPT ![s].needDrain = a]
  BY <1>1, Zenon DEF Written
<1>4. WsKept
  BY <1>2, <1>3, WriterFields
<1> QED BY <1>0, <1>4, PlainLists, WriterRun DEF Written

LEMMA DoWriteStep ==
  ASSUME Inv, DoWrite, io' = io
  PROVE  Inv'
<1>0. Running("doWrite") /\ "doWrite" \notin Vital
  BY DEF DoWrite, Vital
<1>1. PICK s : s = top.s
  OBVIOUS
<1>2. s \in Writers /\ s \in Streams
  BY <1>0, <1>1, Top DEF Known, WriterCalls
<1>3. WsKept
  <2>1. ws' = ws \/ \E a, b : ws' = [ws EXCEPT ![s].current = a, ![s].pending = b]
    BY <1>1, Zenon DEF DoWrite
  <2> QED BY <1>2, <2>1, NothingWritten, WriterFields
<1>4. PICK P : Continue(P) /\ AllPlain(P)
  <2>1. \A c : AllPlain(<<CallC("_write", s, c)>>)
    BY <1>2, PlainCalls, PlainLists DEF Vital, WriterCalls, ReaderCalls
  <2>2. Continue(<<>>) \/ \E c : Continue(<<CallC("_write", s, c)>>)
    BY <1>1, Zenon DEF DoWrite
  <2> QED BY <2>1, <2>2, PlainLists
<1> QED BY <1>0, <1>3, <1>4, WriterRun DEF DoWrite

LEMMA OnWriteStep ==
  ASSUME Inv, OnWrite, io' = io
  PROVE  Inv'
<1>0. Running("onwrite") /\ "onwrite" \notin Vital
  BY DEF OnWrite, Vital
<1>1. PICK s : s = top.s
  OBVIOUS
<1>2. s \in Writers /\ s \in Streams
  BY <1>0, <1>1, Top DEF Known, WriterCalls
<1>3. WsKept
  <2>1. \E a, b : ws' = [ws EXCEPT ![s].current = a, ![s].length = b]
    BY <1>1, Zenon DEF OnWrite
  <2> QED BY <1>2, <2>1, WriterFields
<1>4. PICK P : Continue(P) /\ AllPlain(P)
  <2>1. AllPlain(<<CallE("destroy", s, TRUE)>>) /\ AllPlain(<<Call("afterWrite", s)>>)
    BY <1>2, PlainCalls, PlainLists DEF Vital, WriterCalls, ReaderCalls
  <2>2. PICK q : q = Callback(s, ws[s].current, top.err)
    OBVIOUS
  <2>3. AllPlain(q)
    BY <1>2, <2>2, PlainCallback
  <2>4. Continue(q \o <<IF top.err THEN CallE("destroy", s, TRUE) ELSE Call("afterWrite", s)>>)
    BY <1>1, <2>2 DEF OnWrite
  <2>5. AllPlain(<<IF top.err THEN CallE("destroy", s, TRUE) ELSE Call("afterWrite", s)>>)
    BY <2>1
  <2> QED BY <2>3, <2>4, <2>5, PlainJoined
<1> QED BY <1>0, <1>3, <1>4, WriterRun DEF OnWrite

LEMMA AfterWriteStep ==
  ASSUME Inv, AfterWrite, io' = io
  PROVE  Inv'
<1>0. Running("afterWrite") /\ "afterWrite" \notin Vital
  BY DEF AfterWrite, Vital
<1>1. PICK s : s = top.s
  OBVIOUS
<1>2. s \in Writers /\ s \in Streams
  BY <1>0, <1>1, Top DEF Known, WriterCalls
<1>3. WsKept
  <2>1. \E a : ws' = [ws EXCEPT ![s].needDrain = a]
    BY <1>1, Zenon DEF AfterWrite
  <2> QED BY <1>2, <2>1, WriterFields
<1>4. PICK P : Continue(P) /\ AllPlain(P)
  <2>1. AllPlain(<<Call("doWrite", s)>>) /\ AllPlain(<<Call("maybeFinish", s)>>)
    BY <1>2, PlainCalls, PlainLists DEF Vital, WriterCalls, ReaderCalls
  <2>2. AllPlain(<<Emit(s, "drain")>>)
    BY <1>2, PlainLists, PlainEvents DEF Events, Lifecycle
  <2>3. \A a : AllPlain(Then(a, <<Emit(s, "drain")>>) \o <<Call("maybeFinish", s)>>)
    BY <2>1, <2>2, PlainLists, PlainJoined
  <2>4. \/ Continue(<<>>) \/ Continue(<<Call("doWrite", s)>>)
        \/ \E a : Continue(Then(a, <<Emit(s, "drain")>>) \o <<Call("maybeFinish", s)>>)
    BY <1>1, Zenon DEF AfterWrite
  <2> QED BY <2>1, <2>3, <2>4, PlainLists
<1> QED BY <1>0, <1>3, <1>4, WriterRun DEF AfterWrite

LEMMA EndStep ==
  ASSUME Inv, End, io' = io
  PROVE  Inv'
<1>0. Running("end") /\ "end" \notin Vital
  BY DEF End, Vital
<1>1. PICK s : s = top.s
  OBVIOUS
<1>2. s \in Writers /\ s \in Streams
  BY <1>0, <1>1, Top DEF Known, WriterCalls
<1>3. WsKept
  <2>1. \E a : ws' = [ws EXCEPT ![s].ended = a]
    BY <1>1, Zenon DEF End
  <2> QED BY <1>2, <2>1, WriterFields
<1>4. PICK P : Continue(P) /\ AllPlain(P)
  <2>1. AllPlain(<<Call("maybeFinish", s)>>)
    BY <1>2, PlainCalls, PlainLists DEF Vital, ReaderCalls
  <2>2. \E a : Continue(Then(a, <<Call("maybeFinish", s)>>))
    BY <1>1, Zenon DEF End
  <2> QED BY <2>1, <2>2, PlainLists
<1> QED BY <1>0, <1>3, <1>4, WriterRun DEF End

LEMMA MaybeFinishStep ==
  ASSUME Inv, MaybeFinish, io' = io
  PROVE  Inv'
<1>0. Running("maybeFinish") /\ "maybeFinish" \notin Vital
  BY DEF MaybeFinish, Vital
<1>1. PICK s : s = top.s
  OBVIOUS
<1>2. s \in Writers /\ s \in Streams
  BY <1>0, <1>1, Top DEF Known, WriterCalls
<1>3. PICK P : Continue(P) /\ AllPlain(P)
  <2>1. PICK f : f = CASE s \in Transforms -> "_flush"
                       [] s \in CustomFinal -> "_final"
                       [] OTHER -> "finish"
    OBVIOUS
  <2>2. f \in {"_flush", "_final", "finish"}
    BY <2>1
  <2>3. AllPlain(<<Call(f, s)>>)
    BY <1>2, <2>2, PlainCalls, PlainLists DEF Vital, ReaderCalls
  <2>4. \E a : Continue(Then(a, <<Call(f, s)>>))
    BY <1>1, <2>1 DEF MaybeFinish
  <2> QED BY <2>3, <2>4, PlainLists
<1>4. WsKept
  BY NothingWritten DEF MaybeFinish
<1> QED BY <1>0, <1>3, <1>4, WriterRun DEF MaybeFinish

LEMMA FinalDoneStep ==
  ASSUME Inv, FinalDone, io' = io
  PROVE  Inv'
<1>0. Running("finalDone") /\ "finalDone" \notin Vital
  BY DEF FinalDone, Vital
<1>1. PICK s : s = top.s
  OBVIOUS
<1>2. s \in Writers /\ s \in Streams
  BY <1>0, <1>1, Top DEF Known, WriterCalls
<1>3. AllPlain(<<IF top.err THEN CallE("destroy", s, TRUE) ELSE Call("finish", s)>>)
  <2>1. AllPlain(<<CallE("destroy", s, TRUE)>>) /\ AllPlain(<<Call("finish", s)>>)
    BY <1>2, PlainCalls, PlainLists DEF Vital, WriterCalls, ReaderCalls
  <2> QED BY <2>1
<1>4. WsKept
  BY NothingWritten DEF FinalDone
<1> QED BY <1>0, <1>1, <1>3, <1>4, WriterRun DEF FinalDone

LEMMA CorkCallStep ==
  ASSUME Inv, Cork, io' = io
  PROVE  Inv'
<1>0. Running("cork") /\ "cork" \notin Vital
  BY DEF Cork, Vital
<1>1. top.s \in Writers
  BY <1>0, Top DEF Known, WriterCalls
<1>2. \E a : ws' = [ws EXCEPT ![top.s].corked = a]
  BY Zenon DEF Cork
<1>3. WsKept
  BY <1>1, <1>2, WriterFields
<1> QED BY <1>0, <1>3, PlainLists, WriterRun DEF Cork

LEMMA UncorkCallStep ==
  ASSUME Inv, Uncork, io' = io
  PROVE  Inv'
<1>0. Running("uncork") /\ "uncork" \notin Vital
  BY DEF Uncork, Vital
<1>1. PICK s : s = top.s
  OBVIOUS
<1>2. s \in Writers /\ s \in Streams
  BY <1>0, <1>1, Top DEF Known, WriterCalls
<1>3. WsKept
  <2>1. PICK a, b, c : ws' = [ws EXCEPT ![s].corked = a, ![s].pending = b, ![s].corkedBuffer = c]
    BY <1>1, Zenon DEF Uncork
  <2> QED BY <1>2, <2>1, WriterFields
<1>4. PICK P : Continue(P) /\ AllPlain(P)
  <2>1. AllPlain(<<Call("doWrite", s)>>)
    BY <1>2, PlainCalls, PlainLists DEF Vital, ReaderCalls
  <2>2. \E a : Continue(Then(a, <<Call("doWrite", s)>>))
    BY <1>1, Zenon DEF Uncork
  <2> QED BY <2>1, <2>2, PlainLists
<1> QED BY <1>0, <1>3, <1>4, WriterRun DEF Uncork

LEMMA AutoDestroyStep ==
  ASSUME Inv, AutoDestroy, io' = io
  PROVE  Inv'
<1>0. Running("autoDestroy") /\ "autoDestroy" \notin Vital
  BY DEF AutoDestroy, Vital
<1>1. PICK s : s = top.s
  OBVIOUS
<1>2. s \in Streams
  BY <1>0, <1>1, Top
<1>3. AllPlain(ticks)'
  <2>1. AllPlain(<<CallE("destroy", s, FALSE)>>)
    BY <1>2, PlainCalls, PlainLists DEF Vital, WriterCalls, ReaderCalls
  <2>2. \E a : ticks' = ticks \o Then(a, <<CallE("destroy", s, FALSE)>>)
    BY <1>1, Zenon DEF AutoDestroy
  <2> QED BY <2>1, <2>2, PlainLists, TicksAdded
<1>4. RsKept /\ WsKept /\ Listening' /\ emitted' = emitted /\ Continue(<<>>)
  BY NothingWritten, Unheard DEF AutoDestroy
<1> QED BY <1>0, <1>3, <1>4, PlainLists, PlainRun

LEMMA PlainFailures ==
  ASSUME NEW s \in Streams, NEW list
  PROVE  AllPlain(FailWrites(s, list))
<1>1. PICK f : f = [fn |-> "failWrites", s |-> s, list |-> list]
  OBVIOUS
<1>2. f.fn = "failWrites" /\ f.s = s
  BY <1>1
<1>3. Plain(f)
  BY <1>2 DEF Plain, Known, ReaderCalls, WriterCalls
<1>4. AllPlain(<<f>>)
  BY <1>3, PlainLists
<1> QED BY <1>1, <1>4, PlainLists DEF FailWrites

LEMMA FailNextStep ==
  ASSUME Inv, FailNext, io' = io
  PROVE  Inv'
<1>0. Running("failWrites") /\ "failWrites" \notin Vital
  BY DEF FailNext, Vital
<1>1. top.s \in Streams
  BY <1>0, Top
<1>2. AllPlain(Callback(top.s, Head(top.list), TRUE) \o FailWrites(top.s, Tail(top.list)))
  BY <1>1, PlainCallback, PlainFailures, PlainJoined
<1>3. WsKept
  BY NothingWritten DEF FailNext
<1> QED BY <1>0, <1>2, <1>3, WriterRun DEF FailNext

LEMMA DropWritesStep ==
  ASSUME Inv, DropWrites, io' = io
  PROVE  Inv'
<1>0. Running("dropWrites") /\ "dropWrites" \notin Vital
  BY DEF DropWrites, Vital
<1>1. top.s \in Writers
  BY <1>0, Top DEF Known, WriterCalls
<1>2. WsKept
  BY <1>1, WriterFields DEF DropWrites
<1> QED BY <1>0, <1>2, PlainLists, WriterRun DEF DropWrites

-----------------------------------------------------------------------------
(* The event loop, user code and the iterator. *)

LEMMA RunTickStep ==
  ASSUME Inv, RunTick, io' = io
  PROVE  Inv'
<1>0. AllPlain(ticks) /\ IsSeq(ticks) /\ IsSeq(stack) /\ stack = <<>> /\ ticks # <<>>
  BY DEF RunTick, Inv, Calls, AllPlain
<1>1. /\ IsSeq(Tail(ticks)) /\ Len(ticks) \in Nat \ {0} /\ Len(Tail(ticks)) = Len(ticks) - 1
      /\ \A k \in 1..(Len(ticks) - 1) : Tail(ticks)[k] = ticks[k + 1]
      /\ Head(ticks) = ticks[1]
  BY <1>0, TailOf
<1>2. Plain(Head(ticks))
  BY <1>0, <1>1 DEF AllPlain
<1>3. AllPlain(Tail(ticks))
  <2>1. \A k \in 1..(Len(ticks) - 1) : k + 1 \in 1..Len(ticks)
    BY <1>1
  <2> QED BY <1>0, <1>1, <2>1 DEF AllPlain
<1>4. AllPlain(<<Head(ticks)>>) /\ IsSeq(<<Head(ticks)>>)
  BY <1>2, PlainLists DEF AllPlain
<1>5. stack' = <<Head(ticks)>> \o stack
  BY <1>0 DEF RunTick
<1>6. Shifted(<<Head(ticks)>>, 0)
  BY <1>0, <1>4, <1>5, Pushed
<1>7. 1 \notin DOMAIN stack
  BY <1>0
<1>8. /\ RsKept /\ WsKept /\ Listening' /\ Owed' /\ emitted' = emitted
      /\ \A s \in Streams : IoKept(s)
  BY NothingWritten, Unheard, IoUnchanged DEF RunTick, Inv, Calls, Owed
<1>9. AllPlain(ticks)'
  BY <1>3 DEF RunTick, AllPlain
<1> QED BY <1>4, <1>6, <1>7, <1>8, <1>9, PlainStep

LEMMA OneStream ==
  r \in Readers /\ w \in Writers /\ r \in Streams /\ w \in Streams
BY UserAssumption DEF Streams

LEMMA PlainOn ==
  ASSUME NEW ev \in Events, NEW f
  PROVE  /\ Plain(OffCall(r, ev, f))
         /\ Listener(f) => Plain(OnCall(r, ev, f))
<1>1. /\ OffCall(r, ev, f).fn = "off" /\ OffCall(r, ev, f).s = r /\ OffCall(r, ev, f).ev = ev
      /\ OnCall(r, ev, f).fn = "on" /\ OnCall(r, ev, f).s = r /\ OnCall(r, ev, f).ev = ev
      /\ OnCall(r, ev, f).l = f
  BY DEF OnCall, OffCall
<1> QED BY <1>1, OneStream DEF Plain, Known, ReaderCalls, WriterCalls

LEMMA OfferedIsPlain ==
  ASSUME use \in Uses, NEW call \in Offered
  PROVE  Plain(call)
<1>0. use \in {"data", "read", "iterate", "write"}
  BY UserAssumption
<1>1. /\ \A e : Plain(CallE("destroy", r, e)) /\ Plain(CallE("destroy", w, e))
      /\ \A f \in {"pause", "resume", "read", "itNext", "itReturn", "iterate"} :
           Plain(Call(f, r))
      /\ \A c : Plain(CallC("unshift", r, c))
      /\ \A f \in {"end", "cork", "uncork"} : Plain(Call(f, w))
  BY OneStream, PlainCalls DEF Vital, ReaderCalls, WriterCalls
<1>2. \A c, cb : Plain(WriteCall(w, c, cb))
  <2>1. ASSUME NEW c, NEW cb PROVE WriteCall(w, c, cb).fn = "write" /\ WriteCall(w, c, cb).s = w
    BY DEF WriteCall
  <2> QED BY <2>1, OneStream DEF Plain, Known, ReaderCalls, WriterCalls
<1>3. /\ Plain(OffCall(r, "data", Received)) /\ Plain(OnCall(r, "data", Received))
      /\ Plain(OnCall(r, "readable", User(r)))
  <2>1. Listener(Received) /\ Listener(User(r))
    BY OneStream DEF Listener, Received, User, Call
  <2> QED BY <2>1, PlainOn DEF Events
<1>4. CASE use = "data"
  BY <1>1, <1>3, <1>4 DEF Offered
<1>5. CASE use = "read"
  BY <1>1, <1>3, <1>5 DEF Offered
<1>6. CASE use = "iterate"
  BY <1>1, <1>6 DEF Offered
<1>7. CASE use = "write"
  BY <1>1, <1>2, <1>7 DEF Offered
<1> QED BY <1>0, <1>4, <1>5, <1>6, <1>7

LEMMA UserCallsStep ==
  ASSUME Inv, use \in Uses, UserCalls
  PROVE  Inv'
<1>1. PICK call \in Offered : stack' = <<call>> \o stack
  BY DEF UserCalls
<1>2. AllPlain(<<call>>)
  BY <1>1, OfferedIsPlain, PlainLists
<1>3. Shifted(<<call>>, 0)
  BY <1>1, <1>2, Pushed DEF AllPlain, Inv, Calls
<1>4. 1 \in DOMAIN stack => Plain(stack[1])
  <2>1. CASE stack = <<>>
    BY <2>1
  <2>2. CASE Running("user")
    BY <2>2, Top DEF Plain
  <2> QED BY <2>1, <2>2 DEF UserCalls
<1>5. /\ RsKept /\ WsKept /\ Listening' /\ AllPlain(ticks)' /\ Owed' /\ emitted' = emitted
      /\ \A s \in Streams : IoKept(s)
  BY NothingWritten, Unheard, IoUnchanged DEF UserCalls, Inv, Calls, Owed
<1> QED BY <1>2, <1>3, <1>4, <1>5, PlainStep

\* A step of user code writes nothing of the stream's state.
LEMMA OutsideRun ==
  ASSUME Inv, NEW f, Running(f), f \notin Vital, NEW P, Continue(P), AllPlain(P),
         UNCHANGED <<rs, ws, listeners, ticks, io, emitted>>
  PROVE  Inv'
BY NothingWritten, ReaderRun

LEMMA UserCodeStep ==
  ASSUME Inv, UserReturns \/ DataArrives \/ CallbackRuns
  PROVE  Inv'
<1>1. AllPlain(<<User(r)>>) /\ AllPlain(<<User(w)>>)
  BY OneStream, PlainCalls, PlainLists DEF User, Vital, ReaderCalls, WriterCalls
<1>2. CASE UserReturns
  BY <1>2, PlainLists, OutsideRun DEF UserReturns, Vital, userVars
<1>3. CASE DataArrives
  BY <1>1, <1>3, OutsideRun DEF DataArrives, Vital
<1>4. CASE CallbackRuns
  <2>1. PICK P : Continue(P) /\ AllPlain(P)
    BY <1>1, <1>4, PlainLists DEF CallbackRuns
  <2> QED BY <1>4, <2>1, OutsideRun DEF CallbackRuns, Vital
<1> QED BY <1>2, <1>3, <1>4

LEMMA IteratorListeners ==
  AllPlain(InOrder(OnCall)) /\ AllPlain(InOrder(OffCall))
<1>1. PICK evs : evs = <<"data", "end", "error", "close">>
  OBVIOUS
<1>2. \A i \in 1..4 : evs[i] \in {"data", "end", "error", "close"}
  BY <1>1
<1>3. \A ev \in {"data", "end", "error", "close"} :
        ev \in Events /\ Listener(IteratorListens[ev])
  BY OneStream DEF IteratorListens, Listener, Call, Events
<1>4. ASSUME NEW q, DOMAIN q = 1..4, q = [i \in 1..4 |-> q[i]], \A i \in 1..4 : Plain(q[i])
      PROVE  AllPlain(q)
  <2>1. q \in [1..4 -> ToSet(q)]
    BY <1>4 DEF ToSet
  <2>2. q \in Seq(ToSet(q)) /\ Len(q) = 4
    BY <1>4, <2>1
  <2> QED BY <1>4, <2>2 DEF AllPlain, IsSeq
<1>5. AllPlain(InOrder(OnCall))
  <2>1. PICK q : q = InOrder(OnCall)
    OBVIOUS
  <2>2. q = [i \in 1..4 |-> OnCall(r, evs[i], IteratorListens[evs[i]])]
    BY <1>1, <2>1 DEF InOrder
  <2>3. \A i \in 1..4 : Plain(OnCall(r, evs[i], IteratorListens[evs[i]]))
    BY <1>2, <1>3, PlainOn
  <2> QED BY <1>4, <2>1, <2>2, <2>3
<1>6. AllPlain(InOrder(OffCall))
  <2>1. PICK q : q = InOrder(OffCall)
    OBVIOUS
  <2>2. q = [i \in 1..4 |-> OffCall(r, evs[i], IteratorListens[evs[i]])]
    BY <1>1, <2>1 DEF InOrder
  <2>3. \A i \in 1..4 : Plain(OffCall(r, evs[i], IteratorListens[evs[i]]))
    BY <1>2, <1>3, PlainOn
  <2> QED BY <1>4, <2>1, <2>2, <2>3
<1> QED BY <1>5, <1>6

LEMMA IteratorCodeStep ==
  ASSUME Inv, IteratorStep, UNCHANGED <<rs, ws, listeners, ticks, ret, emitted>>
  PROVE  Inv'
<1>0. io' = io
  BY DEF IteratorStep
<1>1. CASE Iterate
  <2>1. AllPlain(<<Call("resume", r)>>)
    BY OneStream, PlainCalls, PlainLists DEF Vital, WriterCalls
  <2>2. PICK q : q = InOrder(OnCall)
    OBVIOUS
  <2>3. AllPlain(q \o <<Call("resume", r)>>)
    BY <2>1, <2>2, IteratorListeners, PlainJoined
  <2>4. Running("iterate") /\ Continue(q \o <<Call("resume", r)>>)
    BY <1>1, <2>2, Zenon DEF Iterate
  <2> QED BY <1>0, <2>3, <2>4, OutsideRun DEF Vital
<1>2. CASE ItData
  BY <1>0, <1>2, PlainLists, OutsideRun DEF ItData, Vital
<1>3. CASE ItEnd
  BY <1>0, <1>3, PlainLists, OutsideRun DEF ItEnd, Vital
<1>4. CASE ItError
  BY <1>0, <1>4, PlainLists, OutsideRun DEF ItError, Vital
<1>5. CASE ItNext
  BY <1>0, <1>5, PlainLists, OutsideRun DEF ItNext, Vital
<1>6. CASE ItReturn
  <2>1. PICK q : q = InOrder(OffCall)
    OBVIOUS
  <2>2. Running("itReturn") /\ Continue(q) /\ AllPlain(q)
    BY <1>6, <2>1, IteratorListeners, Zenon DEF ItReturn
  <2> QED BY <1>0, <2>2, OutsideRun DEF Vital
<1> QED BY <1>1, <1>2, <1>3, <1>4, <1>5, <1>6 DEF IteratorStep

-----------------------------------------------------------------------------
(* The steps in the life of a stream. *)

\* A step in the life of stream t leaves that of every other stream alone.
LEMMA VitalStep ==
  ASSUME Inv, NEW t \in Streams, NEW P, NEW d, Shifted(P, d),
         1 \in DOMAIN stack => d = 1 /\ stack[1].s = t,
         \A k \in 1..Len(P) : Known(P[k]) /\ (Plain(P[k]) \/ P[k].s = t),
         \A k \in 1..Len(P) :
           P[k].fn = "emit" /\ P[k].ev \in Lifecycle \ {"close"} => k = 1,
         States', Listening', AllPlain(ticks)', Owed',
         Life(t)',
         \A s \in Streams \ {t} : Unmoved(s) /\ IoKept(s),
         LifecycleOrder'
  PROVE  Inv'
<1>0. Len(P) \in Nat /\ d \in 0..1 /\ IsSeq(stack') /\ IsSeq(stack)
  BY Indexed DEF Shifted
<1>1. Calls'
  <2>1. ASSUME NEW k \in DOMAIN stack' PROVE Known(stack'[k])
    <3>1. \A m \in DOMAIN stack : Known(stack[m])
      BY DEF Inv, Calls
    <3> QED BY <3>1, Origin
  <2> QED BY <1>0, <2>1 DEF Calls, Known, Listener
<1>2. AtOnce'
  <2>1. ASSUME NEW k \in DOMAIN stack',
               stack'[k].fn = "emit" /\ stack'[k].ev \in Lifecycle \ {"close"}
        PROVE  k = 1
    <3>1. ASSUME NEW m \in DOMAIN stack, m > d
          PROVE  ~(stack[m].fn = "emit" /\ stack[m].ev \in Lifecycle \ {"close"})
      <4>1. 1 \in DOMAIN stack
        BY <1>0, Indexed
      <4>2. m # 1
        BY <3>1, <4>1
      <4> QED BY <4>2 DEF Inv, AtOnce
    <3> QED BY <2>1, <3>1, Origin
  <2> QED BY <2>1 DEF AtOnce
<1>3. ASSUME NEW s \in Streams PROVE Life(s)'
  <2>1. CASE s = t
    BY <2>1
  <2>2. CASE s # t
    <3>1. \A k \in 1..Len(P) : Apart(P[k], s)
      BY <2>2, PlainIsApart DEF Apart, Closing, Emits
    <3>2. 1 \in DOMAIN stack => Apart(stack[1], s)
      BY <2>2 DEF Apart, Closing, Emits
    <3> QED BY <2>2, <3>1, <3>2, LifeKept
  <2> QED BY <2>1, <2>2
<1> QED BY <1>1, <1>2, <1>3 DEF Inv

\* The calls of the listeners of an event.
LEMMA Notices ==
  ASSUME Inv, NEW s \in Streams, NEW ev \in Events, NEW event,
         NEW list, list = listeners[s][ev]
  PROVE  AllPlain([i \in DOMAIN list |-> Notified(list[i], event)])
<1>1. IsSeq(list) /\ \A k \in DOMAIN list : Listener(list[k])
  BY DEF Inv, Calls, Listening
<1>2. Len(list) \in Nat /\ DOMAIN list = 1..Len(list)
  BY <1>1, Indexed
<1>3. PICK P : P = [i \in 1..Len(list) |-> Notified(list[i], event)]
  OBVIOUS
<1>4. P \in [1..Len(list) -> {Notified(list[i], event) : i \in 1..Len(list)}]
  BY <1>3
<1>5. P \in Seq({Notified(list[i], event) : i \in 1..Len(list)}) /\ Len(P) = Len(list)
  BY <1>2, <1>3, <1>4
<1>6. IsSeq(P)
  BY <1>5, SeqIsSeq
<1>7. ASSUME NEW l, Listener(l) PROVE Plain(Notified(l, event))
  <2>1. Notified(l, event).fn = l.fn /\ Notified(l, event).s = l.s
    BY <1>7 DEF Notified, Listener
  <2> QED BY <1>7, <2>1 DEF Listener, Plain, Known, ReaderCalls, WriterCalls
<1>8. \A k \in 1..Len(P) : Plain(P[k])
  BY <1>1, <1>2, <1>3, <1>5, <1>7
<1> QED BY <1>2, <1>3, <1>6, <1>8 DEF AllPlain

\* After an event of its life, stream s has it in its history.
LEMMA Recorded ==
  ASSUME Inv, NEW s \in Streams, NEW ev \in Lifecycle,
         emitted' = [emitted EXCEPT ![s] = Append(@, ev)]
  PROVE  /\ emitted' \in [Streams -> Seq(Lifecycle)]
         /\ \A x \in Streams \ {s} : emitted'[x] = emitted[x]
         /\ \A e : Came(s, e)' <=> Came(s, e) \/ e = ev
         /\ /\ ~Came(s, ev) /\ ~Came(s, "close")
            /\ Came(s, "error") => ev = "close"
            => LifecycleOrder'
<1>1. emitted \in [Streams -> Seq(Lifecycle)]
  BY DEF Inv, States
<1>2. PICK n \in Nat : n = Len(emitted[s]) /\ DOMAIN emitted[s] = 1..n
  BY <1>1
<1>3. /\ emitted' \in [Streams -> Seq(Lifecycle)]
      /\ \A x \in Streams \ {s} : emitted'[x] = emitted[x]
      /\ emitted'[s] = Append(emitted[s], ev)
  BY <1>1
<1>4. /\ DOMAIN emitted'[s] = 1..(n + 1) /\ emitted'[s][n + 1] = ev
      /\ \A k \in 1..n : emitted'[s][k] = emitted[s][k]
  BY <1>1, <1>2, <1>3
<1>5. \A k \in 1..(n + 1) : k \in 1..n \/ k = n + 1
  BY <1>2
<1>6. \A e : Came(s, e)' <=> Came(s, e) \/ e = ev
  <2>1. \A e : (\E k \in 1..(n + 1) : emitted'[s][k] = e)
               <=> (\E k \in 1..n : emitted[s][k] = e) \/ e = ev
    BY <1>2, <1>4, <1>5
  <2> QED BY <1>2, <1>4, <2>1 DEF Came
<1>7. ASSUME ~Came(s, ev), ~Came(s, "close"), Came(s, "error") => ev = "close"
      PROVE  LifecycleOrder'
  <2>1. ASSUME NEW x \in Streams, NEW i \in DOMAIN emitted'[x], NEW j \in DOMAIN emitted'[x],
               i < j
        PROVE  /\ emitted'[x][i] # emitted'[x][j]
               /\ emitted'[x][i] # "close"
               /\ emitted'[x][i] = "error" => emitted'[x][j] = "close"
    <3>1. CASE x # s
      BY <1>3, <2>1, <3>1 DEF Inv, LifecycleOrder
    <3>2. CASE x = s /\ j \in 1..n
      <4>1. i \in 1..n
        BY <1>2, <1>4, <2>1, <3>2
      <4> QED BY <1>2, <1>4, <2>1, <3>2, <4>1 DEF Inv, LifecycleOrder
    <3>3. CASE x = s /\ j = n + 1
      <4>1. i \in 1..n
        BY <1>2, <1>4, <2>1, <3>3
      <4> QED BY <1>2, <1>4, <1>7, <3>3, <4>1 DEF Came
    <3> QED BY <1>4, <1>5, <3>1, <3>2, <3>3
  <2> QED BY <2>1 DEF LifecycleOrder
<1> QED BY <1>3, <1>6, <1>7

LEMMA EmitRuns ==
  ASSUME Inv, EmitStep, io' = io
  PROVE  Inv'
<1>0. Running("emit")
  BY DEF EmitStep
<1>1. PICK s : s = top.s
  OBVIOUS
<1>2. PICK ev : ev = top.ev
  OBVIOUS
<1>3. /\ s \in Streams /\ ev \in Events /\ Known(top) /\ 1 \in DOMAIN stack
      /\ top = stack[1] /\ top.fn = "emit" /\ IsSeq(stack) /\ stack # <<>>
  BY <1>0, <1>1, <1>2, Top DEF Known
<1>4. PICK list : list = listeners[s][ev]
  OBVIOUS
<1>5. PICK P : P = [i \in DOMAIN list |-> Notified(list[i], top)]
  OBVIOUS
<1>6. AllPlain(P)
  BY <1>3, <1>4, <1>5, Notices
<1>7. Continue(P)
  BY <1>1, <1>2, <1>4, <1>5 DEF EmitStep
<1>8. Shifted(P, 1)
  BY <1>3, <1>6, <1>7, Replaced DEF AllPlain
<1>9. /\ RsKept /\ WsKept /\ Listening' /\ AllPlain(ticks)' /\ Owed'
      /\ \A x \in Streams : IoKept(x)
  BY NothingWritten, Unheard, IoUnchanged DEF EmitStep, Inv, Calls, Owed
<1>10. CASE ev \notin Lifecycle
  <2>1. Plain(stack[1]) /\ emitted' = emitted
    BY <1>2, <1>3, <1>10 DEF Plain, EmitStep
  <2> QED BY <1>6, <1>8, <1>9, <2>1, PlainStep
<1>11. CASE ev \in Lifecycle
  <2>0. emitted' = [emitted EXCEPT ![s] = Append(@, ev)] /\ rs' = rs /\ ws' = ws
    BY <1>1, <1>2, <1>11 DEF EmitStep
  <2>1. /\ emitted' \in [Streams -> Seq(Lifecycle)]
        /\ \A x \in Streams \ {s} : emitted'[x] = emitted[x]
        /\ \A e : Came(s, e)' <=> Came(s, e) \/ e = ev
        /\ /\ ~Came(s, ev) /\ ~Came(s, "close")
           /\ Came(s, "error") => ev = "close"
           => LifecycleOrder'
    BY <1>3, <1>11, <2>0, Recorded
  <2>2. States'
    BY <2>0, <2>1 DEF Inv, States
  <2>3. \A x \in Streams \ {s} : Unmoved(x)
    BY <2>0, <2>1 DEF Unmoved, Destroyed
  <2>4. Emits(stack[1], s, ev) /\ Life(s) /\ OneLeaves(s)
    BY <1>1, <1>2, <1>3 DEF Inv, Life, Emits
  <2>5. Destroyed(s)' <=> Destroyed(s)
    BY <2>0 DEF Destroyed
  \* What was on the stack and stays has none of the other events.
  <2>6. ASSUME NEW k \in DOMAIN stack', ~Apart(stack'[k], s)
        PROVE  \E m \in DOMAIN stack :
                 /\ m > 1 /\ k = m + Len(P) - 1 /\ stack'[k] = stack[m]
                 /\ Leaving(stack[m], s)
    <3>1. \A k1 \in 1..Len(P) : Apart(P[k1], s)
      BY <1>6, PlainIsApart DEF AllPlain
    <3>2. PICK m \in DOMAIN stack : m > 1 /\ k = m + Len(P) - 1 /\ stack'[k] = stack[m]
      BY <1>8, <2>6, <3>1, LeavingOrigin
    <3>3. ~(stack[m].fn = "emit" /\ stack[m].ev \in Lifecycle \ {"close"})
      BY <3>2 DEF Inv, AtOnce
    <3> QED BY <2>6, <3>2, <3>3 DEF Apart, Leaving, Emits, Lifecycle
  <2>7. ASSUME NEW k \in DOMAIN stack'
        PROVE  /\ ~Emits(stack'[k], s, "end") /\ ~Emits(stack'[k], s, "finish")
               /\ ~Emits(stack'[k], s, "error")
    BY <2>6 DEF Apart, Lifecycle, Leaving, Closing, Emits
  <2>8. ASSUME NEW k \in DOMAIN stack', Leaving(stack'[k], s)
        PROVE  \E m \in DOMAIN stack :
                 /\ m > 1 /\ k = m + Len(P) - 1 /\ stack'[k] = stack[m]
                 /\ Leaving(stack[m], s)
    BY <2>6, <2>8 DEF Apart, Leaving, Lifecycle
  <2>9. OneLeaves(s)'
    <3>1. ASSUME NEW k \in DOMAIN stack', NEW l \in DOMAIN stack',
                 Leaving(stack'[k], s), Leaving(stack'[l], s)
          PROVE  k = l
      BY <2>4, <2>8, <3>1 DEF OneLeaves
    <3>2. ASSUME NEW k \in DOMAIN stack', NEW l \in DOMAIN io,
                 Leaving(stack'[k], s), Closing(io[l], s)
          PROVE  FALSE
      BY <2>4, <2>8, <3>2 DEF OneLeaves
    <3> QED BY <2>4, <3>1, <3>2 DEF OneLeaves, Leaving, Closing, Emits
  <2>10. Life(s)' /\ LifecycleOrder'
    <3>0. /\ Came(s, "end") => s \in Readers /\ rs'[s].endEmitted
          /\ Came(s, "finish") => s \in Writers /\ ws'[s].finished
      BY <2>0, <2>4 DEF Life
    <3>1. CASE ev = "close"
      <4>1. Leaving(stack[1], s)
        BY <2>4, <3>1 DEF Leaving
      <4>2. Destroyed(s) /\ ~Came(s, "close")
        BY <1>3, <2>4, <4>1 DEF Life, Alive, Gone
      <4>3. Gone(s)'
        <5>1. \A k \in DOMAIN stack' : ~Leaving(stack'[k], s)
          BY <1>3, <2>4, <2>8, <4>1 DEF OneLeaves
        <5>2. \A k \in DOMAIN io : ~Closing(io[k], s)
          BY <1>3, <2>4, <4>1 DEF OneLeaves
        <5> QED BY <5>1, <5>2 DEF Gone, Leaving, Closing, Emits
      <4>4. Failed(s)'
        BY <2>7, <4>3 DEF Gone, Failed, Leaving, Emits
      <4>5. LifecycleOrder'
        BY <2>1, <3>1, <4>2
      <4>6. Came(s, "end")' => Came(s, "end")
        BY <2>1, <3>1
      <4>7. Came(s, "finish")' => Came(s, "finish")
        BY <2>1, <3>1
      <4>8. Life(s)'
        BY <2>5, <2>7, <2>9, <3>0, <4>2, <4>3, <4>4, <4>6, <4>7 DEF Life, Emits
      <4> QED BY <4>5, <4>8
    <3>2. CASE ev = "error"
      <4>1. Emits(stack[1], s, "error") /\ 2 \in DOMAIN stack /\ Emits(stack[2], s, "close")
        BY <1>3, <2>4, <3>2 DEF Life
      <4>2. Leaving(stack[2], s)
        BY <4>1 DEF Leaving
      <4>3. Destroyed(s) /\ ~Came(s, "close") /\ ~Came(s, "error")
        BY <1>3, <2>4, <4>1, <4>2 DEF Life, Alive, Gone, Failed
      <4>4. Failed(s)'
        <5>1. \A k \in DOMAIN stack' : ~Closing(stack'[k], s)
          <6>1. SUFFICES ASSUME NEW k \in DOMAIN stack', Closing(stack'[k], s) PROVE FALSE
            OBVIOUS
          <6>2. PICK m \in DOMAIN stack : stack'[k] = stack[m] /\ Leaving(stack[m], s)
            BY <2>8, <6>1 DEF Leaving
          <6>3. m = 2
            BY <2>4, <4>1, <4>2, <6>2 DEF OneLeaves
          <6> QED BY <4>1, <6>1, <6>2, <6>3 DEF Closing, Emits
        <5>2. \A k \in DOMAIN io : ~Closing(io[k], s)
          BY <2>4, <4>1, <4>2 DEF OneLeaves
        <5> QED BY <2>7, <5>1, <5>2 DEF Failed, Closing, Emits
      <4>5. LifecycleOrder'
        BY <2>1, <3>2, <4>3
      <4>6. /\ ~Came(s, "close")'
            /\ Came(s, "end")' => Came(s, "end")
            /\ Came(s, "finish")' => Came(s, "finish")
        BY <2>1, <3>2, <4>3
      <4>7. Life(s)'
        BY <2>5, <2>7, <2>9, <3>0, <4>3, <4>4, <4>6 DEF Life, Emits
      <4> QED BY <4>5, <4>7
    <3>3. CASE ev = "end" \/ ev = "finish"
      <4>1. /\ ~Came(s, ev) /\ ~Destroyed(s)
            /\ ev = "end" => s \in Readers /\ rs[s].endEmitted
            /\ ev = "finish" => s \in Writers /\ ws[s].finished
        BY <1>3, <2>4, <3>3 DEF Life
      <4>2. Alive(s)
        BY <2>4, <4>1 DEF Life
      <4>3. ~Came(s, "error") /\ ~Came(s, "close")
        BY <4>2 DEF Alive
      <4>4. ~Came(s, "error")' /\ ~Came(s, "close")'
        BY <2>1, <3>3, <4>3
      <4>5. LifecycleOrder'
        BY <2>1, <4>1, <4>3
      <4>6. /\ Came(s, "end")' => s \in Readers /\ rs'[s].endEmitted
            /\ Came(s, "finish")' => s \in Writers /\ ws'[s].finished
        BY <2>0, <2>1, <3>0, <4>1
      <4>7. Alive(s)'
        <5>1. \A k \in DOMAIN stack' : ~Leaving(stack'[k], s)
          BY <2>8, <4>2 DEF Alive
        <5> QED BY <2>7, <4>2, <4>4, <5>1 DEF Alive, Leaving, Closing, Emits
      <4>8. Life(s)'
        BY <2>7, <2>9, <4>4, <4>6, <4>7 DEF Life, Emits
      <4> QED BY <4>5, <4>8
    <3> QED BY <1>11, <3>1, <3>2, <3>3 DEF Lifecycle
  <2>11. \A k \in 1..Len(P) : Known(P[k]) /\ Plain(P[k])
    BY <1>6 DEF AllPlain, Plain
  <2>12. \A k \in 1..Len(P) :
           ~(P[k].fn = "emit" /\ P[k].ev \in Lifecycle \ {"close"})
    BY <2>11 DEF Plain
  <2> QED BY <1>1, <1>3, <1>8, <1>9, <2>2, <2>3, <2>10, <2>11, <2>12, VitalStep
<1> QED BY <1>10, <1>11

\* 'end' or 'finish' is about to be emitted.
LEMMA Announced ==
  ASSUME Inv, NEW s \in Streams, NEW ev \in {"end", "finish"},
         Shifted(<<Emit(s, ev), Call("autoDestroy", s)>>, 1),
         1 \in DOMAIN stack, stack[1].s = s, stack[1].fn # "emit",
         ~Destroyed(s), ~Destroyed(s)', ~Came(s, ev),
         RsKept, WsKept, Listening', AllPlain(ticks)', io' = io, emitted' = emitted,
         ev = "end" => s \in Readers /\ rs'[s].endEmitted,
         ev = "finish" => s \in Writers /\ ws'[s].finished
  PROVE  Inv'
<1>0. PICK P : P = <<Emit(s, ev), Call("autoDestroy", s)>>
  OBVIOUS
<1>1. /\ Shifted(P, 1) /\ Len(P) = 2 /\ P[1] = Emit(s, ev) /\ P[2] = Call("autoDestroy", s)
  BY <1>0
<1>2. /\ P[1].fn = "emit" /\ P[1].s = s /\ P[1].ev = ev
      /\ P[2].fn = "autoDestroy" /\ P[2].s = s
  BY <1>1 DEF Emit, Call
<1>3. \A k \in 1..Len(P) : k = 1 \/ k = 2
  BY <1>1
<1>4. \A k \in 1..Len(P) : Known(P[k]) /\ P[k].s = s
  BY <1>2, <1>3 DEF Known, Events, ReaderCalls, WriterCalls
<1>5. \A k \in 1..Len(P) : P[k].fn = "emit" /\ P[k].ev \in Lifecycle \ {"close"} => k = 1
  BY <1>2, <1>3
<1>6. States'
  BY DEF Inv, States, RsKept, WsKept
<1>7. \A x \in Streams : Unmoved(x) /\ IoKept(x)
  BY IoUnchanged DEF Unmoved, Destroyed, RsKept, WsKept
<1>8. Owed' /\ LifecycleOrder'
  BY DEF Inv, Calls, Owed, LifecycleOrder
<1>9. Life(s)'
  <2>1. Life(s) /\ Alive(s)
    BY DEF Inv, Life
  <2>2. ASSUME NEW k \in DOMAIN stack', ~Apart(stack'[k], s)
        PROVE  Emits(stack'[k], s, ev)
    <3>1. CASE k \in 1..Len(P) /\ stack'[k] = P[k]
      BY <1>2, <1>3, <2>2, <3>1 DEF Apart, Closing, Emits
    <3>2. ASSUME NEW m \in DOMAIN stack, m > 1, stack'[k] = stack[m]
          PROVE  FALSE
      <4>1. ~(stack[m].fn = "emit" /\ stack[m].ev \in Lifecycle \ {"close"})
        BY <3>2 DEF Inv, AtOnce
      <4>2. ~Leaving(stack[m], s)
        BY <2>1 DEF Alive
      <4> QED BY <2>2, <3>2, <4>1, <4>2 DEF Apart, Leaving, Emits
    <3> QED BY <1>1, <3>1, <3>2, Origin
  <2>3. ASSUME NEW k \in DOMAIN stack'
        PROVE  /\ ~Leaving(stack'[k], s) /\ ~Emits(stack'[k], s, "error")
               /\ Emits(stack'[k], s, "end") => ev = "end"
               /\ Emits(stack'[k], s, "finish") => ev = "finish"
    BY <2>2 DEF Apart, Leaving, Closing, Emits, Lifecycle
  <2>4. \A e : Came(s, e)' <=> Came(s, e)
    BY DEF Came
  <2>5. Alive(s)'
    BY <2>1, <2>3, <2>4 DEF Alive, Leaving, Closing, Emits
  <2>6. OneLeaves(s)'
    BY <2>1, <2>3 DEF Life, OneLeaves, Leaving, Closing, Emits
  <2>7. ~Came(s, "error")' /\ ~Came(s, "close")'
    BY <2>5 DEF Alive
  <2>8. /\ Came(s, "end")' => s \in Readers /\ rs'[s].endEmitted
        /\ Came(s, "finish")' => s \in Writers /\ ws'[s].finished
    BY <1>7, <2>1, <2>4 DEF Life, Unmoved
  <2>9. \A k \in DOMAIN stack' :
         /\ Emits(stack'[k], s, "end") =>
              s \in Readers /\ rs'[s].endEmitted /\ ~Came(s, "end")' /\ ~Destroyed(s)'
         /\ Emits(stack'[k], s, "finish") =>
              s \in Writers /\ ws'[s].finished /\ ~Came(s, "finish")' /\ ~Destroyed(s)'
         /\ ~Emits(stack'[k], s, "error")
    BY <2>3, <2>4
  <2> QED BY <2>5, <2>6, <2>7, <2>8, <2>9 DEF Life, Emits
<1> QED BY <1>1, <1>4, <1>5, <1>6, <1>7, <1>8, <1>9, VitalStep

LEMMA EmitEndStep ==
  ASSUME Inv, EmitEnd, io' = io
  PROVE  Inv'
<1>0. Running("emitEnd") /\ "emitEnd" \notin Vital
  BY DEF EmitEnd, Vital
<1>1. PICK s : s = top.s
  OBVIOUS
<1>2. /\ s \in Readers /\ s \in Streams /\ IsSeq(stack) /\ stack # <<>>
      /\ 1 \in DOMAIN stack /\ stack[1].fn = "emitEnd" /\ stack[1].s = s
  BY <1>0, <1>1, Top DEF Known, ReaderCalls
<1>3. PICK due : due = (~rs[s].endEmitted /\ ~rs[s].destroyed)
  OBVIOUS
<1>4. /\ rs' = [rs EXCEPT ![s].endEmitted = @ \/ due]
      /\ Continue(Then(due, <<Emit(s, "end"), Call("autoDestroy", s)>>))
  BY <1>1, <1>3, Zenon DEF EmitEnd
<1>5. PICK q : q = (rs[s].endEmitted \/ due)
  OBVIOUS
<1>6. rs' = [rs EXCEPT ![s].endEmitted = q]
  BY <1>4, <1>5, Zenon
<1>7. /\ DOMAIN rs' = Readers
      /\ \A x \in Readers : {"destroyed", "endEmitted"} \subseteq DOMAIN rs'[x]
      /\ \A x \in Readers : rs'[x].destroyed = rs[x].destroyed
      /\ \A x \in Readers \ {s} : rs'[x] = rs[x]
      /\ rs'[s].endEmitted = q
  BY <1>2, <1>6 DEF Inv, States
<1>8. RsKept
  BY <1>5, <1>7 DEF RsKept
<1>9. /\ WsKept /\ Listening' /\ AllPlain(ticks)' /\ emitted' = emitted
      /\ UNCHANGED <<ws, listeners, ticks, io, emitted>>
  BY NothingWritten, Unheard DEF EmitEnd
<1>10. CASE ~due
  BY <1>0, <1>4, <1>8, <1>9, <1>10, PlainLists, ReaderRun DEF Then
<1>11. CASE due
  <2>1. ~Destroyed(s) /\ ~rs[s].endEmitted
    BY <1>2, <1>3, <1>11 DEF Inv, States, Destroyed
  <2>2. ~Destroyed(s)'
    BY <1>2, <1>7, <1>9, <2>1 DEF Destroyed
  <2>3. ~Came(s, "end")
    BY <1>2, <2>1 DEF Inv, Life
  <2>4. Continue(<<Emit(s, "end"), Call("autoDestroy", s)>>)
    BY <1>4, <1>11 DEF Then
  <2>5. Shifted(<<Emit(s, "end"), Call("autoDestroy", s)>>, 1)
    BY <1>2, <2>4, Replaced, Short
  <2>6. rs'[s].endEmitted
    BY <1>5, <1>7, <1>11
  <2> QED BY <1>2, <1>8, <1>9, <2>1, <2>2, <2>3, <2>5, <2>6, Announced
<1> QED BY <1>3, <1>10, <1>11

LEMMA FinishStep ==
  ASSUME Inv, Finish, io' = io
  PROVE  Inv'
<1>0. Running("finish") /\ "finish" \notin Vital
  BY DEF Finish, Vital
<1>1. PICK s : s = top.s
  OBVIOUS
<1>2. /\ s \in Writers /\ s \in Streams /\ IsSeq(stack) /\ stack # <<>>
      /\ 1 \in DOMAIN stack /\ stack[1].fn = "finish" /\ stack[1].s = s
  BY <1>0, <1>1, Top DEF Known, WriterCalls
<1>3. PICK due : due = (~ws[s].finished /\ ~ws[s].destroyed)
  OBVIOUS
<1>4. /\ ws' = [ws EXCEPT ![s].finished = @ \/ due]
      /\ Continue(Then(due, <<Emit(s, "finish"), Call("autoDestroy", s)>>))
  BY <1>1, <1>3, Zenon DEF Finish
<1>5. PICK q : q = (ws[s].finished \/ due)
  OBVIOUS
<1>6. ws' = [ws EXCEPT ![s].finished = q]
  BY <1>4, <1>5, Zenon
<1>7. /\ DOMAIN ws' = Writers
      /\ \A x \in Writers : {"destroyed", "finished"} \subseteq DOMAIN ws'[x]
      /\ \A x \in Writers : ws'[x].destroyed = ws[x].destroyed
      /\ \A x \in Writers \ {s} : ws'[x] = ws[x]
      /\ ws'[s].finished = q
  BY <1>2, <1>6 DEF Inv, States
<1>8. WsKept
  BY <1>5, <1>7 DEF WsKept
<1>9. /\ RsKept /\ Listening' /\ AllPlain(ticks)' /\ emitted' = emitted
      /\ UNCHANGED <<rs, listeners, ticks, io, emitted>>
  BY NothingWritten, Unheard DEF Finish
<1>10. CASE ~due
  BY <1>0, <1>4, <1>8, <1>9, <1>10, PlainLists, WriterRun DEF Then
<1>11. CASE due
  <2>1. ~Destroyed(s) /\ ~ws[s].finished
    BY <1>2, <1>3, <1>11 DEF Inv, States, Destroyed
  <2>2. ~Destroyed(s)'
    BY <1>2, <1>7, <1>9, <2>1 DEF Destroyed
  <2>3. ~Came(s, "finish")
    BY <1>2, <2>1 DEF Inv, Life
  <2>4. Continue(<<Emit(s, "finish"), Call("autoDestroy", s)>>)
    BY <1>4, <1>11 DEF Then
  <2>5. Shifted(<<Emit(s, "finish"), Call("autoDestroy", s)>>, 1)
    BY <1>2, <2>4, Replaced, Short
  <2>6. ws'[s].finished
    BY <1>5, <1>7, <1>11
  <2> QED BY <1>2, <1>8, <1>9, <2>1, <2>2, <2>3, <2>5, <2>6, Announced
<1> QED BY <1>3, <1>10, <1>11

\* destroy() of a live stream leaves one call that closes it.
LEMMA DestroyStepKeeps ==
  ASSUME Inv, Destroy, io' = io
  PROVE  Inv'
<1>0. Running("destroy") /\ "destroy" \notin Vital
  BY DEF Destroy, Vital
<1>1. PICK s : s = top.s
  OBVIOUS
<1>2. /\ s \in Streams /\ IsSeq(stack) /\ stack # <<>>
      /\ 1 \in DOMAIN stack /\ stack[1].fn = "destroy" /\ stack[1].s = s
  BY <1>0, <1>1, Top
<1>3. /\ Listening' /\ AllPlain(ticks)' /\ Owed' /\ emitted' = emitted
      /\ UNCHANGED <<listeners, ticks, io, emitted>>
  BY Unheard DEF Destroy, Inv, Calls, Owed
<1>4. CASE Destroyed(s)
  <2>1. rs' = rs /\ ws' = ws /\ Continue(<<>>)
    BY <1>1, <1>4 DEF Destroy
  <2> QED BY <1>0, <1>3, <2>1, PlainLists, OutsideRun
<1>5. CASE ~Destroyed(s)
  <2>1. PICK err : err = top.err
    OBVIOUS
  <2>2. /\ rs' = [x \in Readers |->
             IF x = s THEN [rs[x] EXCEPT !.destroyed = TRUE, !.ended = TRUE,
                                         !.errored = @ \/ err]
             ELSE rs[x]]
        /\ ws' = [x \in Writers |->
             IF x = s THEN [ws[x] EXCEPT !.destroyed = TRUE, !.ended = TRUE,
                                         !.errored = @ \/ err]
             ELSE ws[x]]
    BY <1>1, <1>5, <2>1, Zenon DEF Destroy
  <2>3. /\ DOMAIN rs' = Readers
        /\ \A x \in Readers : {"destroyed", "endEmitted"} \subseteq DOMAIN rs'[x]
        /\ \A x \in Readers \ {s} : rs'[x] = rs[x]
        /\ s \in Readers => rs'[s].destroyed = TRUE /\ rs'[s].endEmitted = rs[s].endEmitted
    <3>1. PICK a : a = (rs[s].errored \/ err)
      OBVIOUS
    <3>2. rs' = [x \in Readers |->
             IF x = s THEN [rs[x] EXCEPT !.destroyed = TRUE, !.ended = TRUE, !.errored = a]
             ELSE rs[x]]
      BY <2>2, <3>1, Zenon
    <3> QED BY <3>2 DEF Inv, States
  <2>4. /\ DOMAIN ws' = Writers
        /\ \A x \in Writers : {"destroyed", "finished"} \subseteq DOMAIN ws'[x]
        /\ \A x \in Writers \ {s} : ws'[x] = ws[x]
        /\ s \in Writers => ws'[s].destroyed = TRUE /\ ws'[s].finished = ws[s].finished
    <3>1. PICK a : a = (ws[s].errored \/ err)
      OBVIOUS
    <3>2. ws' = [x \in Writers |->
             IF x = s THEN [ws[x] EXCEPT !.destroyed = TRUE, !.ended = TRUE, !.errored = a]
             ELSE ws[x]]
      BY <2>2, <3>1, Zenon
    <3> QED BY <3>2 DEF Inv, States
  <2>5. States'
    BY <1>3, <2>3, <2>4 DEF Inv, States
  <2>6. Destroyed(s)'
    BY <1>2, <2>3, <2>4 DEF Destroyed, Streams
  <2>7. \A x \in Streams : Unmoved(x) /\ IoKept(x)
    <3>1. \A x \in Streams \ {s} : Unmoved(x)
      BY <1>3, <2>3, <2>4 DEF Unmoved, Destroyed
    <3>2. Unmoved(s)
      BY <1>3, <2>3, <2>4, <2>6 DEF Unmoved
    <3> QED BY <1>3, <3>1, <3>2, IoUnchanged
  <2>8. PICK Q : Q = Then(s \in Writers, FailWrites(s, ws[s].pending)
                            \o FailWrites(s, ws[s].corkedBuffer)
                            \o <<Call("dropWrites", s)>>)
    OBVIOUS
  <2>9. PICK c : c = CallE(IF s \in CustomDestroy THEN "_destroy" ELSE "closed", s, err)
    OBVIOUS
  <2>10. Continue(Q \o <<c>>)
    BY <1>1, <1>5, <2>1, <2>8, <2>9, Zenon DEF Destroy
  <2>11. AllPlain(Q)
    <3>1. CASE s \in Writers
      <4>1. AllPlain(<<Call("dropWrites", s)>>)
        BY <1>2, <3>1, PlainCalls, PlainLists DEF Vital, ReaderCalls
      <4>2. AllPlain(FailWrites(s, ws[s].pending) \o FailWrites(s, ws[s].corkedBuffer))
        BY <1>2, PlainFailures, PlainJoined
      <4>3. AllPlain(FailWrites(s, ws[s].pending) \o FailWrites(s, ws[s].corkedBuffer)
                       \o <<Call("dropWrites", s)>>)
        BY <4>1, <4>2, PlainJoined
      <4> QED BY <2>8, <4>3, PlainLists
    <3>2. CASE s \notin Writers
      BY <2>8, <3>2, PlainLists DEF Then
    <3> QED BY <3>1, <3>2
  <2>12. Closing(c, s) /\ Known(c)
    <3>1. c.fn \in {"_destroy", "closed"} /\ c.s = s
      BY <2>9 DEF CallE
    <3> QED BY <1>2, <3>1 DEF Closing, Known, ReaderCalls, WriterCalls
  <2>13. PICK P : P = Q \o <<c>>
    OBVIOUS
  <2>14. PICK n \in Nat : n = Len(Q)
    BY <2>11, Indexed DEF AllPlain
  <2>15. IsSeq(P) /\ Len(P) = n + 1 /\ P[n + 1] = c /\ \A k \in 1..n : P[k] = Q[k] /\ Plain(P[k])
    <3>1. IsSeq(Q) /\ IsSeq(<<c>>) /\ Len(<<c>>) = 1 /\ <<c>>[1] = c
      BY <2>11, Short DEF AllPlain
    <3>2. /\ IsSeq(P) /\ Len(P) = n + 1 /\ \A k \in 1..n : P[k] = Q[k]
          /\ \A k \in 1..1 : P[k + n] = <<c>>[k]
      BY <2>13, <2>14, <3>1, Joined
    <3>3. P[n + 1] = c
      <4>1. P[1 + n] = c
        BY <3>1, <3>2
      <4>2. 1 + n = n + 1
        OBVIOUS
      <4> QED BY <4>1, <4>2
    <3> QED BY <2>11, <2>14, <3>2, <3>3 DEF AllPlain
  <2>16. Shifted(P, 1)
    BY <1>2, <2>10, <2>13, <2>15, Replaced
  <2>17. \A k \in 1..Len(P) : k \in 1..n \/ k = n + 1
    BY <2>14, <2>15
  <2>18. Life(s)'
    <3>1. Life(s) /\ Alive(s)
      BY <1>2, <1>5 DEF Inv, Life
    <3>2. ASSUME NEW k \in DOMAIN stack', ~Apart(stack'[k], s)
          PROVE  k = n + 1 /\ Closing(stack'[k], s)
      <4>1. CASE k \in 1..Len(P) /\ stack'[k] = P[k]
        BY <2>12, <2>15, <2>17, <3>2, <4>1, PlainIsApart
      <4>2. ASSUME NEW m \in DOMAIN stack, m > 1, stack'[k] = stack[m]
            PROVE  FALSE
        <5>1. ~(stack[m].fn = "emit" /\ stack[m].ev \in Lifecycle \ {"close"})
          BY <4>2 DEF Inv, AtOnce
        <5>2. ~Leaving(stack[m], s)
          BY <3>1 DEF Alive
        <5> QED BY <3>2, <4>2, <5>1, <5>2 DEF Apart, Leaving, Emits
      <4> QED BY <2>16, <4>1, <4>2, Origin
    <3>3. ASSUME NEW k \in DOMAIN stack'
          PROVE  /\ Leaving(stack'[k], s) => k = n + 1
                 /\ ~Emits(stack'[k], s, "end") /\ ~Emits(stack'[k], s, "finish")
                 /\ ~Emits(stack'[k], s, "error")
      BY <3>2 DEF Apart, Leaving, Closing, Emits, Lifecycle
    <3>4. \A e : Came(s, e)' <=> Came(s, e)
      BY <1>3 DEF Came
    <3>5. OneLeaves(s)'
      <4>1. \A k \in DOMAIN io : ~Closing(io[k], s)
        BY <3>1 DEF Alive
      <4> QED BY <1>3, <3>3, <4>1 DEF OneLeaves, Leaving, Closing, Emits
    <3>6. ~Came(s, "error")' /\ ~Came(s, "close")'
      BY <3>1, <3>4 DEF Alive
    <3>7. /\ Came(s, "end")' => s \in Readers /\ rs'[s].endEmitted
          /\ Came(s, "finish")' => s \in Writers /\ ws'[s].finished
      BY <1>2, <2>7, <3>1, <3>4 DEF Life, Unmoved
    <3> QED BY <2>6, <3>3, <3>5, <3>6, <3>7 DEF Life, Emits
  <2>19. \A k \in 1..Len(P) : Known(P[k]) /\ (Plain(P[k]) \/ P[k].s = s)
    BY <2>12, <2>15, <2>17 DEF Plain, Closing
  <2>20. \A k \in 1..Len(P) :
           ~(P[k].fn = "emit" /\ P[k].ev \in Lifecycle \ {"close"})
    BY <2>12, <2>15, <2>17 DEF Plain, Closing
  <2>21. LifecycleOrder'
    BY <1>3 DEF Inv, LifecycleOrder
  <2> QED BY <1>2, <1>3, <2>5, <2>7, <2>16, <2>18, <2>19, <2>20, <2>21, VitalStep
<1> QED BY <1>4, <1>5

\* The call that closes stream t goes on: from the stack to the subclass, back
\* from it, or to the events 'error' and 'close'.
LEMMA LifeMoved ==
  ASSUME Inv, NEW t \in Streams, NEW P, NEW d, Shifted(P, d),
         \/ \E k \in DOMAIN stack : Closing(stack[k], t)
         \/ \E k \in DOMAIN io : Closing(io[k], t),
         1 \in DOMAIN stack => d = 1 /\ stack[1].fn # "emit",
         Unmoved(t), OneLeaves(t)',
         \A k \in 1..Len(P) : /\ ~Emits(P[k], t, "end") /\ ~Emits(P[k], t, "finish")
                              /\ Emits(P[k], t, "error") =>
                                   2 \in 1..Len(P) /\ Emits(P[2], t, "close")
  PROVE  Life(t)'
<1>0. Life(t)
  BY DEF Inv
<1>1. Destroyed(t) /\ ~Came(t, "close") /\ ~Came(t, "error")
  BY <1>0 DEF Life, Alive, Gone, Failed, Leaving
<1>2. \A e : Came(t, e)' <=> Came(t, e)
  BY DEF Came, Unmoved
<1>3. /\ Destroyed(t)' /\ ~Came(t, "close")' /\ ~Came(t, "error")'
      /\ Came(t, "end")' => t \in Readers /\ rs'[t].endEmitted
      /\ Came(t, "finish")' => t \in Writers /\ ws'[t].finished
  BY <1>0, <1>1, <1>2 DEF Life, Unmoved
<1>4. /\ Len(P) \in Nat /\ Len(stack') \in Nat /\ DOMAIN stack' = 1..Len(stack')
      /\ Len(stack) \in Nat /\ DOMAIN stack = 1..Len(stack)
      /\ d \in 0..1 /\ d <= Len(stack) /\ Len(stack') = Len(P) + Len(stack) - d
      /\ \A k \in 1..Len(P) : stack'[k] = P[k]
  BY Indexed DEF Shifted
<1>5. 1..Len(P) \subseteq DOMAIN stack'
  BY <1>4
<1>6. ASSUME NEW k \in DOMAIN stack'
      PROVE  /\ ~Emits(stack'[k], t, "end") /\ ~Emits(stack'[k], t, "finish")
             /\ Emits(stack'[k], t, "error") =>
                  2 \in DOMAIN stack' /\ Emits(stack'[2], t, "close")
  <2>1. CASE k \in 1..Len(P) /\ stack'[k] = P[k]
    BY <1>4, <1>5, <2>1
  <2>2. ASSUME NEW m \in DOMAIN stack, m > d, stack'[k] = stack[m]
        PROVE  /\ ~Emits(stack'[k], t, "end") /\ ~Emits(stack'[k], t, "finish")
               /\ ~Emits(stack'[k], t, "error")
    <3>1. 1 \in DOMAIN stack
      BY <1>4
    <3>2. m # 1
      BY <2>2, <3>1
    <3>3. ~(stack[m].fn = "emit" /\ stack[m].ev \in Lifecycle \ {"close"})
      BY <3>2 DEF Inv, AtOnce
    <3> QED BY <2>2, <3>3 DEF Emits, Lifecycle
  <2> QED BY <2>1, <2>2, Origin
<1> QED BY <1>3, <1>6 DEF Life, Emits

\* A step that leaves only one call to close stream t, on the stack.
LEMMA OneOnStack ==
  ASSUME NEW t \in Streams, NEW P, NEW d, Shifted(P, d),
         \A k \in DOMAIN stack : k > d => ~Leaving(stack[k], t),
         \A k \in DOMAIN io' : ~Closing(io'[k], t),
         \A k, l \in 1..Len(P) : Leaving(P[k], t) /\ Leaving(P[l], t) => k = l
  PROVE  OneLeaves(t)'
<1>1. ASSUME NEW k \in DOMAIN stack', Leaving(stack'[k], t)
      PROVE  k \in 1..Len(P) /\ Leaving(P[k], t)
  BY <1>1, Origin
<1>2. \A k, l \in DOMAIN stack' : Leaving(stack'[k], t) /\ Leaving(stack'[l], t) => k = l
  BY <1>1
<1> QED BY <1>2 DEF OneLeaves, Leaving, Closing, Emits

LEMMA ClosedStep ==
  ASSUME Inv, Closed, io' = io
  PROVE  Inv'
<1>0. Running("closed")
  BY DEF Closed
<1>1. PICK s : s = top.s
  OBVIOUS
<1>2. /\ s \in Streams /\ IsSeq(stack) /\ stack # <<>>
      /\ 1 \in DOMAIN stack /\ stack[1].fn = "closed" /\ stack[1].s = s
  BY <1>0, <1>1, Top
<1>3. /\ Listening' /\ AllPlain(ticks)' /\ Owed' /\ emitted' = emitted
      /\ UNCHANGED <<listeners, ticks, io, emitted>>
  BY Unheard DEF Closed, Inv, Calls, Owed
<1>4. PICK err : err = top.err
  OBVIOUS
<1>5. /\ rs' = [x \in Readers |-> IF x = s
                  THEN [rs[x] EXCEPT !.errored = @ \/ err] ELSE rs[x]]
      /\ ws' = [x \in Writers |-> IF x = s
                  THEN [ws[x] EXCEPT !.errored = @ \/ err] ELSE ws[x]]
      /\ Continue(Then(err, <<[Emit(s, "error") EXCEPT !.err = TRUE]>>)
                    \o <<Emit(s, "close")>>)
  BY <1>1, <1>4, Zenon DEF Closed
<1>6. RsKept
  <2>1. PICK a : a = (rs[s].errored \/ err)
    OBVIOUS
  <2>2. rs' = [x \in Readers |-> IF x = s THEN [rs[x] EXCEPT !.errored = a] ELSE rs[x]]
    BY <1>5, <2>1, Zenon
  <2> QED BY <2>2 DEF Inv, States, RsKept
<1>7. WsKept
  <2>1. PICK a : a = (ws[s].errored \/ err)
    OBVIOUS
  <2>2. ws' = [x \in Writers |-> IF x = s THEN [ws[x] EXCEPT !.errored = a] ELSE ws[x]]
    BY <1>5, <2>1, Zenon
  <2> QED BY <2>2 DEF Inv, States, WsKept
<1>8. States' /\ LifecycleOrder'
  BY <1>3, <1>6, <1>7 DEF Inv, States, RsKept, WsKept, LifecycleOrder
<1>9. \A x \in Streams : Unmoved(x) /\ IoKept(x)
  BY <1>3, <1>6, <1>7, IoUnchanged DEF Unmoved, Destroyed, RsKept, WsKept
<1>10. PICK a : a = [Emit(s, "error") EXCEPT !.err = TRUE]
  OBVIOUS
<1>11. PICK c : c = Emit(s, "close")
  OBVIOUS
<1>12. /\ a.fn = "emit" /\ a.s = s /\ a.ev = "error"
       /\ c.fn = "emit" /\ c.s = s /\ c.ev = "close"
  BY <1>10, <1>11 DEF Emit
<1>13. Continue(<<a, c>>) \/ Continue(<<c>>)
  <2>1. Continue(Then(err, <<a>>) \o <<c>>)
    BY <1>5, <1>10, <1>11, Zenon
  <2>2. <<a>> \o <<c>> = <<a, c>> /\ <<>> \o <<c>> = <<c>>
    <3>1. <<a>> \in Seq({a, c}) /\ <<c>> \in Seq({a, c}) /\ <<a, c>> \in Seq({a, c})
      OBVIOUS
    <3>2. PICK q : q = <<a>> \o <<c>>
      OBVIOUS
    <3>3. q \in Seq({a, c})
      BY <3>1, <3>2
    <3>4. Len(q) = 2 /\ q[1] = a /\ q[2] = c
      BY <3>2
    <3>5. Len(<<a, c>>) = 2 /\ \A k \in 1..2 : q[k] = <<a, c>>[k]
      BY <3>4
    <3>6. q = <<a, c>>
      BY <3>1, <3>3, <3>4, <3>5, SeqEqual
    <3>7. <<>> \o <<c>> = <<c>>
      BY <3>1, ConcatEmptySeq
    <3> QED BY <3>2, <3>6, <3>7
  <2> QED BY <2>1, <2>2, Zenon DEF Then
<1>14. PICK P : Continue(P) /\ (P = <<a, c>> \/ P = <<c>>)
  BY <1>13
<1>15. Shifted(P, 1) /\ Len(P) \in 1..2
  BY <1>2, <1>14, Replaced, Short
<1>16. /\ P = <<a, c>> => Len(P) = 2 /\ P[1] = a /\ P[2] = c
       /\ P = <<c>> => Len(P) = 1 /\ P[1] = c
  OBVIOUS
<1>17. \A k \in 1..Len(P) : k = 1 \/ (k = 2 /\ P = <<a, c>>)
  <2>1. CASE P = <<a, c>>
    BY <1>16, <2>1
  <2>2. CASE P = <<c>>
    <3>1. Len(P) = 1
      BY <1>16, <2>2
    <3> QED BY <3>1
  <2> QED BY <1>14, <2>1, <2>2
<1>18. \A k \in 1..Len(P) : Known(P[k]) /\ P[k].s = s
  BY <1>2, <1>12, <1>14, <1>16, <1>17 DEF Known, Events, ReaderCalls, WriterCalls
<1>19. \A k \in 1..Len(P) : P[k].fn = "emit" /\ P[k].ev \in Lifecycle \ {"close"} => k = 1
  BY <1>12, <1>14, <1>16, <1>17
<1>20. Life(s)'
  <2>1. Closing(stack[1], s) /\ Leaving(stack[1], s) /\ OneLeaves(s)
    BY <1>2 DEF Closing, Leaving, Inv, Life
  <2>2. \A k \in DOMAIN stack : k > 1 => ~Leaving(stack[k], s)
    BY <1>2, <2>1 DEF OneLeaves
  <2>3. \A k \in DOMAIN io' : ~Closing(io'[k], s)
    BY <1>2, <1>3, <2>1 DEF OneLeaves
  <2>4. \A k, l \in 1..Len(P) : Leaving(P[k], s) /\ Leaving(P[l], s) => k = l
    BY <1>12, <1>14, <1>16, <1>17 DEF Leaving, Closing, Emits
  <2>5. OneLeaves(s)'
    BY <1>2, <1>15, <2>2, <2>3, <2>4, OneOnStack
  <2>6. \A k \in 1..Len(P) :
          /\ ~Emits(P[k], s, "end") /\ ~Emits(P[k], s, "finish")
          /\ Emits(P[k], s, "error") => 2 \in 1..Len(P) /\ Emits(P[2], s, "close")
    BY <1>12, <1>14, <1>16, <1>17 DEF Emits
  <2> QED BY <1>2, <1>9, <1>15, <2>1, <2>5, <2>6, LifeMoved
<1> QED BY <1>2, <1>3, <1>8, <1>9, <1>15, <1>18, <1>19, <1>20, VitalStep

LEMMA PlainAnswer ==
  ASSUME NEW x, x.fn \in Hooks, NEW err
  PROVE  /\ x.fn # "_destroy" => AllPlain(Answer(x, err))
         /\ x.fn = "_destroy" => Answer(x, err) = <<CallE("closed", x.s, x.err \/ err)>>
<1>1. /\ \A e : Plain(CallE("destroy", r, e)) /\ Plain(CallE("onwrite", w, e))
      /\ \A e : Plain(CallE("finalDone", w, e)) /\ \A c : Plain(CallC("push", r, c))
  BY OneStream, PlainCalls DEF Vital, ReaderCalls, WriterCalls
<1>2. /\ \A e : AllPlain(<<CallE("destroy", r, e)>>) /\ AllPlain(<<CallE("onwrite", w, e)>>)
      /\ \A e : AllPlain(<<CallE("finalDone", w, e)>>) /\ AllPlain(NextRead)
  BY <1>1, PlainLists DEF NextRead
<1>3. AllPlain(Then(~rs[r].destroyed, NextRead))
  BY <1>2, PlainLists
<1>4. CASE x.fn = "_read"
  BY <1>2, <1>3, <1>4 DEF Answer
<1>5. CASE x.fn = "_write"
  BY <1>2, <1>5 DEF Answer
<1>6. CASE x.fn = "_final"
  BY <1>2, <1>6 DEF Answer
<1>7. CASE x.fn = "_destroy"
  BY <1>7 DEF Answer
<1> QED BY <1>4, <1>5, <1>6, <1>7 DEF Hooks

\* The subclass will answer later.
LEMMA Asked ==
  ASSUME Inv, NEW x, x.s \in Streams, x.fn \in Hooks, io' = Append(io, x)
  PROVE  /\ Owed'
         /\ \A s \in Streams : ~Closing(x, s) => IoKept(s)
         /\ \A s \in Streams : (\A k \in DOMAIN io : ~Closing(io[k], s)) =>
              \A k, l \in DOMAIN io' : Closing(io'[k], s) /\ Closing(io'[l], s) => k = l
<1>1. IsSeq(io) /\ \A k \in DOMAIN io : io[k].s \in Streams /\ io[k].fn \in Hooks
  BY DEF Inv, Calls, Owed
<1>2. PICK n \in Nat : n = Len(io) /\ DOMAIN io = 1..n
  BY <1>1, Indexed
<1>3. /\ IsSeq(io') /\ Len(io') = n + 1 /\ io'[n + 1] = x
      /\ \A k \in 1..n : io'[k] = io[k]
  BY <1>1, <1>2, AppendedTo
<1>4. DOMAIN io' = 1..(n + 1)
  BY <1>3, Indexed
<1>5. \A k \in DOMAIN io' : k \in 1..n \/ k = n + 1
  BY <1>2, <1>4
<1>6. Owed'
  BY <1>1, <1>2, <1>3, <1>5 DEF Owed
<1>7. ASSUME NEW s \in Streams, ~Closing(x, s) PROVE IoKept(s)
  <2>1. \A k \in DOMAIN io' : Closing(io'[k], s) => k \in DOMAIN io /\ Closing(io[k], s)
    BY <1>2, <1>3, <1>5, <1>7
  <2>2. \A k, l \in DOMAIN io : Closing(io[k], s) /\ Closing(io[l], s) => k = l
    BY DEF Inv, Life, OneLeaves
  <2> QED BY <2>1, <2>2 DEF IoKept
<1>8. ASSUME NEW s \in Streams, \A k \in DOMAIN io : ~Closing(io[k], s),
             NEW k \in DOMAIN io', NEW l \in DOMAIN io',
             Closing(io'[k], s), Closing(io'[l], s)
      PROVE  k = l
  BY <1>2, <1>3, <1>5, <1>8
<1> QED BY <1>6, <1>7, <1>8

\* The subclass answers what it was asked.
LEMMA AnswerTaken ==
  ASSUME Inv, NEW i \in DOMAIN io, io' = RemoveAt(io, i)
  PROVE  /\ Owed'
         /\ \A s \in Streams : IoKept(s)
         /\ \A s \in Streams : Closing(io[i], s) => \A k \in DOMAIN io' : ~Closing(io'[k], s)
<1>1. IsSeq(io) /\ \A k \in DOMAIN io : io[k].s \in Streams /\ io[k].fn \in Hooks
  BY DEF Inv, Calls, Owed
<1>2. PICK n \in Nat : n = Len(io) /\ DOMAIN io = 1..n
  BY <1>1, Indexed
<1>3. /\ IsSeq(io') /\ Len(io') = n - 1
      /\ \A k \in 1..(n - 1) : io'[k] = IF k < i THEN io[k] ELSE io[k + 1]
  BY <1>1, <1>2, Removed
<1>4. DOMAIN io' = 1..(n - 1)
  BY <1>3, Indexed
<1>5. \A k \in DOMAIN io' :
        /\ k \in Int /\ k \in DOMAIN io /\ k + 1 \in DOMAIN io
        /\ k < i => io'[k] = io[k]
        /\ ~(k < i) => io'[k] = io[k + 1]
  BY <1>2, <1>3, <1>4
<1>6. Owed'
  BY <1>1, <1>3, <1>5 DEF Owed
<1>7. ASSUME NEW s \in Streams
      PROVE  /\ IoKept(s)
             /\ Closing(io[i], s) => \A k \in DOMAIN io' : ~Closing(io'[k], s)
  <2>1. \A k, l \in DOMAIN io : Closing(io[k], s) /\ Closing(io[l], s) => k = l
    BY DEF Inv, Life, OneLeaves
  <2>2. i \in Int
    BY <1>2
  <2>3. ASSUME NEW k \in DOMAIN io', NEW l \in DOMAIN io', Closing(io'[k], s), Closing(io'[l], s)
        PROVE  k = l
    <3>1. PICK m \in DOMAIN io : m = (IF k < i THEN k ELSE k + 1) /\ io'[k] = io[m]
      BY <1>5
    <3>2. PICK o \in DOMAIN io : o = (IF l < i THEN l ELSE l + 1) /\ io'[l] = io[o]
      BY <1>5
    <3>3. m = o
      BY <2>1, <2>3, <3>1, <3>2
    <3>4. k \in Int /\ l \in Int
      BY <1>5
    <3> QED BY <2>2, <3>1, <3>2, <3>3, <3>4
  <2>4. ASSUME NEW k \in DOMAIN io', Closing(io'[k], s)
        PROVE  \E m \in DOMAIN io : m # i /\ Closing(io[m], s)
    <3>1. CASE k < i
      BY <1>5, <2>4, <3>1
    <3>2. CASE ~(k < i)
      <4>1. k + 1 \in DOMAIN io /\ io'[k] = io[k + 1] /\ k + 1 # i
        BY <1>5, <2>2, <3>2
      <4> QED BY <2>4, <4>1
    <3> QED BY <3>1, <3>2
  <2> QED BY <2>1, <2>3, <2>4 DEF IoKept
<1> QED BY <1>6, <1>7

\* The call of _destroy of stream t moves, between the stack and the subclass.
LEMMA DestroyMoved ==
  ASSUME Inv, NEW t \in Streams, NEW P, NEW d, Shifted(P, d),
         \/ \E k \in DOMAIN stack : Closing(stack[k], t)
         \/ \E k \in DOMAIN io : Closing(io[k], t),
         1 \in DOMAIN stack => d = 1 /\ stack[1].fn # "emit" /\ stack[1].s = t,
         \A k \in 1..Len(P) : Known(P[k]) /\ P[k].s = t /\ P[k].fn # "emit",
         OneLeaves(t)', Owed', \A s \in Streams \ {t} : IoKept(s),
         UNCHANGED <<rs, ws, listeners, ticks, emitted>>
  PROVE  Inv'
<1>1. \A s \in Streams : Unmoved(s)
  BY DEF Unmoved, Destroyed
<1>2. States' /\ LifecycleOrder' /\ Listening' /\ AllPlain(ticks)'
  BY Unheard DEF Inv, States, LifecycleOrder
<1>3. Life(t)'
  <2>1. \A k \in 1..Len(P) : \A ev : ~Emits(P[k], t, ev)
    BY DEF Emits
  <2> QED BY <1>1, <2>1, LifeMoved
<1> QED BY <1>1, <1>2, <1>3, VitalStep

LEMMA SubclassCalledStep ==
  ASSUME Inv, SubclassCalled
  PROVE  Inv'
<1>1. PICK f : Running(f) /\ f \in Hooks /\ f = top.fn
  BY DEF SubclassCalled, Running
<1>2. PICK t : t = top.s
  OBVIOUS
<1>3. /\ t \in Streams /\ IsSeq(stack) /\ stack # <<>> /\ 1 \in DOMAIN stack
      /\ top = stack[1] /\ stack[1].fn = f /\ stack[1].s = t /\ Known(stack[1])
  BY <1>1, <1>2, Top
<1>4. UNCHANGED <<rs, ws, listeners, ticks, emitted>>
  BY DEF SubclassCalled
<1>5. RsKept /\ WsKept /\ Listening' /\ AllPlain(ticks)'
  BY <1>4, NothingWritten, Unheard
<1>6. \/ io' = io /\ \E err \in BOOLEAN : Continue(Answer(top, err))
      \/ io' = Append(io, top) /\ Continue(<<>>)
      \/ io' = io /\ f = "_read" /\ Continue(<<CallC("push", r, Empty)>>)
  BY <1>1 DEF SubclassCalled
<1>7. CASE f # "_destroy"
  <2>1. Plain(stack[1])
    BY <1>1, <1>3, <1>7 DEF Plain, Hooks
  <2>2. PICK P : Continue(P) /\ AllPlain(P)
    <3>1. \A err : AllPlain(Answer(top, err))
      BY <1>1, <1>7, PlainAnswer
    <3>2. AllPlain(<<CallC("push", r, Empty)>>)
      BY OneStream, PlainCalls, PlainLists DEF Vital, WriterCalls
    <3> QED BY <1>6, <3>1, <3>2, PlainLists
  <2>3. Shifted(P, 1)
    BY <1>3, <2>2, Replaced DEF AllPlain
  <2>4. Owed' /\ \A s \in Streams : IoKept(s)
    <3>1. CASE io' = io
      BY <3>1, IoUnchanged DEF Inv, Calls, Owed
    <3>2. CASE io' = Append(io, top)
      <4>1. \A s \in Streams : ~Closing(top, s)
        BY <1>1, <1>7 DEF Closing, Hooks
      <4> QED BY <1>1, <1>2, <1>3, <3>2, <4>1, Asked
    <3> QED BY <1>6, <3>1, <3>2
  <2> QED BY <1>4, <1>5, <2>1, <2>2, <2>3, <2>4, PlainStep
<1>8. CASE f = "_destroy"
  <2>1. Closing(stack[1], t) /\ Leaving(stack[1], t) /\ OneLeaves(t)
    BY <1>3, <1>8 DEF Closing, Leaving, Inv, Life
  <2>2. \A k \in DOMAIN stack : k > 1 => ~Leaving(stack[k], t)
    BY <1>3, <2>1 DEF OneLeaves
  <2>3. \A k \in DOMAIN io : ~Closing(io[k], t)
    BY <1>3, <2>1 DEF OneLeaves
  <2>4. \A s \in Streams \ {t} : ~Closing(top, s)
    BY <1>2 DEF Closing
  <2>5. ASSUME NEW err \in BOOLEAN, io' = io, Continue(Answer(top, err))
        PROVE  Inv'
    <3>1. PICK c : c = CallE("closed", t, top.err \/ err)
      OBVIOUS
    <3>2. Continue(<<c>>) /\ c.fn = "closed" /\ c.s = t
      <4>1. Answer(top, err) = <<CallE("closed", top.s, top.err \/ err)>>
        BY <1>1, <1>8, PlainAnswer
      <4>2. Continue(<<c>>)
        BY <1>2, <2>5, <3>1, <4>1, Zenon
      <4> QED BY <3>1, <4>2 DEF CallE
    <3>3. Shifted(<<c>>, 1) /\ Len(<<c>>) = 1 /\ <<c>>[1] = c
      BY <1>3, <3>2, Replaced, Short
    <3>4. Known(c)
      BY <1>3, <3>2 DEF Known, ReaderCalls, WriterCalls
    <3>5. \A k \in 1..Len(<<c>>) :
            Known(<<c>>[k]) /\ <<c>>[k].s = t /\ <<c>>[k].fn # "emit"
      BY <3>2, <3>3, <3>4
    <3>6. OneLeaves(t)'
      BY <1>3, <2>2, <2>3, <2>5, <3>3, OneOnStack
    <3>7. Owed' /\ \A s \in Streams : IoKept(s)
      BY <2>5, IoUnchanged DEF Inv, Calls, Owed
    <3> QED BY <1>3, <1>4, <1>8, <2>1, <3>3, <3>5, <3>6, <3>7, DestroyMoved
  <2>6. ASSUME io' = Append(io, top), Continue(<<>>)
        PROVE  Inv'
    <3>1. Shifted(<<>>, 1) /\ Len(<<>>) = 0
      BY <1>3, <2>6, Replaced, Short
    <3>2. /\ Owed' /\ \A s \in Streams \ {t} : IoKept(s)
          /\ \A k, l \in DOMAIN io' : Closing(io'[k], t) /\ Closing(io'[l], t) => k = l
      BY <1>1, <1>2, <1>3, <2>3, <2>4, <2>6, Asked
    <3>3. \A k \in DOMAIN stack' : ~Leaving(stack'[k], t)
      BY <2>2, <3>1, Origin
    <3>4. OneLeaves(t)'
      BY <3>2, <3>3 DEF OneLeaves, Leaving, Closing, Emits
    <3> QED BY <1>3, <1>4, <1>8, <2>1, <3>1, <3>2, <3>4, DestroyMoved
  <2> QED BY <1>6, <1>8, <2>5, <2>6
<1> QED BY <1>7, <1>8

LEMMA SubclassAnswersStep ==
  ASSUME Inv, NEW i \in DOMAIN io, SubclassAnswers(i)
  PROVE  Inv'
<1>1. stack = <<>> /\ IsSeq(stack) /\ 1 \notin DOMAIN stack /\ Len(stack) = 0
  BY DEF SubclassAnswers, Inv, Calls
<1>2. PICK x : x = io[i]
  OBVIOUS
<1>3. x.fn \in Hooks /\ x.s \in Streams
  BY <1>2 DEF Inv, Calls, Owed
<1>4. PICK err \in BOOLEAN : stack' = Answer(x, err)
  BY <1>2 DEF SubclassAnswers
<1>5. UNCHANGED <<rs, ws, listeners, ticks, emitted>> /\ io' = RemoveAt(io, i)
  BY DEF SubclassAnswers
<1>6. RsKept /\ WsKept /\ Listening' /\ AllPlain(ticks)'
  BY <1>5, NothingWritten, Unheard
<1>7. /\ Owed' /\ \A s \in Streams : IoKept(s)
      /\ \A s \in Streams : Closing(x, s) => \A k \in DOMAIN io' : ~Closing(io'[k], s)
  BY <1>2, <1>5, AnswerTaken
<1>8. CASE x.fn # "_destroy"
  <2>1. AllPlain(stack')
    BY <1>3, <1>4, <1>8, PlainAnswer
  <2>2. PICK P : P = stack'
    OBVIOUS
  <2>3. AllPlain(P) /\ IsSeq(P)
    BY <2>1, <2>2 DEF AllPlain
  <2>4. Shifted(P, 0)
    BY <1>1, <2>2, <2>3, Indexed DEF Shifted
  <2> QED BY <1>1, <1>5, <1>6, <1>7, <2>3, <2>4, PlainStep
<1>9. CASE x.fn = "_destroy"
  <2>1. Closing(x, x.s)
    BY <1>9 DEF Closing
  <2>2. PICK c : c = CallE("closed", x.s, x.err \/ err)
    OBVIOUS
  <2>3. stack' = <<c>>
    BY <1>3, <1>4, <1>9, <2>2, PlainAnswer
  <2>4. c.fn = "closed" /\ c.s = x.s
    BY <2>2 DEF CallE
  <2>5. IsSeq(<<c>>) /\ Len(<<c>>) = 1 /\ <<c>>[1] = c
    BY Short
  <2>6. Shifted(<<c>>, 0)
    BY <1>1, <2>3, <2>5 DEF Shifted
  <2>7. Known(c)
    BY <1>3, <2>4 DEF Known, ReaderCalls, WriterCalls
  <2>8. \A k \in 1..Len(<<c>>) :
          Known(<<c>>[k]) /\ <<c>>[k].s = x.s /\ <<c>>[k].fn # "emit"
    BY <2>4, <2>5, <2>7
  <2>9. OneLeaves(x.s)'
    <3>1. \A k \in DOMAIN stack : k > 0 => ~Leaving(stack[k], x.s)
      BY <1>1
    <3>2. \A k, l \in 1..Len(<<c>>) : Leaving(<<c>>[k], x.s) /\ Leaving(<<c>>[l], x.s) => k = l
      BY <2>5
    <3> QED BY <1>3, <1>7, <2>1, <2>6, <3>1, <3>2, OneOnStack
  <2>10. \E k \in DOMAIN io : Closing(io[k], x.s)
    BY <1>2, <2>1
  <2> QED BY <1>1, <1>3, <1>5, <1>7, <2>6, <2>8, <2>9, <2>10, DestroyMoved
<1> QED BY <1>8, <1>9

-----------------------------------------------------------------------------
(* The theorem. *)

LEMMA InitInv ==
  Init => Inv
<1> SUFFICES ASSUME Init PROVE Inv
  OBVIOUS
<1>0. io = <<>>
  BY DEF Init
<1>1. StreamInit(LAMBDA s, ev : Then(ev \in Lifecycle \cup {"drain"}, <<User(s)>>))
  BY DEF Init
<1>2. /\ rs = [s \in Readers |-> ReadableState] /\ ws = [s \in Writers |-> WritableState]
      /\ ticks = <<>> /\ stack = <<>> /\ emitted = [s \in Streams |-> <<>>]
  BY <1>1 DEF StreamInit
<1>3. States
  BY <1>2 DEF States, ReadableState, WritableState
<1>4. Listening
  <2>1. listeners = [s \in Streams |-> [ev \in Events |->
          HalfClosed(s, ev) \o Then(ev \in Lifecycle \cup {"drain"}, <<User(s)>>)]]
    BY <1>1 DEF StreamInit
  <2>2. ASSUME NEW s \in Streams, NEW ev \in Events, NEW q, q = listeners[s][ev]
        PROVE  IsSeq(q) /\ \A k \in DOMAIN q : Listener(q[k])
    <3>1. PICK a : a = HalfClosed(s, ev)
      OBVIOUS
    <3>2. PICK b : b = Then(ev \in Lifecycle \cup {"drain"}, <<User(s)>>)
      OBVIOUS
    <3>3. q = a \o b
      BY <2>1, <2>2, <3>1, <3>2
    <3>4. IsSeq(a) /\ \A k \in 1..Len(a) : Listener(a[k])
      <4>1. Listener([fn |-> "endOther", s |-> s]) /\ Listener([fn |-> "pushOther", s |-> s])
        BY DEF Listener
      <4> QED BY <3>1, <4>1, Short DEF HalfClosed
    <3>5. IsSeq(b) /\ \A k \in 1..Len(b) : Listener(b[k])
      <4>1. Listener(User(s))
        BY DEF Listener, User, Call
      <4> QED BY <3>2, <4>1, Short DEF Then
    <3>6. Len(a) \in Nat /\ Len(b) \in Nat
      BY <3>4, <3>5, Indexed
    <3>7. /\ IsSeq(q) /\ Len(q) = Len(a) + Len(b)
          /\ \A k \in 1..Len(a) : q[k] = a[k]
          /\ \A k \in 1..Len(b) : q[k + Len(a)] = b[k]
      BY <3>3, <3>4, <3>5, Joined
    <3>8. DOMAIN q = 1..Len(q)
      BY <3>7, Indexed
    <3>9. ASSUME NEW k \in DOMAIN q PROVE Listener(q[k])
      <4>1. CASE k <= Len(a)
        BY <3>4, <3>6, <3>7, <3>8, <4>1
      <4>2. CASE k > Len(a)
        <5>1. PICK m : m = k - Len(a)
          OBVIOUS
        <5>2. m \in 1..Len(b) /\ k = m + Len(a)
          BY <3>6, <3>7, <3>8, <4>2, <5>1
        <5>3. q[m + Len(a)] = b[m] /\ Listener(b[m])
          BY <3>5, <3>7, <5>2
        <5> QED BY <5>2, <5>3
      <4> QED BY <3>6, <3>8, <4>1, <4>2
    <3> QED BY <3>7, <3>9
  <2>3. DOMAIN listeners = Streams /\ \A s \in Streams : DOMAIN listeners[s] = Events
    BY <2>1
  <2> QED BY <2>2, <2>3 DEF Listening
<1>5. Calls
  <2>1. IsSeq(stack) /\ IsSeq(io) /\ AllPlain(ticks)
    BY <1>0, <1>2, PlainLists, Short
  <2>2. DOMAIN stack = 1..0 /\ DOMAIN io = 1..0
    BY <1>0, <1>2
  <2>3. \A k \in 1..0 : FALSE
    OBVIOUS
  <2> QED BY <1>4, <2>1, <2>2, <2>3 DEF Calls, Owed
<1>6. AtOnce /\ LifecycleOrder
  BY <1>2 DEF AtOnce, LifecycleOrder
<1>7. ASSUME NEW s \in Streams PROVE Life(s)
  <2>1. \A ev : ~Came(s, ev)
    BY <1>2 DEF Came
  <2>2. DOMAIN stack = 1..0 /\ DOMAIN io = 1..0
    BY <1>0, <1>2
  <2>3. \A k \in 1..0 : FALSE
    OBVIOUS
  <2> QED BY <2>1, <2>2, <2>3 DEF Life, OneLeaves, Alive
<1> QED BY <1>3, <1>5, <1>6, <1>7 DEF Inv

LEMMA NextInv ==
  Inv /\ use \in Uses /\ [Next]_vars => Inv' /\ (use \in Uses)'
<1> SUFFICES ASSUME Inv, use \in Uses, [Next]_vars PROVE Inv' /\ (use \in Uses)'
  OBVIOUS
<1>1. CASE Library
  <2>1. io' = io /\ use' = use
    BY <1>1 DEF Library
  <2>2. CASE EmitStep
    BY <2>1, <2>2, EmitRuns
  <2>3. CASE ReadableStep
    BY <2>1, <2>3, PushStep, MaybeReadStep, FlowTickStep, FlowStep, FlowMoreStep,
       ReadableTickStep, EmitEndStep DEF ReadableStep
  <2>4. CASE ReaderCall
    BY <2>1, <2>4, ReadStep, AfterReadStep, UnshiftStep, OnStep, RemoveListenerStep,
       PauseStep, ResumeStep DEF ReaderCall
  <2>5. CASE WritableStep
    BY <2>1, <2>5, WriteStep, WrittenStep, DoWriteStep, OnWriteStep, AfterWriteStep,
       EndStep, MaybeFinishStep, FinalDoneStep, FinishStep DEF WritableStep
  <2>6. CASE CorkStep
    BY <2>1, <2>6, CorkCallStep, UncorkCallStep DEF CorkStep
  <2>7. CASE DestroyStep
    BY <2>1, <2>7, AutoDestroyStep, DestroyStepKeeps, FailNextStep, DropWritesStep,
       ClosedStep DEF DestroyStep
  <2>8. CASE RunTick
    BY <2>1, <2>8, RunTickStep
  <2> QED BY <1>1, <2>1, <2>2, <2>3, <2>4, <2>5, <2>6, <2>7, <2>8 DEF Library
<1>2. CASE SubclassCalled
  BY <1>2, SubclassCalledStep DEF SubclassCalled
<1>3. CASE UserReturns \/ DataArrives \/ CallbackRuns
  BY <1>3, UserCodeStep DEF UserReturns, DataArrives, CallbackRuns, userVars
<1>4. CASE IteratorStep /\ UNCHANGED <<rs, ws, listeners, ticks, ret, emitted>>
  BY <1>4, IteratorCodeStep DEF IteratorStep
<1>5. CASE UserCalls
  BY <1>5, UserCallsStep DEF UserCalls
<1>6. ASSUME NEW i \in DOMAIN io, SubclassAnswers(i) PROVE Inv' /\ (use \in Uses)'
  BY <1>6, SubclassAnswersStep DEF SubclassAnswers
<1>7. CASE UNCHANGED vars
  <2>1. UNCHANGED <<rs, ws, listeners, ticks, stack, emitted, io, use>>
    BY <1>7 DEF vars, streamVars, userVars
  <2> QED BY <2>1 DEF Inv, States, Calls, Listening, AllPlain, Owed, AtOnce, Life, OneLeaves,
       Alive, Gone, Failed, Came, Destroyed, LifecycleOrder
<1> QED BY <1>1, <1>2, <1>3, <1>4, <1>5, <1>6, <1>7 DEF Next, Proceed

\* 'end', 'finish', 'error' and 'close' of a stream come at most once each,
\* nothing after 'close' and only 'close' after 'error' (events.js emit, the
\* _destroy path and _emitEnd and _finish of stream.js): for every number of
\* chunks and calls, whatever user code calls from inside a listener or a
\* callback, and in whatever order the subclass answers.
THEOREM LifecycleOrdered ==
  Spec => []LifecycleOrder
<1>1. Init => Inv /\ use \in Uses
  BY InitInv DEF Init
<1>2. Inv /\ use \in Uses => LifecycleOrder
  BY DEF Inv
<1> QED BY <1>1, <1>2, NextInv, PTL DEF Spec
=============================================================================
