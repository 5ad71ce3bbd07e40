------------------------ MODULE JsStreamWriteProofs -------------------------
(***************************************************************************)
(* Theorems about the writable side of JsStreamUser for every number of    *)
(* calls of user code, from anywhere, and every order in which the         *)
(* subclass answers: no accepted chunk is lost, repeated or overtaken, and *)
(* the callbacks of write() tell the truth about it.                       *)
(***************************************************************************)
EXTENDS JsStreamUserProofs

-----------------------------------------------------------------------------
(* The inductive invariant. *)

\* The numbers of the chunks.
Numbers == 1..MaxCalls

\* A write that waits for its turn.
Item == [c : Numbers, cb : {TRUE}]
\* How a write was answered.
Reply == [c : Numbers, err : BOOLEAN]

Live == ~ws[w].destroyed

\* The shapes of the state of the writable side.
WriterState ==
  /\ {"pending", "corkedBuffer", "length", "current", "ended", "corked",
      "destroyed", "finished", "needDrain"} \subseteq DOMAIN ws[w]
  /\ ws[w].pending \in Seq(Item) /\ ws[w].corkedBuffer \in Seq(Item)
  /\ ws[w].current \in Item \cup {NoItem}
  /\ ws[w].length \in Nat /\ ws[w].corked \in Nat
  /\ ws[w].ended \in BOOLEAN /\ ws[w].destroyed \in BOOLEAN
  /\ accepted \in Seq(Numbers) /\ done \in Seq(Reply) /\ called \in Seq(Reply)
  /\ calls \in 0..MaxCalls

\* What the calls of the writable side carry.
Carries(f) ==
  /\ f.fn = "write" => f.c = calls /\ f.c \in Numbers /\ f.cb = TRUE
  /\ f.fn = "onwrite" => f.err \in BOOLEAN
  /\ f.fn = "callback" => f.c \in 1..calls /\ f.err \in BOOLEAN
  /\ f.fn = "failWrites" => f.list \in Seq(Item) /\ f.list # <<>>
  /\ f.fn \in {"failWrites", "dropWrites"} => ws[w].destroyed

\* A call of write(), of _write, its answer and its callback run before
\* anything else.
Immediate == {"write", "_write", "onwrite", "callback"}

\* The subclass owes one answer to _write, at most, and none when nothing is
\* being written.
OneWrite ==
  /\ 1 \in DOMAIN stack /\ stack[1].fn \in {"_write", "onwrite"} =>
       Writing(w) /\ \A k \in DOMAIN io : io[k].fn # "_write"
  /\ \A k \in DOMAIN io : io[k].fn = "_write" => Writing(w)
  /\ \A k, l \in DOMAIN io : io[k].fn = "_write" /\ io[l].fn = "_write" => k = l

\* The calls of the writable side, on the stack and among the ticks.
StackFrames ==
  \A k \in DOMAIN stack :
    Carries(stack[k]) /\ (stack[k].fn \in Immediate => k = 1)
TickFrames ==
  \A k \in DOMAIN ticks :
    /\ ticks[k].fn = "callback" => ticks[k].c \in 1..calls /\ ticks[k].err = TRUE
    /\ ticks[k].fn \in {"callback", "flowTick", "readableTick", "maybeRead", "destroy"}
Frames == StackFrames /\ TickFrames

Ordered ==
  /\ WriterState /\ Frames /\ OneWrite
  /\ ws[w].corked = 0 => ws[w].corkedBuffer = <<>>
  /\ ws[w].destroyed => ws[w].ended
  /\ WritesKeepOrder

\* Where a chunk is.
IsAccepted(c) == \E k \in DOMAIN accepted : accepted[k] = c
IsDone(c) == \E k \in DOMAIN done : done[k].c = c
IsCalled(c) == \E k \in DOMAIN called : called[k].c = c
IsCurrent(c) == Writing(w) /\ ws[w].current.c = c
IsQueued(c) ==
  /\ Live
  /\ \/ \E k \in DOMAIN ws[w].pending : ws[w].pending[k].c = c
     \/ \E k \in DOMAIN ws[w].corkedBuffer : ws[w].corkedBuffer[k].c = c
Fails(f, c) == f.fn = "failWrites" /\ \E j \in DOMAIN f.list : f.list[j].c = c
IsFailing(c) == \E k \in DOMAIN stack : Fails(stack[k], c)
Tells(f, c) == f.fn = "callback" /\ f.c = c
IsTold(c) == \E k \in DOMAIN stack : Tells(stack[k], c)
IsRefused(c) == \E k \in DOMAIN ticks : Tells(ticks[k], c)

\* The chunks are numbered in the order of the calls of write().
Numbered ==
  /\ \A k \in DOMAIN accepted : accepted[k] \in 1..calls
  /\ \A k, l \in DOMAIN accepted : accepted[k] = accepted[l] => k = l
  /\ \A k \in DOMAIN called : called[k].c \in 1..calls
  /\ \A k \in DOMAIN stack : stack[k].fn = "write" =>
       ~IsAccepted(calls) /\ ~IsCalled(calls) /\ ~IsRefused(calls)

\* An accepted chunk is answered for, being written or about to be refused.
OnePlace ==
  \A c \in Numbers :
    /\ IsDone(c) => ~IsCurrent(c) /\ ~IsFailing(c)
    /\ IsCurrent(c) => ~IsFailing(c)
OnlyAccepted ==
  \A c \in Numbers : IsDone(c) \/ IsCurrent(c) \/ IsFailing(c) => IsAccepted(c)
OneRefusal ==
  /\ \A k \in DOMAIN stack : stack[k].fn = "failWrites" =>
       \A i, j \in DOMAIN stack[k].list : stack[k].list[i].c = stack[k].list[j].c => i = j
  /\ \A k, l \in DOMAIN stack : \A c \in Numbers :
       Fails(stack[k], c) /\ Fails(stack[l], c) => k = l

Dropped == ws[w].destroyed => OnePlace /\ OnlyAccepted /\ OneRefusal

\* A callback runs once, and says how the write went.
ToldOnce ==
  \A c \in Numbers :
    /\ IsCurrent(c) \/ IsQueued(c) \/ IsFailing(c) => ~IsCalled(c) /\ ~IsTold(c)
    /\ IsRefused(c) => ~IsAccepted(c) /\ ~IsCalled(c) /\ ~IsTold(c)
    /\ IsTold(c) => ~IsCalled(c)
    /\ Live /\ IsDone(c) => IsCalled(c) \/ IsTold(c)
RefusedOnce ==
  \A k, l \in DOMAIN ticks : \A c \in Numbers :
    Tells(ticks[k], c) /\ Tells(ticks[l], c) => k = l
TrueCallbacks ==
  \A k \in DOMAIN stack : stack[k].fn = "callback" =>
    (stack[k].err <=> ~WasWritten(stack[k].c))
TrueAnswers ==
  /\ \A k \in DOMAIN called : called[k].err <=> ~WasWritten(called[k].c)
  /\ \A k, l \in DOMAIN called : called[k].c = called[l].c => k = l

Told == ToldOnce /\ RefusedOnce /\ TrueCallbacks /\ TrueAnswers

\* When a write has failed, the stream is destroyed next.
FailsNext ==
  Live /\ (\E k \in DOMAIN done : done[k].err) =>
    \E k \in DOMAIN stack :
      /\ stack[k].fn = "destroy" /\ stack[k].s = w /\ k \in 1..2
      /\ k = 2 => stack[1].fn = "callback" /\ stack[1].err

\* The stream is finishing only when all is written.
Finishing(f) == f.fn \in {"_final", "finalDone", "finish"} \/ Emits(f, w, "finish")
AllWritten ==
  /\ ws[w].ended /\ ~Writing(w)
  /\ ws[w].pending = <<>> /\ ws[w].corkedBuffer = <<>>
  /\ accepted = Chunks(done)
  /\ \A k \in DOMAIN done : ~done[k].err /\ IsCalled(done[k].c)
Finishes ==
  \/ \E k \in DOMAIN stack : Finishing(stack[k])
  \/ \E k \in DOMAIN io : io[k].fn = "_final"
  \/ Came(w, "finish")

WInv ==
  /\ Ordered /\ Numbered /\ Dropped /\ Told
  /\ ~CallsInFailure => FailsNext /\ (Finishes => AllWritten)

-----------------------------------------------------------------------------
(* Steps that have no part in a write. *)

Bystander(f) == f.fn \notin Immediate \cup {"failWrites", "dropWrites"}
Bystanders(P) == IsSeq(P) /\ \A k \in 1..Len(P) : Bystander(P[k])

QuietCall(f) == Bystander(f) /\ ~Finishing(f)
AllQuiet(P) == IsSeq(P) /\ \A k \in 1..Len(P) : QuietCall(P[k])

\* Ticks other than the callback of a refused write.
AllTicks(q) ==
  IsSeq(q) /\ \A k \in 1..Len(q) : q[k].fn \in {"flowTick", "readableTick", "maybeRead", "destroy"}

\* What a call that is made by a step has to carry.
CarriesNext(f) ==
  /\ f.fn = "write" => f.c = calls' /\ f.c \in Numbers /\ f.cb = TRUE
  /\ f.fn = "onwrite" => f.err \in BOOLEAN
  /\ f.fn = "callback" => f.c \in 1..calls' /\ f.err \in BOOLEAN
  /\ f.fn = "failWrites" => f.list \in Seq(Item) /\ f.list # <<>>
  /\ f.fn \in {"failWrites", "dropWrites"} => ws'[w].destroyed

\* No write starts, is answered for or is forgotten.
SameWrites ==
  /\ WriterState' /\ WritesKeepOrder'
  /\ ws'[w].current = ws[w].current /\ ws'[w].destroyed = ws[w].destroyed
  /\ (ws[w].ended => ws'[w].ended)
  /\ ws'[w].corked = 0 => ws'[w].corkedBuffer = <<>>
  /\ UNCHANGED <<accepted, done, called>>
  /\ \A c \in Numbers : IsQueued(c)' => IsQueued(c)
  /\ ws[w].pending = <<>> /\ ws[w].corkedBuffer = <<>> =>
       ws'[w].pending = <<>> /\ ws'[w].corkedBuffer = <<>>

\* The queues of the writable side stay as they are.
SameQueues ==
  /\ WriterState'
  /\ ws'[w].pending = ws[w].pending /\ ws'[w].corkedBuffer = ws[w].corkedBuffer
  /\ ws'[w].current = ws[w].current /\ ws'[w].length = ws[w].length
  /\ ws'[w].destroyed = ws[w].destroyed /\ (ws[w].ended => ws'[w].ended)
  /\ ws'[w].corked = 0 => ws'[w].corkedBuffer = <<>>
  /\ UNCHANGED <<accepted, done, called>>

\* The subclass owes no answer to a write that it did not owe before.
SameDebts ==
  /\ \A k, l \in DOMAIN io' : io'[k].fn = "_write" /\ io'[l].fn = "_write" => k = l
  /\ \A k \in DOMAIN io' : io'[k].fn = "_write" => \E m \in DOMAIN io : io[m].fn = "_write"

LEMMA QueuesKept ==
  ASSUME WInv, SameQueues
  PROVE  SameWrites
<1>1. Current' = Current /\ (Live' <=> Live)
  BY DEF Writing, SameQueues, Live, Current, Then
<1>2. WritesKeepOrder'
  BY <1>1 DEF WInv, Ordered, WritesKeepOrder, SameQueues
<1>3. \A c : IsQueued(c)' <=> IsQueued(c)
  BY <1>1 DEF IsQueued, SameQueues
<1> QED BY <1>2, <1>3 DEF SameWrites, SameQueues

LEMMA JoinedOrigin ==
  ASSUME NEW p, NEW q, IsSeq(p), IsSeq(q), NEW k \in DOMAIN (p \o q)
  PROVE  \/ k \in DOMAIN p /\ (p \o q)[k] = p[k]
         \/ \E i \in DOMAIN q : k = i + Len(p) /\ (p \o q)[k] = q[i]
<1>1. PICK s : s = p \o q
  OBVIOUS
<1>2. /\ IsSeq(s) /\ Len(s) = Len(p) + Len(q)
      /\ \A i \in 1..Len(p) : s[i] = p[i]
      /\ \A i \in 1..Len(q) : s[i + Len(p)] = q[i]
  BY <1>1, Joined
<1>3. /\ DOMAIN s = 1..Len(s) /\ DOMAIN p = 1..Len(p) /\ DOMAIN q = 1..Len(q)
      /\ Len(p) \in Nat /\ Len(q) \in Nat /\ Len(s) \in Nat
  BY <1>2, Indexed
<1>4. k \in 1..Len(s)
  BY <1>1, <1>3
<1>5. CASE k <= Len(p)
  BY <1>1, <1>2, <1>3, <1>4, <1>5
<1>6. CASE k > Len(p)
  <2>1. PICK i : i = k - Len(p)
    OBVIOUS
  <2>2. i \in 1..Len(q) /\ k = i + Len(p)
    BY <1>2, <1>3, <1>4, <1>6, <2>1
  <2>3. s[i + Len(p)] = q[i]
    BY <1>2, <2>2
  <2> QED BY <1>1, <1>3, <2>2, <2>3
<1> QED BY <1>3, <1>4, <1>5, <1>6

\* The calls on the stack after a step.
LEMMA FramesKept ==
  ASSUME WInv, NEW P, NEW d, Shifted(P, d),
         \A k \in 1..Len(P) : CarriesNext(P[k]) /\ (P[k].fn \in Immediate => k = 1),
         d = 0 /\ 1 \in DOMAIN stack => stack[1].fn \notin Immediate,
         ws[w].destroyed => ws'[w].destroyed
  PROVE  StackFrames'
<1>1. ASSUME NEW m \in DOMAIN stack, m > d PROVE Carries(stack[m]) /\ stack[m].fn \notin Immediate
  <2>1. d \in 0..1 /\ m \in Nat
    BY Indexed DEF Shifted
  <2> QED BY <1>1, <2>1 DEF WInv, Ordered, Frames, StackFrames
<1>2. ASSUME NEW k \in DOMAIN stack'
      PROVE  Carries(stack[k])' /\ (stack'[k].fn \in Immediate => k = 1)
  <2>1. CASE k \in 1..Len(P) /\ stack'[k] = P[k]
    <3>1. CarriesNext(stack'[k]) /\ (stack'[k].fn \in Immediate => k = 1)
      BY <2>1
    <3> QED BY <3>1 DEF Carries, CarriesNext
  <2>2. CASE \E m \in DOMAIN stack : m > d /\ stack'[k] = stack[m]
    <3>1. PICK m \in DOMAIN stack : m > d /\ stack'[k] = stack[m]
      BY <2>2
    <3>2. Carries(stack[m]) /\ stack[m].fn \notin Immediate
      BY <1>1, <3>1
    <3> QED BY <3>1, <3>2 DEF Carries, Immediate
  <2> QED BY <2>1, <2>2, Origin
<1> QED BY <1>2 DEF StackFrames

\* A step in which no write is answered for and no callback runs.
LEMMA CalmStep ==
  ASSUME WInv, NEW P, NEW d, Shifted(P, d),
         \A k \in 1..Len(P) :
           /\ CarriesNext(P[k]) /\ (P[k].fn \in Immediate => k = 1)
           /\ P[k].fn \notin {"callback", "failWrites"}
           /\ P[k].fn = "write" => calls' = calls + 1,
         1 \in DOMAIN stack =>
           /\ stack[1].fn \notin {"callback", "failWrites"}
           /\ d = 0 => stack[1].fn \notin Immediate
           /\ stack[1].fn = "destroy" => stack[1].s # w \/ ws[w].destroyed,
         TickFrames', RefusedOnce',
         \A c \in Numbers : IsRefused(c)' =>
           \/ IsRefused(c) /\ c # calls'
           \/ ~IsAccepted(c) /\ ~IsCalled(c) /\ \A k \in 1..Len(P) : P[k].fn # "write",
         SameWrites, OneWrite', calls' >= calls,
         Finishes' => CallsInFailure \/ Finishes \/ AllWritten
  PROVE  WInv'
<1>0. WriterState /\ calls \in Nat /\ calls' \in Nat /\ IsSeq(stack) /\ IsSeq(stack')
  BY UserAssumption DEF WInv, Ordered, SameWrites, WriterState, Shifted
<1>1. ASSUME NEW k \in DOMAIN stack PROVE stack[k].fn # "callback"
  BY DEF WInv, Ordered, Frames, StackFrames, Immediate
<1>2. ASSUME NEW k \in DOMAIN stack', stack'[k].fn \in {"callback", "failWrites", "write"}
      PROVE  \/ \E m \in DOMAIN stack : m > d /\ k = m + Len(P) - d /\ stack'[k] = stack[m]
             \/ \E m \in 1..Len(P) : stack'[k] = P[m] /\ P[m].fn = "write"
  BY <1>2, Origin
<1>3. 1..calls \subseteq 1..calls'
  BY <1>0
<1>4. /\ Writing(w)' <=> Writing(w)
      /\ Live' <=> Live
  BY DEF Writing, SameWrites, Live
<1>5. Frames'
  <2>1. ws[w].destroyed => ws'[w].destroyed
    BY DEF SameWrites
  <2> QED BY <2>1, FramesKept DEF Frames
<1>7. Ordered'
  <2>1. (ws[w].destroyed => ws[w].ended)' /\ (ws[w].corked = 0 => ws[w].corkedBuffer = <<>>)'
    BY DEF WInv, Ordered, SameWrites
  <2> QED BY <1>5, <2>1 DEF Ordered, SameWrites
<1>8. /\ \A c : IsDone(c)' <=> IsDone(c)
      /\ \A c : IsAccepted(c)' <=> IsAccepted(c)
      /\ \A c : IsCalled(c)' <=> IsCalled(c)
      /\ \A c : WasWritten(c)' <=> WasWritten(c)
  BY DEF IsDone, IsAccepted, IsCalled, WasWritten, SameWrites
<1>9. \A c : IsCurrent(c)' <=> IsCurrent(c)
  BY <1>4 DEF IsCurrent, SameWrites
<1>10. \A c \in Numbers : IsQueued(c)' => IsQueued(c)
  BY DEF SameWrites
<1>11. \A k \in DOMAIN stack' : stack'[k].fn # "callback"
  BY <1>1, <1>2
<1>a. \A c : ~IsTold(c) /\ ~IsTold(c)'
  BY <1>1, <1>11 DEF IsTold, Tells
<1>12. ASSUME NEW k \in DOMAIN stack', stack'[k].fn = "failWrites"
       PROVE  \E m \in DOMAIN stack : k = m + Len(P) - d /\ stack'[k] = stack[m]
  BY <1>2, <1>12
<1>13. \A c : IsFailing(c)' => IsFailing(c)
  BY <1>12 DEF IsFailing, Fails
<1>16. Numbered'
  <2>0. Numbered
    BY DEF WInv
  <2>1. ASSUME NEW k \in DOMAIN stack', stack'[k].fn = "write"
        PROVE  ~IsAccepted(calls)' /\ ~IsCalled(calls)' /\ ~IsRefused(calls)'
    <3>1. \A m \in DOMAIN stack : m > d => stack[m].fn # "write"
      <4>1. d \in 0..1 /\ \A m \in DOMAIN stack : m \in Nat
        BY <1>0, Indexed DEF Shifted
      <4> QED BY <4>1 DEF WInv, Ordered, Frames, StackFrames, Immediate
    <3>2. PICK m \in 1..Len(P) : stack'[k] = P[m] /\ P[m].fn = "write"
      BY <1>2, <2>1, <3>1
    <3>3. calls' = calls + 1 /\ calls' \notin 1..calls
      BY <1>0, <3>2
    <3>4. ~IsAccepted(calls') /\ ~IsCalled(calls')
      BY <2>0, <3>3 DEF Numbered, IsAccepted, IsCalled
    <3>5. calls' \in Numbers
      BY <3>2 DEF CarriesNext
    <3>6. ~IsAccepted(calls)' /\ ~IsCalled(calls)'
      BY <3>4 DEF IsAccepted, IsCalled, SameWrites
    <3>7. ~IsRefused(calls)'
      BY <3>2, <3>5 DEF IsRefused
    <3> QED BY <3>6, <3>7
  <2>2. /\ \A k \in DOMAIN accepted' : accepted'[k] \in 1..calls'
        /\ \A k, l \in DOMAIN accepted' : accepted'[k] = accepted'[l] => k = l
        /\ \A k \in DOMAIN called' : called'[k].c \in 1..calls'
    BY <1>3, <2>0 DEF Numbered, SameWrites
  <2> QED BY <2>1, <2>2 DEF Numbered
<1>17. Dropped'
  <2>1. SUFFICES ASSUME ws'[w].destroyed PROVE Dropped'
    BY DEF Dropped
  <2>2. ws[w].destroyed
    BY <2>1 DEF SameWrites
  <2>3. OnePlace /\ OnlyAccepted /\ OneRefusal
    BY <2>2 DEF WInv, Dropped
  <2>4. OnePlace'
    BY <1>8, <1>9, <1>13, <2>3 DEF OnePlace
  <2>5. OnlyAccepted'
    BY <1>8, <1>9, <1>13, <2>3 DEF OnlyAccepted
  <2>6. OneRefusal'
    <3>1. ASSUME NEW k \in DOMAIN stack', stack'[k].fn = "failWrites",
                 NEW i \in DOMAIN stack'[k].list, NEW j \in DOMAIN stack'[k].list,
                 stack'[k].list[i].c = stack'[k].list[j].c
          PROVE  i = j
      <4>1. PICK m \in DOMAIN stack : stack'[k] = stack[m]
        BY <1>12, <3>1
      <4> QED BY <2>3, <3>1, <4>1 DEF OneRefusal
    <3>2. ASSUME NEW k \in DOMAIN stack', NEW l \in DOMAIN stack', NEW c \in Numbers,
                 Fails(stack'[k], c), Fails(stack'[l], c)
          PROVE  k = l
      <4>1. PICK m \in DOMAIN stack : k = m + Len(P) - d /\ stack'[k] = stack[m]
        BY <1>12, <3>2 DEF Fails
      <4>2. PICK n \in DOMAIN stack : l = n + Len(P) - d /\ stack'[l] = stack[n]
        BY <1>12, <3>2 DEF Fails
      <4>3. m = n
        BY <2>3, <3>2, <4>1, <4>2 DEF OneRefusal
      <4> QED BY <4>1, <4>2, <4>3
    <3> QED BY <3>1, <3>2 DEF OneRefusal, Fails
  <2> QED BY <2>4, <2>5, <2>6 DEF Dropped
<1>18. Told'
  <2>0. ToldOnce /\ TrueAnswers
    BY DEF WInv, Told
  <2>1. ToldOnce'
    <3>1. ASSUME NEW c \in Numbers
          PROVE  /\ IsCurrent(c)' \/ IsQueued(c)' \/ IsFailing(c)' => ~IsCalled(c)'
                 /\ IsRefused(c)' => ~IsAccepted(c)' /\ ~IsCalled(c)'
                 /\ Live' /\ IsDone(c)' => IsCalled(c)'
      BY <1>4, <1>8, <1>9, <1>10, <1>a, <1>13, <2>0 DEF ToldOnce
    <3> QED BY <1>a, <3>1 DEF ToldOnce
  <2>3. TrueCallbacks'
    BY <1>11 DEF TrueCallbacks
  <2>4. TrueAnswers'
    BY <2>0 DEF TrueAnswers, SameWrites, WasWritten
  <2> QED BY <2>1, <2>3, <2>4 DEF Told
<1>19. ASSUME ~CallsInFailure PROVE FailsNext' /\ (Finishes' => AllWritten')
  <2>1. FailsNext /\ (Finishes => AllWritten)
    BY <1>19 DEF WInv
  <2>2. FailsNext'
    <3>1. ASSUME Live, NEW k \in DOMAIN done, done[k].err
          PROVE  FALSE
      <4>1. PICK n \in DOMAIN stack :
              /\ stack[n].fn = "destroy" /\ stack[n].s = w /\ n \in 1..2
              /\ n = 2 => stack[1].fn = "callback" /\ stack[1].err
        BY <2>1, <3>1 DEF FailsNext
      <4>2. 1 \in DOMAIN stack
        BY <1>0, <4>1, Indexed
      <4> QED BY <3>1, <4>1, <4>2 DEF Live
    <3> QED BY <1>4, <3>1 DEF FailsNext, SameWrites
  <2>4. AllWritten => AllWritten'
    BY <1>4, <1>8 DEF AllWritten, SameWrites
  <2> QED BY <1>19, <2>1, <2>2, <2>4
<1> QED BY <1>7, <1>16, <1>17, <1>18, <1>19 DEF WInv

\* The ticks after a step that adds to them.
LEMMA TicksKept ==
  ASSUME WInv, NEW q, AllTicks(q), ticks' = ticks \o q, IsSeq(ticks), calls' >= calls,
         calls' \in Nat
  PROVE  /\ TickFrames' /\ RefusedOnce' /\ \A c : IsRefused(c)' => IsRefused(c)
         /\ \A c : IsRefused(c) => c \in 1..calls
<1>0. calls \in Nat /\ IsSeq(q) /\ 1..calls \subseteq 1..calls'
  BY UserAssumption DEF WInv, Ordered, WriterState, AllTicks
<1>1. \A i \in DOMAIN q : q[i].fn \in {"flowTick", "readableTick", "maybeRead", "destroy"}
  BY <1>0, Indexed DEF AllTicks
<1>2. ASSUME NEW k \in DOMAIN ticks'
      PROVE  \/ k \in DOMAIN ticks /\ ticks'[k] = ticks[k]
             \/ ticks'[k].fn \in {"flowTick", "readableTick", "maybeRead", "destroy"}
  <2>1. k \in DOMAIN (ticks \o q) /\ ticks'[k] = (ticks \o q)[k]
    OBVIOUS
  <2>2. \/ k \in DOMAIN ticks /\ ticks'[k] = ticks[k]
        \/ \E i \in DOMAIN q : ticks'[k] = q[i]
    BY <1>0, <2>1, JoinedOrigin
  <2> QED BY <1>1, <2>2
<1>3. TickFrames /\ RefusedOnce
  BY DEF WInv, Ordered, Frames, Told
<1>4. TickFrames'
  BY <1>0, <1>2, <1>3 DEF TickFrames
<1>5. ASSUME NEW k \in DOMAIN ticks', ticks'[k].fn = "callback"
      PROVE  k \in DOMAIN ticks /\ ticks'[k] = ticks[k]
  BY <1>2, <1>5
<1>6. \A c : IsRefused(c)' => IsRefused(c)
  BY <1>5 DEF IsRefused, Tells
<1>7. RefusedOnce'
  <2>1. ASSUME NEW k \in DOMAIN ticks', NEW l \in DOMAIN ticks', NEW c \in Numbers,
               Tells(ticks'[k], c), Tells(ticks'[l], c)
        PROVE  k = l
    BY <1>3, <1>5, <2>1 DEF RefusedOnce, Tells
  <2> QED BY <2>1 DEF RefusedOnce, Tells
<1>8. \A c : IsRefused(c) => c \in 1..calls
  BY <1>3 DEF IsRefused, Tells, TickFrames
<1> QED BY <1>4, <1>6, <1>7, <1>8

LEMMA QuietStep ==
  ASSUME WInv, NEW P, NEW d, Shifted(P, d), Bystanders(P),
         1 \in DOMAIN stack =>
           /\ stack[1].fn \notin Immediate \cup {"failWrites"}
           /\ stack[1].fn = "destroy" => stack[1].s # w \/ ws[w].destroyed,
         NEW q, AllTicks(q), ticks' = ticks \o q, IsSeq(ticks),
         SameQueues, SameDebts, calls' >= calls,
         Finishes' => CallsInFailure \/ Finishes \/ AllWritten
  PROVE  WInv'
<1>1. calls' \in Nat /\ SameWrites
  BY QueuesKept, UserAssumption DEF SameQueues, WriterState
<1>2. TickFrames' /\ RefusedOnce' /\ \A c \in Numbers : IsRefused(c)' => ~IsAccepted(c) /\ ~IsCalled(c)
  BY <1>1, TicksKept DEF WInv, Told, ToldOnce
<1>3. \A k \in 1..Len(P) : P[k].fn \notin Immediate \cup {"failWrites", "dropWrites"}
  BY DEF Bystanders, Bystander
<1>4. \A k \in 1..Len(P) : CarriesNext(P[k])
  BY <1>3 DEF CarriesNext, Immediate
<1>5. OneWrite'
  <2>1. OneWrite /\ (Writing(w)' <=> Writing(w))
    BY DEF WInv, Ordered, Writing, SameQueues
  <2>2. 1 \in DOMAIN stack' => stack'[1].fn \notin {"_write", "onwrite"}
    <3>1. ASSUME NEW m \in DOMAIN stack PROVE stack[m].fn \notin Immediate
      BY DEF WInv, Ordered, Frames, StackFrames
    <3> QED BY <1>3, <3>1, Origin DEF Immediate
  <2>3. \A k \in DOMAIN io' : io'[k].fn = "_write" => Writing(w)'
    BY <2>1 DEF OneWrite, SameDebts
  <2> QED BY <2>2, <2>3 DEF OneWrite, SameDebts
<1> QED BY <1>1, <1>2, <1>3, <1>4, <1>5, CalmStep DEF Immediate

LEMMA NoneFinishes ==
  ASSUME NEW P, NEW d, Shifted(P, d), AllQuiet(P),
         Came(w, "finish")' => Finishes,
         \A k \in DOMAIN io' : io'[k].fn = "_final" => \E m \in DOMAIN io : io[m].fn = "_final"
  PROVE  Finishes' => Finishes
<1>1. ASSUME NEW k \in DOMAIN stack', Finishing(stack'[k]) PROVE Finishes
  <2>1. \E m \in DOMAIN stack : stack'[k] = stack[m]
    BY <1>1, Origin DEF AllQuiet, QuietCall
  <2> QED BY <1>1, <2>1 DEF Finishes
<1>2. ASSUME NEW k \in DOMAIN io', io'[k].fn = "_final" PROVE Finishes
  BY <1>2 DEF Finishes
<1> QED BY <1>1, <1>2 DEF Finishes, Finishing, Emits

LEMMA SameState ==
  ASSUME WInv, UNCHANGED <<accepted, done, called, calls>>, ws' = ws
  PROVE  SameQueues
BY DEF WInv, Ordered, SameQueues, WriterState

LEMMA SameIo ==
  ASSUME WInv, io' = io
  PROVE  SameDebts
BY DEF WInv, Ordered, OneWrite, SameDebts

\* Something is added to the ticks, or nothing.
TicksGrow == \E q : AllTicks(q) /\ ticks' = ticks \o q

LEMMA TicksStay ==
  ASSUME IsSeq(ticks), ticks' = ticks
  PROVE  TicksGrow
<1>1. ticks \o <<>> = ticks
  BY ConcatEmptySeq DEF IsSeq
<1>2. AllTicks(<<>>)
  BY Short DEF AllTicks
<1> QED BY <1>1, <1>2 DEF TicksGrow

\* A function that has no part in a write runs, up to its next call.
LEMMA QuietRun ==
  ASSUME Inv, WInv, NEW f, Running(f), f \notin Immediate \cup {"failWrites", "destroy"},
         NEW P, Continue(P), AllQuiet(P), TicksGrow, SameQueues, io' = io,
         calls' = calls, Came(w, "finish")' => Finishes
  PROVE  WInv'
<1>1. IsSeq(stack) /\ stack # <<>> /\ stack[1].fn = f
  BY Top
<1>2. Shifted(P, 1)
  BY <1>1, Replaced DEF AllQuiet
<1>3. Bystanders(P)
  BY DEF AllQuiet, Bystanders, QuietCall
<1>4. PICK q : AllTicks(q) /\ ticks' = ticks \o q
  BY DEF TicksGrow
<1>5. IsSeq(ticks) /\ SameDebts /\ calls' >= calls
  BY SameIo, UserAssumption DEF Inv, Calls, AllPlain, WInv, Ordered, WriterState
<1>6. Finishes' => Finishes
  BY <1>2, NoneFinishes
<1> QED BY <1>1, <1>2, <1>3, <1>4, <1>5, <1>6, QuietStep

LEMMA QuietLists ==
  /\ AllQuiet(<<>>)
  /\ \A a : QuietCall(a) => AllQuiet(<<a>>)
  /\ \A a, b : QuietCall(a) /\ QuietCall(b) => AllQuiet(<<a, b>>)
  /\ \A c, q : AllQuiet(q) => AllQuiet(Then(c, q))
<1>1. AllQuiet(<<>>)
  BY Short DEF AllQuiet
<1>2. ASSUME NEW a, QuietCall(a) PROVE AllQuiet(<<a>>)
  BY <1>2, Short DEF AllQuiet
<1>3. ASSUME NEW a, NEW b, QuietCall(a), QuietCall(b) PROVE AllQuiet(<<a, b>>)
  <2>1. IsSeq(<<a, b>>) /\ Len(<<a, b>>) = 2
    BY Short
  <2>2. \A k \in 1..2 : QuietCall(<<a, b>>[k])
    BY <1>3
  <2> QED BY <2>1, <2>2 DEF AllQuiet
<1>4. ASSUME NEW c, NEW q, AllQuiet(q) PROVE AllQuiet(Then(c, q))
  BY <1>1, <1>4 DEF Then
<1> QED BY <1>1, <1>2, <1>3, <1>4

LEMMA QuietJoined ==
  ASSUME NEW p, NEW q, AllQuiet(p), AllQuiet(q)
  PROVE  AllQuiet(p \o q)
<1>1. IsSeq(p) /\ IsSeq(q) /\ IsSeq(p \o q)
  BY Joined DEF AllQuiet
<1>2. DOMAIN p = 1..Len(p) /\ DOMAIN q = 1..Len(q) /\ DOMAIN (p \o q) = 1..Len(p \o q)
  BY <1>1, Indexed
<1>3. ASSUME NEW k \in DOMAIN (p \o q) PROVE QuietCall((p \o q)[k])
  BY <1>1, <1>2, JoinedOrigin DEF AllQuiet
<1> QED BY <1>1, <1>2, <1>3 DEF AllQuiet

Noisy == Immediate \cup {"failWrites", "dropWrites", "_final", "finalDone", "finish", "emit"}

LEMMA QuietCalls ==
  ASSUME NEW f, NEW s, f \notin Noisy
  PROVE  /\ QuietCall(Call(f, s))
         /\ \A c : QuietCall(CallC(f, s, c))
         /\ \A e : QuietCall(CallE(f, s, e))
<1>1. /\ Call(f, s).fn = f
      /\ \A c : CallC(f, s, c).fn = f
      /\ \A e : CallE(f, s, e).fn = f
  BY DEF Call, CallC, CallE
<1> QED BY <1>1 DEF QuietCall, Bystander, Finishing, Emits, Noisy

LEMMA QuietEvents ==
  ASSUME NEW s, NEW ev, ev # "finish"
  PROVE  QuietCall(Emit(s, ev)) /\ \A c : QuietCall([Emit(s, ev) EXCEPT !.c = c])
<1>1. /\ Emit(s, ev).fn = "emit" /\ Emit(s, ev).ev = ev
      /\ \A c : /\ [Emit(s, ev) EXCEPT !.c = c].fn = "emit"
                /\ [Emit(s, ev) EXCEPT !.c = c].ev = ev
  BY DEF Emit
<1> QED BY <1>1 DEF QuietCall, Bystander, Finishing, Emits, Immediate

-----------------------------------------------------------------------------
(* The readable side. *)

\* A step of the readable side leaves the writable side alone.
LEMMA QuietReader ==
  ASSUME Inv, WInv, NEW f, Running(f), f \notin Noisy \cup {"destroy"},
         NEW P, Continue(P), AllQuiet(P), TicksGrow \/ ticks' = ticks, Observe,
         UNCHANGED <<ws, emitted, calls, io, called>>
  PROVE  WInv'
<1>1. accepted' = accepted /\ done' = done
  BY DEF Observe, Running, Noisy, Immediate
<1>2. SameQueues
  BY <1>1, SameState
<1>3. Came(w, "finish")' => Finishes
  BY DEF Came, Finishes
<1>4. TicksGrow
  BY TicksStay DEF Inv, Calls, AllPlain
<1> QED BY <1>2, <1>3, <1>4, QuietRun DEF Noisy

LEMMA FlowScheduled ==
  ASSUME NEW s, NEW st, NEW a
  PROVE  AllTicks(Then(a, ScheduleFlow(s, st)))
<1>1. AllTicks(<<>>) /\ AllTicks(<<Call("flowTick", s)>>)
  BY Short DEF AllTicks, Call
<1> QED BY <1>1 DEF Then, ScheduleFlow

LEMMA TicksJoined ==
  ASSUME NEW p, NEW q, AllTicks(p), AllTicks(q)
  PROVE  AllTicks(p \o q)
<1>1. IsSeq(p) /\ IsSeq(q) /\ IsSeq(p \o q)
  BY Joined DEF AllTicks
<1>2. DOMAIN p = 1..Len(p) /\ DOMAIN q = 1..Len(q) /\ DOMAIN (p \o q) = 1..Len(p \o q)
  BY <1>1, Indexed
<1>3. ASSUME NEW k \in DOMAIN (p \o q)
      PROVE  (p \o q)[k].fn \in {"flowTick", "readableTick", "maybeRead", "destroy"}
  BY <1>1, <1>2, JoinedOrigin DEF AllTicks
<1> QED BY <1>1, <1>2, <1>3 DEF AllTicks

LEMMA PushIsQuiet ==
  ASSUME Inv, WInv, Push, Observe, UNCHANGED <<calls, io, called>>
  PROVE  WInv'
<1>1. Running("push") /\ UNCHANGED <<ws, emitted>>
  BY DEF Push
<1>2. PICK P : Continue(P) /\ AllQuiet(P)
  <2>1. \A s : AllQuiet(EndIfDrained(s))
    BY QuietCalls, QuietLists DEF EndIfDrained, Noisy, Immediate
  <2> QED BY <2>1, QuietLists DEF Push
<1>3. TicksGrow \/ ticks' = ticks
  <2>1. ASSUME NEW s, NEW st, NEW a, NEW b,
               ticks' = ticks \o Then(a, ScheduleFlow(s, st)) \o Then(b, <<Call("readableTick", s)>>)
        PROVE  TicksGrow
    <3>1. PICK p : p = Then(a, ScheduleFlow(s, st))
      OBVIOUS
    <3>2. PICK q : q = Then(b, <<Call("readableTick", s)>>)
      OBVIOUS
    <3>3. AllTicks(p) /\ AllTicks(q)
      <4>1. AllTicks(<<>>) /\ AllTicks(<<Call("readableTick", s)>>)
        BY Short DEF AllTicks, Call
      <4> QED BY <3>1, <3>2, <4>1, FlowScheduled DEF Then
    <3>4. IsSeq(ticks) /\ IsSeq(p) /\ IsSeq(q)
      BY <3>3 DEF AllTicks, Inv, Calls, AllPlain
    <3>5. PICK T : ticks \in Seq(T) /\ p \in Seq(T) /\ q \in Seq(T)
      <4>1. PICK A, B, C : ticks \in Seq(A) /\ p \in Seq(B) /\ q \in Seq(C)
        BY <3>4 DEF IsSeq
      <4>2. A \subseteq A \cup B \cup C /\ B \subseteq A \cup B \cup C /\ C \subseteq A \cup B \cup C
        OBVIOUS
      <4>3. PICK T : T = A \cup B \cup C
        OBVIOUS
      <4>4. ticks \in Seq(T) /\ p \in Seq(T) /\ q \in Seq(T)
        BY <4>1, <4>2, <4>3, SeqMonotonic
      <4> QED BY <4>4
    <3>6. (ticks \o p) \o q = ticks \o (p \o q)
      BY <3>5, ConcatAssociative
    <3> QED BY <2>1, <3>1, <3>2, <3>3, <3>6, TicksJoined DEF TicksGrow
  <2>2. \/ ticks' = ticks
        \/ \E s, st, a, b : ticks' = ticks \o Then(a, ScheduleFlow(s, st))
                                          \o Then(b, <<Call("readableTick", s)>>)
    BY Zenon DEF Push
  <2> QED BY <2>1, <2>2
<1> QED BY <1>1, <1>2, <1>3, QuietReader DEF Noisy, Immediate

LEMMA ReadableIsQuiet ==
  ASSUME Inv, WInv, ReadableStep, Observe, UNCHANGED <<calls, io, called>>
  PROVE  WInv'
<1> DEFINE Ran(f) == /\ Running(f) /\ UNCHANGED <<ws, emitted, ticks>>
                     /\ \E P : Continue(P) /\ AllQuiet(P)
<1>0. ASSUME NEW f, Ran(f), f \notin Noisy \cup {"destroy"} PROVE WInv'
  BY <1>0, QuietReader
<1>1. ASSUME NEW s
      PROVE  /\ AllQuiet(<<Call("_read", s)>>) /\ AllQuiet(<<Call("flow", s)>>)
             /\ AllQuiet(<<Call("emitEnd", s)>>)
             /\ QuietCall(Call("flow", s)) /\ QuietCall(Call("autoDestroy", s))
             /\ QuietCall(Call("maybeRead", s)) /\ QuietCall(Call("flowMore", s))
  BY QuietCalls, QuietLists DEF Noisy, Immediate
<1>2. CASE MaybeRead
  <2>1. PICK a, s : Continue(Then(a, <<Call("_read", s)>>))
    BY <1>2, Zenon DEF MaybeRead
  <2>2. Ran("maybeRead")
    BY <1>1, <1>2, <2>1, QuietLists DEF MaybeRead
  <2> QED BY <1>0, <2>2 DEF Noisy, Immediate
<1>3. CASE FlowTick
  <2>1. Ran("flowTick")
    BY <1>1, <1>3 DEF FlowTick
  <2> QED BY <1>0, <2>1 DEF Noisy, Immediate
<1>4. CASE Flow
  <2>1. \A s, c : QuietCall([Emit(s, "data") EXCEPT !.c = c])
    BY QuietEvents
  <2>2. \/ Continue(<<>>)
        \/ \E s, c : Continue(<<[Emit(s, "data") EXCEPT !.c = c], Call("flow", s)>>)
        \/ \E s : Continue(<<Call("emitEnd", s)>>)
        \/ \E s : Continue(<<Call("maybeRead", s), Call("flowMore", s)>>)
    BY <1>4, Zenon DEF Flow
  <2>3. ASSUME NEW s, NEW c
        PROVE  /\ AllQuiet(<<[Emit(s, "data") EXCEPT !.c = c], Call("flow", s)>>)
               /\ AllQuiet(<<Call("maybeRead", s), Call("flowMore", s)>>)
    <3>1. PICK a : a = [Emit(s, "data") EXCEPT !.c = c]
      OBVIOUS
    <3>2. QuietCall(a) /\ QuietCall(Call("flow", s))
      BY <1>1, <2>1, <3>1
    <3>3. AllQuiet(<<a, Call("flow", s)>>)
      BY <3>2, QuietLists
    <3>4. AllQuiet(<<Call("maybeRead", s), Call("flowMore", s)>>)
      BY <1>1, QuietLists
    <3> QED BY <3>1, <3>3, <3>4
  <2>4. \E P : Continue(P) /\ AllQuiet(P)
    BY <1>1, <2>2, <2>3, QuietLists, Zenon
  <2>5. Ran("flow")
    BY <1>4, <2>4 DEF Flow
  <2> QED BY <1>0, <2>5 DEF Noisy, Immediate
<1>5. CASE FlowMore
  <2>1. PICK a, s : Continue(Then(a, <<Call("flow", s)>>))
    BY <1>5, Zenon DEF FlowMore
  <2>2. Ran("flowMore")
    BY <1>1, <1>5, <2>1, QuietLists DEF FlowMore
  <2> QED BY <1>0, <2>2 DEF Noisy, Immediate
<1>6. CASE ReadableTick
  <2>1. PICK a, s : Continue(Then(a, <<Emit(s, "readable")>>))
    BY <1>6, Zenon DEF ReadableTick
  <2>2. AllQuiet(<<Emit(s, "readable")>>)
    BY QuietEvents, QuietLists
  <2>3. Ran("readableTick")
    BY <1>6, <2>1, <2>2, QuietLists DEF ReadableTick
  <2> QED BY <1>0, <2>3 DEF Noisy, Immediate
<1>7. CASE EmitEnd
  <2>1. PICK a, s : Continue(Then(a, <<Emit(s, "end"), Call("autoDestroy", s)>>))
    BY <1>7, Zenon DEF EmitEnd
  <2>2. AllQuiet(<<Emit(s, "end"), Call("autoDestroy", s)>>)
    <3>1. QuietCall(Emit(s, "end")) /\ QuietCall(Call("autoDestroy", s))
      BY <1>1, QuietEvents
    <3> QED BY <3>1, QuietLists
  <2>3. Ran("emitEnd")
    BY <1>7, <2>1, <2>2, QuietLists DEF EmitEnd
  <2> QED BY <1>0, <2>3 DEF Noisy, Immediate
<1> QED BY <1>2, <1>3, <1>4, <1>5, <1>6, <1>7, PushIsQuiet DEF ReadableStep

LEMMA ReaderCallIsQuiet ==
  ASSUME Inv, WInv, ReaderCall, Observe, UNCHANGED <<calls, io, called>>
  PROVE  WInv'
<1> DEFINE Ran(f) == /\ Running(f) /\ UNCHANGED <<ws, emitted>>
                     /\ TicksGrow \/ ticks' = ticks
                     /\ \E P : Continue(P) /\ AllQuiet(P)
<1>0. ASSUME NEW f, Ran(f), f \notin Noisy \cup {"destroy"} PROVE WInv'
  BY <1>0, QuietReader
<1>1. ASSUME NEW s
      PROVE  /\ AllQuiet(<<Call("maybeRead", s)>>) /\ AllQuiet(<<Call("emitEnd", s)>>)
             /\ AllQuiet(<<Call("afterRead", s)>>)
  BY QuietCalls, QuietLists DEF Noisy, Immediate
<1>2. \A s, st, a : ticks' = ticks \o Then(a, ScheduleFlow(s, st)) => TicksGrow
  BY FlowScheduled DEF TicksGrow
<1>3. CASE Read
  <2>1. \/ \E s : Continue(<<Call("emitEnd", s)>>) \/ Continue(<<Call("maybeRead", s)>>)
        \/ \E s, a : Continue(Then(a, <<Call("maybeRead", s)>>) \o <<Call("afterRead", s)>>)
    BY <1>3, Zenon DEF Read
  <2>2. \A s, a : AllQuiet(Then(a, <<Call("maybeRead", s)>>) \o <<Call("afterRead", s)>>)
    BY <1>1, QuietLists, QuietJoined
  <2>3. \E P : Continue(P) /\ AllQuiet(P)
    BY <1>1, <2>1, <2>2, Zenon
  <2>4. Ran("read")
    BY <1>3, <2>3 DEF Read
  <2> QED BY <1>0, <2>4 DEF Noisy, Immediate
<1>4. CASE AfterRead
  <2>1. PICK a, s : Continue(Then(a, <<Call("emitEnd", s)>>))
    BY <1>4, Zenon DEF AfterRead
  <2>2. Ran("afterRead")
    BY <1>1, <1>4, <2>1, QuietLists DEF AfterRead
  <2> QED BY <1>0, <2>2 DEF Noisy, Immediate
<1>5. CASE Unshift
  <2>1. Ran("unshift")
    BY <1>5, QuietLists DEF Unshift
  <2> QED BY <1>0, <2>1 DEF Noisy, Immediate
<1>6. CASE On
  <2>1. \/ ticks' = ticks
        \/ \E s, st, a : ticks' = ticks \o Then(a, ScheduleFlow(s, st))
        \/ \E s : ticks' = Append(ticks, Call("maybeRead", s))
    BY <1>6 DEF On, Resume
  <2>2. ASSUME NEW s, ticks' = Append(ticks, Call("maybeRead", s)) PROVE TicksGrow
    <3>1. AllTicks(<<Call("maybeRead", s)>>)
      BY Short DEF AllTicks, Call
    <3>2. PICK T : ticks \in Seq(T) /\ Call("maybeRead", s) \in T
      <4>1. PICK T : ticks \in Seq(T)
        BY DEF Inv, Calls, AllPlain, IsSeq
      <4>2. ticks \in Seq(T \cup {Call("maybeRead", s)})
        BY <4>1, SeqMonotonic
      <4> QED BY <4>2
    <3>3. ticks' = ticks \o <<Call("maybeRead", s)>>
      BY <2>2, <3>2, AppendIsConcat
    <3> QED BY <3>1, <3>3 DEF TicksGrow
  <2>3. Ran("on")
    BY <1>2, <1>6, <2>1, <2>2, QuietLists DEF On
  <2> QED BY <1>0, <2>3 DEF Noisy, Immediate
<1>7. CASE RemoveListener
  <2>1. Ran("off")
    BY <1>7, QuietLists DEF RemoveListener
  <2> QED BY <1>0, <2>1 DEF Noisy, Immediate
<1>8. CASE PauseCall
  <2>1. Ran("pause")
    BY <1>8, QuietLists DEF PauseCall, Pause
  <2> QED BY <1>0, <2>1 DEF Noisy, Immediate
<1>9. CASE ResumeCall
  <2>1. Ran("resume")
    BY <1>2, <1>9, QuietLists DEF ResumeCall, Resume
  <2> QED BY <1>0, <2>1 DEF Noisy, Immediate
<1> QED BY <1>3, <1>4, <1>5, <1>6, <1>7, <1>8, <1>9 DEF ReaderCall

\* An event is emitted.
LEMMA EmitIsQuiet ==
  ASSUME Inv, WInv, EmitStep, Observe, UNCHANGED <<calls, io, called>>
  PROVE  WInv'
<1>1. Running("emit") /\ UNCHANGED <<ws, ticks>>
  BY DEF EmitStep
<1>2. accepted' = accepted /\ done' = done
  BY <1>1 DEF Observe, Running
<1>3. PICK s, ev, list : s = top.s /\ ev = top.ev /\ list = listeners[s][ev]
  OBVIOUS
<1>4. s \in Streams /\ ev \in Events /\ 1 \in DOMAIN stack /\ top = stack[1] /\ top.fn = "emit"
  BY <1>1, <1>3, Top DEF Known
<1>5. IsSeq(list) /\ \A k \in DOMAIN list : Listener(list[k])
  BY <1>3, <1>4 DEF Inv, Calls, Listening
<1>6. PICK P : P = [i \in DOMAIN list |-> Notified(list[i], top)]
  OBVIOUS
<1>7. Continue(P)
  BY <1>3, <1>6 DEF EmitStep
<1>8. AllQuiet(P)
  <2>1. IsSeq(P)
    BY <1>3, <1>4, <1>6, Notices DEF AllPlain
  <2>2. DOMAIN P = 1..Len(P) /\ DOMAIN P = DOMAIN list
    BY <1>6, <2>1, Indexed
  <2>3. ASSUME NEW k \in DOMAIN list PROVE QuietCall(P[k])
    <3>1. PICK l : l = list[k]
      OBVIOUS
    <3>2. Listener(l) /\ P[k] = Notified(l, top)
      BY <1>5, <1>6, <3>1
    <3>3. P[k].fn = l.fn
      BY <3>2 DEF Notified, Listener
    <3> QED BY <3>2, <3>3 DEF Listener, QuietCall, Bystander, Finishing, Emits, Immediate
  <2> QED BY <2>1, <2>2, <2>3 DEF AllQuiet
<1>9. Came(w, "finish")' => Finishes
  <2>1. CASE ev \in Lifecycle /\ s = w /\ ev = "finish"
    BY <1>3, <1>4, <2>1 DEF Finishes, Finishing, Emits
  <2>2. CASE ~(ev \in Lifecycle /\ s = w /\ ev = "finish")
    <3>1. CASE ev \in Lifecycle
      <4>1. emitted' = [emitted EXCEPT ![s] = Append(@, ev)]
        BY <1>3, <3>1 DEF EmitStep
      <4>2. \A e : Came(s, e)' <=> Came(s, e) \/ e = ev
        BY <1>4, <3>1, <4>1, Recorded
      <4>3. \A x \in Streams \ {s} : emitted'[x] = emitted[x]
        BY <1>4, <3>1, <4>1, Recorded
      <4> QED BY <2>2, <3>1, <4>2, <4>3, OneStream DEF Came, Finishes
    <3>2. CASE ev \notin Lifecycle
      BY <1>3, <3>2 DEF EmitStep, Came, Finishes
    <3> QED BY <3>1, <3>2
  <2> QED BY <2>1, <2>2
<1>10. SameQueues /\ TicksGrow
  BY <1>1, <1>2, SameState, TicksStay DEF Inv, Calls, AllPlain
<1> QED BY <1>1, <1>7, <1>8, <1>9, <1>10, QuietRun DEF Immediate

-----------------------------------------------------------------------------
(* The steps of the writable side that leave its queues alone. *)

LEMMA WriterRuns ==
  ASSUME Inv, NEW f \in WriterCalls, Running(f)
  PROVE  /\ top.s = w /\ top = stack[1] /\ 1 \in DOMAIN stack /\ stack[1].fn = f
         /\ IsSeq(stack) /\ stack # <<>>
BY Top, UserAssumption DEF Known

LEMMA QueueFields ==
  ASSUME Inv, WInv, UNCHANGED <<accepted, done, called, calls>>
  PROVE  /\ \A a : ws' = [ws EXCEPT ![w].needDrain = a] => SameQueues
         /\ \A a : ws' = [ws EXCEPT ![w].finished = a] => SameQueues
         /\ \A a \in BOOLEAN : (ws[w].ended => a) /\ ws' = [ws EXCEPT ![w].ended = a] => SameQueues
         /\ ws' = [ws EXCEPT ![w].corked = @ + 1] => SameQueues
         /\ \A s, a : ws' = [x \in Writers |-> IF x = s THEN [ws[x] EXCEPT !.errored = a] ELSE ws[x]]
                        => SameQueues
<1>0. /\ WriterState /\ (ws[w].corked = 0 => ws[w].corkedBuffer = <<>>)
      /\ DOMAIN ws = Writers /\ w \in Writers
  BY OneStream DEF Inv, States, WInv, Ordered
<1> USE <1>0 DEF WriterState, SameQueues
<1>1. ASSUME NEW a, ws' = [ws EXCEPT ![w].needDrain = a] PROVE SameQueues
  BY <1>1
<1>2. ASSUME NEW a, ws' = [ws EXCEPT ![w].finished = a] PROVE SameQueues
  BY <1>2
<1>3. ASSUME NEW a \in BOOLEAN, ws[w].ended => a, ws' = [ws EXCEPT ![w].ended = a] PROVE SameQueues
  BY <1>3
<1>4. ASSUME ws' = [ws EXCEPT ![w].corked = @ + 1] PROVE SameQueues
  BY <1>4
<1>5. ASSUME NEW s, NEW a,
             ws' = [x \in Writers |-> IF x = s THEN [ws[x] EXCEPT !.errored = a] ELSE ws[x]]
      PROVE  SameQueues
  BY <1>5
<1> HIDE <1>0 DEF WriterState, SameQueues
<1> QED BY <1>1, <1>2, <1>3, <1>4, <1>5

\* A step of the writable side that starts and answers no write.
LEMMA QuietWriter ==
  ASSUME Inv, WInv, NEW f, Running(f), f \notin Noisy \cup {"destroy"},
         NEW P, Continue(P), AllQuiet(P), SameQueues,
         UNCHANGED <<ticks, emitted, calls, io>>
  PROVE  WInv'
<1>1. Came(w, "finish")' => Finishes
  BY DEF Came, Finishes
<1>2. TicksGrow
  BY TicksStay DEF Inv, Calls, AllPlain
<1> QED BY <1>1, <1>2, QuietRun DEF Noisy

LEMMA WrittenIsQuiet ==
  ASSUME Inv, WInv, Written, Observe, UNCHANGED <<calls, io, called>>
  PROVE  WInv'
<1>1. Running("written") /\ top.s = w
  BY WriterRuns DEF Written, WriterCalls
<1>2. accepted' = accepted /\ done' = done
  BY <1>1 DEF Observe, Running
<1>3. \E a : ws' = [ws EXCEPT ![w].needDrain = a]
  BY <1>1, Zenon DEF Written
<1>4. SameQueues
  BY <1>2, <1>3, QueueFields
<1> QED BY <1>1, <1>4, QuietLists, QuietWriter DEF Written, Noisy, Immediate

LEMMA AfterWriteIsQuiet ==
  ASSUME Inv, WInv, AfterWrite, Observe, UNCHANGED <<calls, io, called>>
  PROVE  WInv'
<1>1. Running("afterWrite") /\ top.s = w
  BY WriterRuns DEF AfterWrite, WriterCalls
<1>2. accepted' = accepted /\ done' = done
  BY <1>1 DEF Observe, Running
<1>3. \E a : ws' = [ws EXCEPT ![w].needDrain = a]
  BY <1>1, Zenon DEF AfterWrite
<1>4. SameQueues
  BY <1>2, <1>3, QueueFields
<1>5. PICK P : Continue(P) /\ AllQuiet(P)
  <2>1. AllQuiet(<<Call("doWrite", w)>>) /\ AllQuiet(<<Call("maybeFinish", w)>>)
    BY QuietCalls, QuietLists DEF Noisy, Immediate
  <2>2. AllQuiet(<<Emit(w, "drain")>>)
    BY QuietLists, QuietEvents
  <2>3. \A a : AllQuiet(Then(a, <<Emit(w, "drain")>>) \o <<Call("maybeFinish", w)>>)
    BY <2>1, <2>2, QuietLists, QuietJoined
  <2>4. \/ Continue(<<>>) \/ Continue(<<Call("doWrite", w)>>)
        \/ \E a : Continue(Then(a, <<Emit(w, "drain")>>) \o <<Call("maybeFinish", w)>>)
    BY <1>1, Zenon DEF AfterWrite
  <2> QED BY <2>1, <2>3, <2>4, QuietLists
<1> QED BY <1>1, <1>4, <1>5, QuietWriter DEF AfterWrite, Noisy, Immediate

LEMMA EndIsQuiet ==
  ASSUME Inv, WInv, End, Observe, UNCHANGED <<calls, io, called>>
  PROVE  WInv'
<1>1. Running("end") /\ top.s = w
  BY WriterRuns DEF End, WriterCalls
<1>2. accepted' = accepted /\ done' = done
  BY <1>1 DEF Observe, Running
<1>3. PICK a : ws' = [ws EXCEPT ![w].ended = a] /\ a = (ws[w].ended \/ (~ws[w].destroyed /\ ~ws[w].ended))
  BY <1>1 DEF End
<1>4. a \in BOOLEAN /\ (ws[w].ended => a)
  BY <1>3 DEF WInv, Ordered, WriterState
<1>5. SameQueues
  BY <1>2, <1>3, <1>4, QueueFields
<1>6. PICK P : Continue(P) /\ AllQuiet(P)
  <2>1. AllQuiet(<<Call("maybeFinish", w)>>)
    BY QuietCalls, QuietLists DEF Noisy, Immediate
  <2>2. \E b : Continue(Then(b, <<Call("maybeFinish", w)>>))
    BY <1>1, Zenon DEF End
  <2> QED BY <2>1, <2>2, QuietLists
<1> QED BY <1>1, <1>5, <1>6, QuietWriter DEF End, Noisy, Immediate

LEMMA CorkIsQuiet ==
  ASSUME Inv, WInv, Cork, Observe, UNCHANGED <<calls, io, called>>
  PROVE  WInv'
<1>1. Running("cork") /\ top.s = w
  BY WriterRuns DEF Cork, WriterCalls
<1>2. accepted' = accepted /\ done' = done
  BY <1>1 DEF Observe, Running
<1>3. ws' = [ws EXCEPT ![w].corked = @ + 1]
  BY <1>1 DEF Cork
<1>4. SameQueues
  BY <1>2, <1>3, QueueFields
<1> QED BY <1>1, <1>4, QuietLists, QuietWriter DEF Cork, Noisy, Immediate

LEMMA AutoDestroyIsQuiet ==
  ASSUME Inv, WInv, AutoDestroy, Observe, UNCHANGED <<calls, io, called>>
  PROVE  WInv'
<1>1. Running("autoDestroy") /\ UNCHANGED <<ws, emitted>> /\ Continue(<<>>)
  BY DEF AutoDestroy
<1>2. TicksGrow
  <2>1. PICK s, a : ticks' = ticks \o Then(a, <<CallE("destroy", s, FALSE)>>)
    BY Zenon DEF AutoDestroy
  <2>2. AllTicks(<<>>) /\ AllTicks(<<CallE("destroy", s, FALSE)>>)
    BY Short DEF AllTicks, CallE
  <2>3. AllTicks(Then(a, <<CallE("destroy", s, FALSE)>>))
    BY <2>2 DEF Then
  <2> QED BY <2>1, <2>3 DEF TicksGrow
<1> QED BY <1>1, <1>2, QuietLists, QuietReader DEF Noisy, Immediate

LEMMA ClosedIsQuiet ==
  ASSUME Inv, WInv, Closed, Observe, UNCHANGED <<calls, io, called>>
  PROVE  WInv'
<1>1. Running("closed") /\ UNCHANGED <<ticks, emitted>>
  BY DEF Closed
<1>2. accepted' = accepted /\ done' = done
  BY <1>1 DEF Observe, Running
<1>3. PICK s, err : s = top.s /\ err = top.err
  OBVIOUS
<1>4. SameQueues
  <2>1. ws' = [x \in Writers |-> IF x = s THEN [ws[x] EXCEPT !.errored = @ \/ err] ELSE ws[x]]
    BY <1>3, Zenon DEF Closed
  <2>2. ws' = [x \in Writers |-> IF x = s THEN [ws[x] EXCEPT !.errored = ws[s].errored \/ err] ELSE ws[x]]
    BY <2>1
  <2> QED BY <1>2, <2>2, QueueFields
<1>5. PICK P : Continue(P) /\ AllQuiet(P)
  <2>1. PICK a : a = [Emit(s, "error") EXCEPT !.err = TRUE]
    OBVIOUS
  <2>2. a.fn = "emit" /\ a.ev = "error"
    BY <2>1 DEF Emit
  <2>3. QuietCall(a)
    BY <2>2 DEF QuietCall, Bystander, Finishing, Emits, Immediate
  <2>4. Continue(Then(err, <<a>>) \o <<Emit(s, "close")>>)
    BY <1>3, <2>1 DEF Closed
  <2>5. AllQuiet(Then(err, <<a>>)) /\ AllQuiet(<<Emit(s, "close")>>)
    BY <2>3, QuietEvents, QuietLists
  <2> QED BY <2>4, <2>5, QuietJoined
<1> QED BY <1>1, <1>4, <1>5, QuietWriter DEF Noisy, Immediate

LEMMA AllAnswered ==
  ASSUME WInv, ~CallsInFailure, Live, ws[w].ended, Flushed(w), IsSeq(stack),
         1 \in DOMAIN stack, stack[1].fn \notin {"destroy", "callback"}
  PROVE  AllWritten
<1>1. Current = <<>> /\ ws[w].pending = <<>> /\ ws[w].corkedBuffer = <<>> /\ done \in Seq(Reply)
  BY DEF Current, Then, Flushed, WInv, Ordered, WriterState
<1>2. accepted = Chunks(done)
  <2>1. accepted = Chunks(done \o Current \o ws[w].pending \o ws[w].corkedBuffer)
    BY DEF WInv, Ordered, WritesKeepOrder, Live
  <2>2. done \o Current \o ws[w].pending \o ws[w].corkedBuffer = done
    BY <1>1, ConcatEmptySeq
  <2> QED BY <2>1, <2>2
<1>3. ASSUME NEW k \in DOMAIN done PROVE ~done[k].err
  BY <1>3 DEF WInv, FailsNext
<1>4. ASSUME NEW k \in DOMAIN done PROVE IsCalled(done[k].c)
  <2>0. done[k] \in Reply
    BY <1>1
  <2>1. done[k].c \in Numbers /\ IsDone(done[k].c)
    BY <2>0 DEF Reply, IsDone
  <2>2. ~IsTold(done[k].c)
    BY DEF IsTold, Tells, WInv, Ordered, Frames, StackFrames, Immediate
  <2> QED BY <2>1, <2>2 DEF WInv, Told, ToldOnce
<1> QED BY <1>1, <1>2, <1>3, <1>4 DEF AllWritten, Flushed

\* A step of the writable side towards 'finish'.
LEMMA FinishingRun ==
  ASSUME Inv, WInv, NEW f \in WriterCalls, Running(f),
         f \notin Immediate \cup {"failWrites", "destroy"},
         NEW P, Continue(P), Bystanders(P), SameQueues,
         UNCHANGED <<ticks, calls, io>>,
         Finishes' => CallsInFailure \/ Finishes \/ AllWritten
  PROVE  WInv'
<1>1. IsSeq(stack) /\ stack # <<>> /\ stack[1].fn = f /\ IsSeq(ticks)
  BY WriterRuns DEF Inv, Calls, AllPlain
<1>2. Shifted(P, 1)
  BY <1>1, Replaced DEF Bystanders
<1>3. PICK q : AllTicks(q) /\ ticks' = ticks \o q
  BY <1>1, TicksStay DEF TicksGrow
<1>4. SameDebts /\ calls' >= calls
  BY SameIo DEF WInv, Ordered, WriterState
<1> QED BY <1>1, <1>2, <1>3, <1>4, QuietStep

LEMMA BystanderLists ==
  /\ Bystanders(<<>>)
  /\ \A a : Bystander(a) => Bystanders(<<a>>)
  /\ \A a, b : Bystander(a) /\ Bystander(b) => Bystanders(<<a, b>>)
  /\ \A c, q : Bystanders(q) => Bystanders(Then(c, q))
<1>1. Bystanders(<<>>)
  BY Short DEF Bystanders
<1>2. ASSUME NEW a, Bystander(a) PROVE Bystanders(<<a>>)
  BY <1>2, Short DEF Bystanders
<1>3. ASSUME NEW a, NEW b, Bystander(a), Bystander(b) PROVE Bystanders(<<a, b>>)
  <2>1. IsSeq(<<a, b>>) /\ Len(<<a, b>>) = 2
    BY Short
  <2>2. \A k \in 1..2 : Bystander(<<a, b>>[k])
    BY <1>3
  <2> QED BY <2>1, <2>2 DEF Bystanders
<1>4. ASSUME NEW c, NEW q, Bystanders(q) PROVE Bystanders(Then(c, q))
  BY <1>1, <1>4 DEF Then
<1> QED BY <1>1, <1>2, <1>3, <1>4

LEMMA MaybeFinishIsQuiet ==
  ASSUME Inv, WInv, MaybeFinish, Observe, UNCHANGED <<calls, io, called>>
  PROVE  WInv'
<1>1. /\ Running("maybeFinish") /\ top.s = w /\ UNCHANGED <<ws, ticks, emitted>>
      /\ IsSeq(stack) /\ stack # <<>> /\ 1 \in DOMAIN stack /\ stack[1].fn = "maybeFinish"
  BY WriterRuns DEF MaybeFinish, WriterCalls
<1>2. accepted' = accepted /\ done' = done
  BY <1>1 DEF Observe, Running
<1>3. SameQueues
  BY <1>1, <1>2, SameState
<1>4. PICK f : f = CASE w \in Transforms -> "_flush"
                     [] w \in CustomFinal -> "_final"
                     [] OTHER -> "finish"
  OBVIOUS
<1>5. PICK due : due = (ws[w].ended /\ ~ws[w].finished /\ ~ws[w].destroyed /\ Flushed(w))
  OBVIOUS
<1>6. f \in {"_flush", "_final", "finish"} /\ Continue(Then(due, <<Call(f, w)>>))
  BY <1>1, <1>4, <1>5 DEF MaybeFinish
<1>7. Bystanders(Then(due, <<Call(f, w)>>))
  <2>1. Bystander(Call(f, w))
    BY <1>6 DEF Bystander, Call, Immediate
  <2> QED BY <2>1, BystanderLists
<1>8. Finishes' => CallsInFailure \/ Finishes \/ AllWritten
  <2>1. CASE due
    BY <1>1, <1>5, <2>1, AllAnswered DEF Live
  <2>2. CASE ~due
    <3>1. Continue(<<>>)
      BY <1>6, <2>2 DEF Then
    <3>2. Shifted(<<>>, 1)
      BY <1>1, <3>1, Replaced, Short
    <3> QED BY <1>1, <3>2, QuietLists, NoneFinishes DEF Came, Finishes
  <2> QED BY <2>1, <2>2
<1> QED BY <1>1, <1>3, <1>6, <1>7, <1>8, FinishingRun DEF WriterCalls, Immediate

LEMMA FinalDoneIsQuiet ==
  ASSUME Inv, WInv, FinalDone, Observe, UNCHANGED <<calls, io, called>>
  PROVE  WInv'
<1>1. /\ Running("finalDone") /\ top.s = w /\ UNCHANGED <<ws, ticks, emitted>>
      /\ 1 \in DOMAIN stack /\ stack[1].fn = "finalDone"
  BY WriterRuns DEF FinalDone, WriterCalls
<1>2. accepted' = accepted /\ done' = done
  BY <1>1 DEF Observe, Running
<1>3. SameQueues
  BY <1>1, <1>2, SameState
<1>4. Finishes
  BY <1>1 DEF Finishes, Finishing
<1>5. PICK P : Continue(P) /\ Bystanders(P)
  <2>1. Bystander(CallE("destroy", w, TRUE)) /\ Bystander(Call("finish", w))
    BY DEF Bystander, Call, CallE, Immediate
  <2>2. Continue(<<CallE("destroy", w, TRUE)>>) \/ Continue(<<Call("finish", w)>>)
    BY <1>1 DEF FinalDone
  <2> QED BY <2>1, <2>2, BystanderLists
<1> QED BY <1>1, <1>3, <1>4, <1>5, FinishingRun DEF WriterCalls, Immediate

LEMMA FinishIsQuiet ==
  ASSUME Inv, WInv, Finish, Observe, UNCHANGED <<calls, io, called>>
  PROVE  WInv'
<1>1. /\ Running("finish") /\ top.s = w /\ UNCHANGED <<ticks, emitted>>
      /\ 1 \in DOMAIN stack /\ stack[1].fn = "finish"
  BY WriterRuns DEF Finish, WriterCalls
<1>2. accepted' = accepted /\ done' = done
  BY <1>1 DEF Observe, Running
<1>3. SameQueues
  <2>1. \E a : ws' = [ws EXCEPT ![w].finished = a]
    BY <1>1, Zenon DEF Finish
  <2> QED BY <1>2, <2>1, QueueFields
<1>4. Finishes
  BY <1>1 DEF Finishes, Finishing
<1>5. PICK P : Continue(P) /\ Bystanders(P)
  <2>1. Bystander(Emit(w, "finish")) /\ Bystander(Call("autoDestroy", w))
    BY DEF Bystander, Call, Emit, Immediate
  <2>2. Bystanders(<<Emit(w, "finish"), Call("autoDestroy", w)>>)
    BY <2>1, BystanderLists
  <2>3. PICK a : Continue(Then(a, <<Emit(w, "finish"), Call("autoDestroy", w)>>))
    BY <1>1, Zenon DEF Finish
  <2> QED BY <2>2, <2>3, BystanderLists
<1> QED BY <1>1, <1>3, <1>4, <1>5, FinishingRun DEF WriterCalls, Immediate

-----------------------------------------------------------------------------
(* User code and the iterator. *)

LEMMA QuietOutside ==
  ASSUME Inv, WInv, NEW f, Running(f), f \notin Noisy \cup {"destroy"},
         NEW P, Continue(P), AllQuiet(P),
         UNCHANGED <<ws, ticks, emitted, calls, io, accepted, done, called>>
  PROVE  WInv'
<1>1. SameQueues
  BY SameState
<1> QED BY <1>1, QuietWriter

LEMMA UserCodeIsQuiet ==
  ASSUME Inv, WInv, UserReturns \/ DataArrives
  PROVE  WInv'
<1>1. AllQuiet(<<User(r)>>)
  BY QuietCalls, QuietLists DEF User, Noisy, Immediate
<1>2. CASE UserReturns
  BY <1>2, QuietLists, QuietOutside DEF UserReturns, userVars, Noisy, Immediate
<1>3. CASE DataArrives
  BY <1>1, <1>3, QuietOutside DEF DataArrives, Noisy, Immediate
<1> QED BY <1>2, <1>3

LEMMA IteratorIsQuiet ==
  ASSUME Inv, WInv, IteratorStep, UNCHANGED <<rs, ws, listeners, ticks, ret, emitted>>
  PROVE  WInv'
<1>0. UNCHANGED <<ws, ticks, emitted, calls, io, accepted, done, called>>
  BY DEF IteratorStep
<1>1. PICK evs : evs = <<"data", "end", "error", "close">>
  OBVIOUS
<1>2. ASSUME NEW q, IsSeq(q), \A k \in 1..Len(q) : Plain(q[k]),
             DOMAIN q = 1..4, \A i \in 1..4 : q[i].fn \in {"on", "off"}
      PROVE  AllQuiet(q)
  BY <1>2, Indexed DEF AllQuiet, QuietCall, Bystander, Finishing, Emits, Immediate
<1>3. CASE Iterate
  <2>1. AllQuiet(<<Call("resume", r)>>)
    BY QuietCalls, QuietLists DEF Noisy, Immediate
  <2>2. PICK q : q = InOrder(OnCall)
    OBVIOUS
  <2>3. q = [i \in 1..4 |-> OnCall(r, evs[i], IteratorListens[evs[i]])]
    BY <1>1, <2>2 DEF InOrder
  <2>4. AllQuiet(q)
    <3>1. \A i \in 1..4 : q[i].fn = "on"
      BY <2>3 DEF OnCall
    <3> QED BY <1>2, <2>2, <2>3, <3>1, IteratorListeners DEF AllPlain
  <2>5. Running("iterate") /\ Continue(q \o <<Call("resume", r)>>)
    BY <1>3, <2>2, Zenon DEF Iterate
  <2> QED BY <1>0, <2>1, <2>4, <2>5, QuietJoined, QuietOutside DEF Noisy, Immediate
<1>4. CASE ItData
  BY <1>0, <1>4, QuietLists, QuietOutside DEF ItData, Noisy, Immediate
<1>5. CASE ItEnd
  BY <1>0, <1>5, QuietLists, QuietOutside DEF ItEnd, Noisy, Immediate
<1>6. CASE ItError
  BY <1>0, <1>6, QuietLists, QuietOutside DEF ItError, Noisy, Immediate
<1>7. CASE ItNext
  BY <1>0, <1>7, QuietLists, QuietOutside DEF ItNext, Noisy, Immediate
<1>8. CASE ItReturn
  <2>1. PICK q : q = InOrder(OffCall)
    OBVIOUS
  <2>2. q = [i \in 1..4 |-> OffCall(r, evs[i], IteratorListens[evs[i]])]
    BY <1>1, <2>1 DEF InOrder
  <2>3. AllQuiet(q)
    <3>1. \A i \in 1..4 : q[i].fn = "off"
      BY <2>2 DEF OffCall
    <3> QED BY <1>2, <2>1, <2>2, <3>1, IteratorListeners DEF AllPlain
  <2>4. Running("itReturn") /\ Continue(q)
    BY <1>8, <2>1, Zenon DEF ItReturn
  <2> QED BY <1>0, <2>3, <2>4, QuietOutside DEF Noisy, Immediate
<1> QED BY <1>3, <1>4, <1>5, <1>6, <1>7, <1>8 DEF IteratorStep

\* What user code calls is a write, or has no part in one.
LEMMA OfferedCalls ==
  ASSUME use \in Uses, NEW call \in Offered
  PROVE  call = WriteCall(w, calls + 1, TRUE) \/ QuietCall(call)
<1>0. use \in {"data", "read", "iterate", "write"}
  BY UserAssumption
<1>1. /\ \A e : QuietCall(CallE("destroy", r, e)) /\ QuietCall(CallE("destroy", w, e))
      /\ \A f \in {"pause", "resume", "read", "itNext", "itReturn", "iterate"} :
           QuietCall(Call(f, r))
      /\ \A c : QuietCall(CallC("unshift", r, c))
      /\ \A f \in {"end", "cork", "uncork"} : QuietCall(Call(f, w))
  BY QuietCalls DEF Noisy, Immediate
<1>2. /\ QuietCall(OffCall(r, "data", Received)) /\ QuietCall(OnCall(r, "data", Received))
      /\ QuietCall(OnCall(r, "readable", User(r)))
  BY DEF OffCall, OnCall, QuietCall, Bystander, Finishing, Emits, Immediate
<1>4. CASE use = "data"
  BY <1>1, <1>2, <1>4 DEF Offered
<1>5. CASE use = "read"
  BY <1>1, <1>2, <1>5 DEF Offered
<1>6. CASE use = "iterate"
  BY <1>1, <1>6 DEF Offered
<1>7. CASE use = "write"
  BY <1>1, <1>7 DEF Offered
<1> QED BY <1>0, <1>4, <1>5, <1>6, <1>7

LEMMA UserCallsKeeps ==
  ASSUME Inv, WInv, use \in Uses, UserCalls
  PROVE  WInv'
<1>0. /\ UNCHANGED <<ws, ticks, emitted, io, accepted, done, called>>
      /\ calls \in 0..MaxCalls /\ calls < MaxCalls /\ calls' = calls + 1
  BY DEF UserCalls, WInv, Ordered, WriterState
<1>1. /\ IsSeq(stack) /\ IsSeq(ticks) /\ calls \in Nat /\ calls' \in 1..MaxCalls
      /\ calls' \in Nat /\ calls' >= calls /\ calls' # 0 /\ calls' \notin 1..calls
  BY <1>0, UserAssumption DEF Inv, Calls, AllPlain
<1>2. PICK call \in Offered : stack' = <<call>> \o stack
  BY DEF UserCalls
<1>3. PICK P : P = <<call>>
  OBVIOUS
<1>4. Shifted(P, 0) /\ Len(P) = 1 /\ P[1] = call /\ IsSeq(P)
  BY <1>1, <1>2, <1>3, Pushed, Short
<1>5. 1 \in DOMAIN stack => stack[1].fn = "user"
  BY Top DEF UserCalls
<1>6. SameQueues
  BY <1>0, <1>1 DEF SameQueues, WInv, Ordered, WriterState
<1>7. PICK q : AllTicks(q) /\ ticks' = ticks \o q
  BY <1>0, <1>1, TicksStay DEF TicksGrow
<1>8. QuietCall(call) \/ call.fn = "write"
  BY OfferedCalls DEF WriteCall
<1>9. Finishes' => Finishes
  <2>1. ASSUME NEW k \in DOMAIN stack', Finishing(stack'[k]) PROVE Finishes
    <3>1. \E m \in DOMAIN stack : stack'[k] = stack[m]
      BY <1>4, <1>8, <2>1, Origin DEF QuietCall, Finishing, Emits
    <3> QED BY <2>1, <3>1 DEF Finishes
  <2> QED BY <1>0, <2>1 DEF Finishes, Finishing, Emits, Came
<1>10. CASE QuietCall(call)
  <2>1. Bystanders(P)
    BY <1>4, <1>10 DEF Bystanders, QuietCall
  <2>2. SameDebts
    BY <1>0, SameIo
  <2> QED BY <1>1, <1>4, <1>5, <1>6, <1>7, <1>9, <2>1, <2>2, QuietStep DEF Immediate
<1>11. CASE call = WriteCall(w, calls + 1, TRUE)
  <2>1. call.fn = "write" /\ call.c = calls' /\ call.cb = TRUE
    BY <1>0, <1>11 DEF WriteCall
  <2>2. \A k \in 1..Len(P) :
          /\ CarriesNext(P[k]) /\ (P[k].fn \in Immediate => k = 1)
          /\ P[k].fn \notin {"callback", "failWrites"}
          /\ P[k].fn = "write" => calls' = calls + 1
    BY <1>0, <1>1, <1>4, <2>1 DEF CarriesNext, Numbers
  <2>3. /\ TickFrames' /\ RefusedOnce' /\ \A c : IsRefused(c)' => IsRefused(c)
        /\ \A c : IsRefused(c) => c \in 1..calls
    BY <1>1, <1>7, TicksKept
  <2>4. \A c : IsRefused(c)' => IsRefused(c) /\ c # calls'
    BY <1>1, <2>3
  <2>5. OneWrite'
    <3>1. OneWrite /\ (Writing(w)' <=> Writing(w))
      BY <1>0 DEF WInv, Ordered, Writing
    <3>2. 1 \in DOMAIN stack' => stack'[1].fn = "write"
      BY <1>4, <2>1 DEF Shifted
    <3> QED BY <1>0, <3>1, <3>2 DEF OneWrite
  <2>6. SameWrites
    BY <1>6, QueuesKept
  <2> QED BY <1>1, <1>4, <1>5, <1>9, <2>2, <2>3, <2>4, <2>5, <2>6, CalmStep DEF Immediate
<1> QED BY <1>10, <1>11, OfferedCalls

-----------------------------------------------------------------------------
(* The subclass. *)

LEMMA DebtAdded ==
  ASSUME Inv, NEW x, io' = Append(io, x)
  PROVE  \A k \in DOMAIN io' : \/ k \in DOMAIN io /\ io'[k] = io[k]
                               \/ k = Len(io) + 1 /\ io'[k] = x
<1>1. IsSeq(io)
  BY DEF Inv, Calls, Owed
<1>2. PICK n \in Nat : n = Len(io) /\ DOMAIN io = 1..n
  BY <1>1, Indexed
<1>3. /\ IsSeq(io') /\ Len(io') = n + 1 /\ io'[n + 1] = x
      /\ \A k \in 1..n : io'[k] = io[k]
  BY <1>1, <1>2, AppendedTo
<1>4. DOMAIN io' = 1..(n + 1)
  BY <1>3, Indexed
<1> QED BY <1>2, <1>3, <1>4

LEMMA DebtPaid ==
  ASSUME Inv, NEW i \in DOMAIN io, io' = RemoveAt(io, i)
  PROVE  /\ \A k \in DOMAIN io' : \E m \in DOMAIN io : m # i /\ io'[k] = io[m]
         /\ \A k, l \in DOMAIN io' : \E m, n \in DOMAIN io :
              io'[k] = io[m] /\ io'[l] = io[n] /\ (m = n => k = l)
<1>1. IsSeq(io)
  BY DEF Inv, Calls, Owed
<1>2. PICK n \in Nat : n = Len(io) /\ DOMAIN io = 1..n
  BY <1>1, Indexed
<1>3. /\ IsSeq(io') /\ Len(io') = n - 1
      /\ \A k \in 1..(n - 1) : io'[k] = IF k < i THEN io[k] ELSE io[k + 1]
  BY <1>1, <1>2, Removed
<1>4. DOMAIN io' = 1..(n - 1)
  BY <1>3, Indexed
<1>5. \A k \in DOMAIN io' :
        /\ k \in Int /\ k \in DOMAIN io /\ k + 1 \in DOMAIN io
        /\ k < i => io'[k] = io[k]
        /\ ~(k < i) => io'[k] = io[k + 1]
  BY <1>2, <1>3, <1>4
<1>6. i \in Int
  BY <1>2
<1>7. ASSUME NEW k \in DOMAIN io' PROVE \E m \in DOMAIN io : m # i /\ io'[k] = io[m]
  <2>1. CASE k < i
    BY <1>5, <1>6, <2>1
  <2>2. CASE ~(k < i)
    <3>1. k + 1 \in DOMAIN io /\ io'[k] = io[k + 1] /\ k + 1 # i
      BY <1>5, <1>6, <2>2
    <3> QED BY <3>1
  <2> QED BY <2>1, <2>2
<1>8. ASSUME NEW k \in DOMAIN io', NEW l \in DOMAIN io'
      PROVE  \E m, o \in DOMAIN io : io'[k] = io[m] /\ io'[l] = io[o] /\ (m = o => k = l)
  <2>1. PICK m \in DOMAIN io : m = (IF k < i THEN k ELSE k + 1) /\ io'[k] = io[m]
    BY <1>5
  <2>2. PICK o \in DOMAIN io : o = (IF l < i THEN l ELSE l + 1) /\ io'[l] = io[o]
    BY <1>5
  <2>3. k \in Int /\ l \in Int
    BY <1>5
  <2>4. m = o => k = l
    BY <1>6, <2>1, <2>2, <2>3
  <2> QED BY <2>1, <2>2, <2>4
<1> QED BY <1>7, <1>8

\* An answer that is not one to _write, and not one to _final.
LEMMA QuietAnswer ==
  ASSUME NEW x, x.fn \in Hooks \ {"_write"}, NEW err
  PROVE  /\ Bystanders(Answer(x, err))
         /\ x.fn # "_final" => AllQuiet(Answer(x, err))
<1>1. /\ \A e : AllQuiet(<<CallE("destroy", r, e)>>)
      /\ \A c : AllQuiet(<<CallC("push", r, c)>>)
      /\ \A e : AllQuiet(<<CallE("closed", x.s, e)>>)
  BY QuietCalls, QuietLists DEF Noisy, Immediate
<1>2. AllQuiet(Then(~rs[r].destroyed, NextRead))
  BY <1>1, QuietLists DEF NextRead
<1>3. \A e : Bystanders(<<CallE("finalDone", w, e)>>)
  BY BystanderLists DEF Bystander, CallE, Immediate
<1>4. \A q : AllQuiet(q) => Bystanders(q)
  BY DEF AllQuiet, Bystanders, QuietCall
<1>5. CASE x.fn = "_read"
  BY <1>1, <1>2, <1>4, <1>5 DEF Answer
<1>6. CASE x.fn = "_final"
  BY <1>3, <1>6 DEF Answer
<1>7. CASE x.fn = "_destroy"
  BY <1>1, <1>4, <1>7 DEF Answer
<1> QED BY <1>5, <1>6, <1>7 DEF Hooks

LEMMA WriteAnswer ==
  ASSUME NEW x, x.fn = "_write", NEW err \in BOOLEAN
  PROVE  Answer(x, err) = <<CallE("onwrite", w, err)>>
BY DEF Answer

LEMMA SubclassCalledKeeps ==
  ASSUME Inv, WInv, SubclassCalled
  PROVE  WInv'
<1>1. PICK f : Running(f) /\ f \in Hooks /\ f = top.fn
  BY DEF SubclassCalled, Running
<1>2. /\ IsSeq(stack) /\ stack # <<>> /\ 1 \in DOMAIN stack /\ IsSeq(ticks)
      /\ top = stack[1] /\ stack[1].fn = f
  BY <1>1, Top DEF Inv, Calls, AllPlain
<1>3. UNCHANGED <<ws, ticks, emitted, calls, accepted, done, called>>
  BY DEF SubclassCalled
<1>4. \/ io' = io /\ \E err \in BOOLEAN : Continue(Answer(top, err))
      \/ io' = Append(io, top) /\ Continue(<<>>)
      \/ io' = io /\ f = "_read" /\ Continue(<<CallC("push", r, Empty)>>)
  BY <1>1 DEF SubclassCalled
<1>5. SameQueues /\ calls' >= calls /\ calls' \in Nat
  BY <1>3, SameState, UserAssumption DEF WInv, Ordered, WriterState
<1>6. PICK q : AllTicks(q) /\ ticks' = ticks \o q
  BY <1>2, <1>3, TicksStay DEF TicksGrow
<1>7. CASE f # "_write"
  <2>1. PICK P : Continue(P) /\ Bystanders(P) /\ (f # "_final" => AllQuiet(P))
    <3>1. \A err : Bystanders(Answer(top, err)) /\ (f # "_final" => AllQuiet(Answer(top, err)))
      BY <1>1, <1>7, QuietAnswer
    <3>2. AllQuiet(<<CallC("push", r, Empty)>>)
      BY QuietCalls, QuietLists DEF Noisy, Immediate
    <3>3. \A p : AllQuiet(p) => Bystanders(p)
      BY DEF AllQuiet, Bystanders, QuietCall
    <3> QED BY <1>4, <3>1, <3>2, <3>3, QuietLists
  <2>2. Shifted(P, 1)
    BY <1>2, <2>1, Replaced DEF Bystanders
  <2>3. \A k \in DOMAIN io' : (k \in DOMAIN io /\ io'[k] = io[k]) \/ io'[k] = top
    BY <1>4, DebtAdded
  <2>4. SameDebts
    BY <1>1, <1>7, <2>3 DEF SameDebts, WInv, Ordered, OneWrite
  <2>5. Finishes' => Finishes
    <3>1. CASE f = "_final"
      BY <1>2, <3>1 DEF Finishes, Finishing
    <3>2. CASE f # "_final"
      BY <1>1, <1>3, <2>1, <2>2, <2>3, <3>2, NoneFinishes DEF Came, Finishes
    <3> QED BY <3>1, <3>2
  <2> QED BY <1>1, <1>2, <1>5, <1>6, <1>7, <2>1, <2>2, <2>4, <2>5, QuietStep
        DEF Hooks, Immediate
<1>8. CASE f = "_write"
  <2>1. Writing(w) /\ \A k \in DOMAIN io : io[k].fn # "_write"
    BY <1>2, <1>8 DEF WInv, Ordered, OneWrite
  <2>2. PICK P : /\ Continue(P) /\ IsSeq(P)
                 /\ \/ P = <<>> /\ io' = Append(io, top)
                    \/ /\ \E err \in BOOLEAN : P = <<CallE("onwrite", w, err)>>
                       /\ io' = io
    BY <1>1, <1>4, <1>8, WriteAnswer, Short
  <2>3. Shifted(P, 1)
    BY <1>2, <2>2, Replaced
  <2>4. ASSUME NEW k \in 1..Len(P)
        PROVE  P[k].fn = "onwrite" /\ P[k].err \in BOOLEAN /\ k = 1
    <3>1. P # <<>>
      OBVIOUS
    <3>2. PICK err \in BOOLEAN : P = <<CallE("onwrite", w, err)>>
      BY <2>2, <3>1
    <3>3. Len(P) = 1 /\ P[1] = CallE("onwrite", w, err)
      BY <3>2
    <3>4. k = 1
      BY <3>3
    <3> QED BY <3>3, <3>4 DEF CallE
  <2>5. \A k \in 1..Len(P) :
          /\ CarriesNext(P[k]) /\ (P[k].fn \in Immediate => k = 1)
          /\ P[k].fn \notin {"callback", "failWrites"}
          /\ P[k].fn = "write" => calls' = calls + 1
          /\ P[k].fn # "write"
    BY <2>4 DEF CarriesNext
  <2>6. /\ TickFrames' /\ RefusedOnce' /\ \A c : IsRefused(c)' => IsRefused(c)
    BY <1>2, <1>5, <1>6, TicksKept
  <2>7. \A c \in Numbers : IsRefused(c)' => ~IsAccepted(c) /\ ~IsCalled(c)
    BY <2>6 DEF WInv, Told, ToldOnce
  <2>8. SameWrites
    BY <1>5, QueuesKept
  <2>9. Writing(w)'
    BY <1>3, <2>1 DEF Writing
  <2>10. ASSUME NEW m \in DOMAIN stack, m > 1 PROVE stack[m].fn \notin Immediate
    <3>1. m # 1
      BY <2>10
    <3> QED BY <3>1 DEF WInv, Ordered, Frames, StackFrames
  <2>11. OneWrite'
    <3>1. CASE P = <<>> /\ io' = Append(io, top)
      <4>1. \A k \in DOMAIN io' : io'[k].fn = "_write" => k = Len(io) + 1
        BY <2>1, <3>1, DebtAdded
      <4>2. 1 \in DOMAIN stack' => stack'[1].fn \notin Immediate
        BY <2>3, <2>10, <3>1, Origin
      <4> QED BY <2>9, <4>1, <4>2 DEF OneWrite, Immediate
    <3>2. CASE io' = io
      BY <2>1, <2>9, <3>2 DEF OneWrite
    <3> QED BY <2>2, <3>1, <3>2
  <2>12. Finishes' => Finishes
    <3>1. AllQuiet(<<>>)
      BY QuietLists
    <3>2. ASSUME NEW k \in DOMAIN stack', Finishing(stack'[k]) PROVE Finishes
      <4>1. \E m \in DOMAIN stack : stack'[k] = stack[m]
        BY <2>3, <2>4, <3>2, Origin DEF Finishing, Emits
      <4> QED BY <3>2, <4>1 DEF Finishes
    <3>3. ASSUME NEW k \in DOMAIN io', io'[k].fn = "_final" PROVE Finishes
      BY <1>1, <1>8, <2>2, <3>3, DebtAdded DEF Finishes
    <3> QED BY <1>3, <3>2, <3>3 DEF Finishes, Came, Finishing, Emits
  <2> QED BY <1>2, <1>5, <1>8, <2>3, <2>5, <2>6, <2>7, <2>8, <2>11, <2>12, CalmStep
<1> QED BY <1>7, <1>8

LEMMA SubclassAnswersKeeps ==
  ASSUME Inv, WInv, NEW i \in DOMAIN io, SubclassAnswers(i)
  PROVE  WInv'
<1>1. /\ stack = <<>> /\ IsSeq(stack) /\ 1 \notin DOMAIN stack /\ Len(stack) = 0
      /\ IsSeq(ticks) /\ DOMAIN stack = {}
  BY DEF SubclassAnswers, Inv, Calls, AllPlain
<1>2. PICK x : x = io[i]
  OBVIOUS
<1>3. x.fn \in Hooks
  BY <1>2 DEF Inv, Calls, Owed
<1>4. PICK err \in BOOLEAN : stack' = Answer(x, err)
  BY <1>2 DEF SubclassAnswers
<1>5. /\ UNCHANGED <<ws, ticks, emitted, calls, accepted, done, called>>
      /\ io' = RemoveAt(io, i)
  BY DEF SubclassAnswers
<1>6. /\ \A k \in DOMAIN io' : \E m \in DOMAIN io : m # i /\ io'[k] = io[m]
      /\ \A k, l \in DOMAIN io' : \E m, n \in DOMAIN io :
           io'[k] = io[m] /\ io'[l] = io[n] /\ (m = n => k = l)
  BY <1>5, DebtPaid
<1>7. SameQueues /\ calls' >= calls /\ calls' \in Nat
  BY <1>5, SameState, UserAssumption DEF WInv, Ordered, WriterState
<1>8. PICK q : AllTicks(q) /\ ticks' = ticks \o q
  BY <1>1, <1>5, TicksStay DEF TicksGrow
<1>9. SameDebts
  BY <1>6 DEF SameDebts, WInv, Ordered, OneWrite
<1>10. PICK P : P = stack'
  OBVIOUS
<1>11. ASSUME IsSeq(P) PROVE Shifted(P, 0)
  BY <1>1, <1>10, <1>11, Indexed DEF Shifted
<1>12. ASSUME NEW k \in DOMAIN io', io'[k].fn = "_final" PROVE Finishes
  BY <1>6, <1>12 DEF Finishes
<1>13. CASE x.fn # "_write"
  <2>1. Bystanders(P) /\ (x.fn # "_final" => AllQuiet(P))
    BY <1>3, <1>4, <1>10, <1>13, QuietAnswer
  <2>2. Shifted(P, 0)
    BY <1>11, <2>1 DEF Bystanders
  <2>3. Finishes' => Finishes
    <3>1. CASE x.fn = "_final"
      BY <1>2, <3>1 DEF Finishes
    <3>2. CASE x.fn # "_final"
      BY <1>5, <1>6, <2>1, <2>2, <3>2, NoneFinishes DEF Came, Finishes
    <3> QED BY <3>1, <3>2
  <2> QED BY <1>1, <1>7, <1>8, <1>9, <2>1, <2>2, <2>3, QuietStep
<1>14. CASE x.fn = "_write"
  <2>1. Writing(w) /\ \A k \in DOMAIN io : io[k].fn = "_write" => k = i
    BY <1>2, <1>14 DEF WInv, Ordered, OneWrite
  <2>2. P = <<CallE("onwrite", w, err)>> /\ IsSeq(P) /\ Len(P) = 1
    BY <1>4, <1>10, <1>14, WriteAnswer, Short
  <2>3. Shifted(P, 0)
    BY <1>11, <2>2
  <2>4. ASSUME NEW k \in 1..Len(P)
        PROVE  P[k].fn = "onwrite" /\ P[k].err \in BOOLEAN /\ k = 1
    BY <2>2 DEF CallE
  <2>5. \A k \in 1..Len(P) :
          /\ CarriesNext(P[k]) /\ (P[k].fn \in Immediate => k = 1)
          /\ P[k].fn \notin {"callback", "failWrites"}
          /\ P[k].fn = "write" => calls' = calls + 1
          /\ P[k].fn # "write"
    BY <2>4 DEF CarriesNext
  <2>6. /\ TickFrames' /\ RefusedOnce' /\ \A c : IsRefused(c)' => IsRefused(c)
    BY <1>1, <1>7, <1>8, TicksKept
  <2>7. \A c \in Numbers : IsRefused(c)' => ~IsAccepted(c) /\ ~IsCalled(c)
    BY <2>6 DEF WInv, Told, ToldOnce
  <2>8. SameWrites
    BY <1>7, QueuesKept
  <2>9. OneWrite'
    <3>1. Writing(w)'
      BY <1>5, <2>1 DEF Writing
    <3>2. \A k \in DOMAIN io' : io'[k].fn # "_write"
      BY <1>6, <2>1
    <3> QED BY <3>1, <3>2 DEF OneWrite
  <2>10. Finishes' => Finishes
    <3>1. \A k \in DOMAIN stack' : ~Finishing(stack'[k])
      <4>1. DOMAIN stack' = 1..Len(P) /\ \A k \in 1..Len(P) : stack'[k] = P[k]
        BY <1>10, <2>2, Indexed
      <4> QED BY <2>4, <4>1 DEF Finishing, Emits
    <3> QED BY <1>5, <1>12, <3>1 DEF Finishes, Came, Finishing, Emits
  <2> QED BY <1>1, <1>7, <2>3, <2>5, <2>6, <2>7, <2>8, <2>9, <2>10, CalmStep
<1> QED BY <1>13, <1>14

-----------------------------------------------------------------------------
(* The order of the chunks. *)

Has(q, c) == \E k \in DOMAIN q : q[k] = c
Once(q) == \A k, l \in DOMAIN q : q[k] = q[l] => k = l

LEMMA JoinedHas ==
  ASSUME NEW p, NEW q, IsSeq(p), IsSeq(q)
  PROVE  /\ \A c : Has(p \o q, c) <=> Has(p, c) \/ Has(q, c)
         /\ Once(p \o q) => Once(p) /\ Once(q) /\ \A c : ~(Has(p, c) /\ Has(q, c))
<1>1. PICK s : s = p \o q
  OBVIOUS
<1>2. /\ IsSeq(s) /\ Len(s) = Len(p) + Len(q)
      /\ \A i \in 1..Len(p) : s[i] = p[i]
      /\ \A i \in 1..Len(q) : s[i + Len(p)] = q[i]
  BY <1>1, Joined
<1>3. /\ DOMAIN s = 1..Len(s) /\ DOMAIN p = 1..Len(p) /\ DOMAIN q = 1..Len(q)
      /\ Len(p) \in Nat /\ Len(q) \in Nat
  BY <1>2, Indexed
<1>4. \A i \in DOMAIN p : i \in DOMAIN s /\ s[i] = p[i]
  BY <1>2, <1>3
<1>5. ASSUME NEW i \in DOMAIN q
      PROVE  /\ i + Len(p) \in DOMAIN s /\ s[i + Len(p)] = q[i] /\ i \in Int
             /\ i + Len(p) \notin DOMAIN p
  BY <1>2, <1>3
<1>6. ASSUME NEW c PROVE Has(p \o q, c) <=> Has(p, c) \/ Has(q, c)
  <2>1. Has(s, c) => Has(p, c) \/ Has(q, c)
    <3>1. \A k \in DOMAIN s : (k \in DOMAIN p /\ s[k] = p[k]) \/ \E i \in DOMAIN q : s[k] = q[i]
      BY <1>1, JoinedOrigin
    <3> QED BY <3>1 DEF Has
  <2>2. Has(p, c) \/ Has(q, c) => Has(s, c)
    BY <1>4, <1>5 DEF Has
  <2> QED BY <1>1, <2>1, <2>2
<1>7. ASSUME Once(s) PROVE Once(p) /\ Once(q) /\ \A c : ~(Has(p, c) /\ Has(q, c))
  <2>1. Once(p)
    BY <1>4, <1>7 DEF Once
  <2>2. ASSUME NEW k \in DOMAIN q, NEW l \in DOMAIN q, q[k] = q[l] PROVE k = l
    <3>1. k + Len(p) = l + Len(p)
      BY <1>5, <1>7, <2>2 DEF Once
    <3> QED BY <1>3, <1>5, <3>1
  <2>3. ASSUME NEW k \in DOMAIN p, NEW l \in DOMAIN q, p[k] = q[l] PROVE FALSE
    BY <1>4, <1>5, <1>7, <2>3 DEF Once
  <2> QED BY <2>1, <2>2, <2>3 DEF Once, Has
<1> QED BY <1>1, <1>6, <1>7

LEMMA ChunksAre ==
  ASSUME NEW T, \A x \in T : x.c \in Numbers, NEW q \in Seq(T)
  PROVE  /\ Chunks(q) \in Seq(Numbers) /\ Len(Chunks(q)) = Len(q) /\ IsSeq(q)
         /\ DOMAIN Chunks(q) = DOMAIN q /\ \A k \in DOMAIN q : Chunks(q)[k] = q[k].c
<1>1. DOMAIN q = 1..Len(q) /\ Len(q) \in Nat /\ \A k \in DOMAIN q : q[k] \in T
  OBVIOUS
<1>2. Chunks(q) \in [1..Len(q) -> Numbers]
  BY <1>1 DEF Chunks
<1>3. Chunks(q) \in Seq(Numbers)
  BY <1>1, <1>2, SeqDef
<1>4. DOMAIN Chunks(q) = 1..Len(q)
  BY <1>1 DEF Chunks
<1> QED BY <1>1, <1>3, <1>4, SeqIsSeq DEF Chunks

LEMMA ChunksJoined ==
  ASSUME NEW p, NEW q, IsSeq(p), IsSeq(q)
  PROVE  Chunks(p \o q) = Chunks(p) \o Chunks(q)
<1>1. PICK a : a = Chunks(p)
  OBVIOUS
<1>2. PICK b : b = Chunks(q)
  OBVIOUS
<1>3. PICK s : s = p \o q
  OBVIOUS
<1>4. /\ Len(p) \in Nat /\ DOMAIN p = 1..Len(p) /\ Len(q) \in Nat /\ DOMAIN q = 1..Len(q)
      /\ IsSeq(s) /\ Len(s) = Len(p) + Len(q) /\ DOMAIN s = 1..Len(s)
      /\ \A k \in 1..Len(p) : s[k] = p[k]
      /\ \A k \in 1..Len(q) : s[k + Len(p)] = q[k]
  BY <1>3, Indexed, Joined
<1>5. /\ DOMAIN a = 1..Len(p) /\ \A k \in 1..Len(p) : a[k] = p[k].c
      /\ DOMAIN b = 1..Len(q) /\ \A k \in 1..Len(q) : b[k] = q[k].c
      /\ a = [k \in 1..Len(p) |-> p[k].c] /\ b = [k \in 1..Len(q) |-> q[k].c]
  BY <1>1, <1>2, <1>4 DEF Chunks
<1>6. IsSeq(a) /\ Len(a) = Len(p) /\ IsSeq(b) /\ Len(b) = Len(q)
  <2>1. IsSeq(a) /\ Len(a) = Len(p)
    <3>1. a \in [1..Len(p) -> ToSet(a)]
      BY <1>5 DEF ToSet
    <3>2. a \in Seq(ToSet(a))
      BY <1>4, <3>1, SeqDef
    <3> QED BY <1>4, <1>5, <3>2 DEF IsSeq
  <2>2. IsSeq(b) /\ Len(b) = Len(q)
    <3>1. b \in [1..Len(q) -> ToSet(b)]
      BY <1>5 DEF ToSet
    <3>2. b \in Seq(ToSet(b))
      BY <1>4, <3>1, SeqDef
    <3> QED BY <1>4, <1>5, <3>2 DEF IsSeq
  <2> QED BY <2>1, <2>2
<1>7. PICK t : t = a \o b
  OBVIOUS
<1>8. /\ IsSeq(t) /\ Len(t) = Len(p) + Len(q) /\ DOMAIN t = 1..Len(t)
      /\ \A k \in 1..Len(p) : t[k] = a[k]
      /\ \A k \in 1..Len(q) : t[k + Len(p)] = b[k]
  <2>0. IsSeq(a) /\ IsSeq(b)
    BY <1>6
  <2>1. /\ IsSeq(t) /\ Len(t) = Len(a) + Len(b)
        /\ \A k \in 1..Len(a) : t[k] = a[k]
        /\ \A k \in 1..Len(b) : t[k + Len(a)] = b[k]
    BY <1>7, <2>0, Joined
  <2>2. DOMAIN t = 1..Len(t)
    BY <2>1, Indexed
  <2> QED BY <1>6, <2>1, <2>2
<1>9. ASSUME NEW k \in 1..Len(s) PROVE s[k].c = t[k]
  <2>1. CASE k <= Len(p)
    BY <1>4, <1>5, <1>8, <2>1
  <2>2. CASE k > Len(p)
    <3>1. PICK i : i = k - Len(p)
      OBVIOUS
    <3>2. i \in 1..Len(q) /\ k = i + Len(p)
      BY <1>4, <2>2, <3>1
    <3>3. s[i + Len(p)] = q[i] /\ t[i + Len(p)] = b[i] /\ b[i] = q[i].c
      BY <1>4, <1>5, <1>8, <3>2
    <3> QED BY <3>2, <3>3
  <2> QED BY <1>4, <2>1, <2>2
<1>10. Chunks(s) = [k \in 1..Len(s) |-> t[k]]
  BY <1>4, <1>9 DEF Chunks
<1>11. t = [k \in 1..Len(s) |-> t[k]]
  <2>1. t \in Seq(ToSet(t))
    BY <1>8 DEF IsSeq
  <2> QED BY <1>4, <1>8, <2>1
<1> QED BY <1>1, <1>2, <1>3, <1>7, <1>10, <1>11

\* The chunks that are answered for, the one being written, those that wait.
Settled == Chunks(done)
Being == Chunks(Current)
Waiting == Chunks(ws[w].pending)
Corked == Chunks(ws[w].corkedBuffer)

LEMMA Kinds ==
  ASSUME WriterState
  PROVE  /\ Settled \in Seq(Numbers) /\ Being \in Seq(Numbers)
         /\ Waiting \in Seq(Numbers) /\ Corked \in Seq(Numbers)
         /\ Len(Settled) = Len(done) /\ Len(Waiting) = Len(ws[w].pending)
         /\ Len(Corked) = Len(ws[w].corkedBuffer)
         /\ IsSeq(done) /\ IsSeq(Current) /\ IsSeq(ws[w].pending) /\ IsSeq(ws[w].corkedBuffer)
         /\ \A c : Has(Settled, c) <=> IsDone(c)
         /\ \A c : Has(Being, c) <=> IsCurrent(c)
         /\ \A c : Has(Waiting, c) <=> \E k \in DOMAIN ws[w].pending : ws[w].pending[k].c = c
         /\ \A c : Has(Corked, c) <=>
                     \E k \in DOMAIN ws[w].corkedBuffer : ws[w].corkedBuffer[k].c = c
         /\ Writing(w) => Being = <<ws[w].current.c>>
         /\ ~Writing(w) => Being = <<>>
<1>1. (\A x \in Item : x.c \in Numbers) /\ (\A x \in Reply : x.c \in Numbers)
  BY DEF Item, Reply
<1>2. Writing(w) => ws[w].current \in Item
  BY DEF Writing, WriterState
<1>3. Current \in Seq(Item) /\ (Writing(w) => Current = <<ws[w].current>>)
                           /\ (~Writing(w) => Current = <<>>)
  BY <1>2 DEF Current, Then
<1>4. /\ Settled \in Seq(Numbers) /\ Len(Settled) = Len(done) /\ IsSeq(done)
      /\ DOMAIN Settled = DOMAIN done /\ \A k \in DOMAIN done : Settled[k] = done[k].c
  BY <1>1, ChunksAre DEF Settled, WriterState
<1>5. /\ Being \in Seq(Numbers) /\ IsSeq(Current)
      /\ DOMAIN Being = DOMAIN Current /\ \A k \in DOMAIN Current : Being[k] = Current[k].c
  BY <1>1, <1>3, ChunksAre DEF Being
<1>6. /\ Waiting \in Seq(Numbers) /\ Len(Waiting) = Len(ws[w].pending) /\ IsSeq(ws[w].pending)
      /\ DOMAIN Waiting = DOMAIN ws[w].pending
      /\ \A k \in DOMAIN ws[w].pending : Waiting[k] = ws[w].pending[k].c
  BY <1>1, ChunksAre DEF Waiting, WriterState
<1>7. /\ Corked \in Seq(Numbers) /\ Len(Corked) = Len(ws[w].corkedBuffer)
      /\ IsSeq(ws[w].corkedBuffer)
      /\ DOMAIN Corked = DOMAIN ws[w].corkedBuffer
      /\ \A k \in DOMAIN ws[w].corkedBuffer : Corked[k] = ws[w].corkedBuffer[k].c
  BY <1>1, ChunksAre DEF Corked, WriterState
<1>8. Writing(w) => Being = <<ws[w].current.c>>
  <2>1. SUFFICES ASSUME Writing(w) PROVE Being = <<ws[w].current.c>>
    OBVIOUS
  <2>2. DOMAIN Being = {1} /\ Being[1] = ws[w].current.c /\ Len(Being) = 1
    BY <1>3, <1>5, <2>1
  <2> QED BY <1>5, <2>2
<1>9. ~Writing(w) => Being = <<>>
  <2>1. SUFFICES ASSUME ~Writing(w) PROVE Being = <<>>
    OBVIOUS
  <2>2. DOMAIN Being = {} /\ Len(Being) = 0
    BY <1>3, <1>5, <2>1
  <2> QED BY <1>5, <2>2
<1>10. \A c : Has(Being, c) <=> IsCurrent(c)
  BY <1>8, <1>9 DEF Has, IsCurrent
<1>11. \A c : Has(Settled, c) <=> IsDone(c)
  BY <1>4 DEF Has, IsDone
<1>12. \A c : Has(Waiting, c) <=> \E k \in DOMAIN ws[w].pending : ws[w].pending[k].c = c
  BY <1>6 DEF Has
<1>13. \A c : Has(Corked, c) <=>
               \E k \in DOMAIN ws[w].corkedBuffer : ws[w].corkedBuffer[k].c = c
  BY <1>7 DEF Has
<1> QED BY <1>4, <1>5, <1>6, <1>7, <1>8, <1>9, <1>10, <1>11, <1>12, <1>13

Entry == Item \cup Reply

LEMMA Entries ==
  /\ \A x \in Entry : x.c \in Numbers
  /\ \A q \in Seq(Item) : q \in Seq(Entry)
  /\ \A q \in Seq(Reply) : q \in Seq(Entry)
<1>1. \A x \in Entry : x.c \in Numbers
  BY DEF Entry, Item, Reply
<1>2. Item \subseteq Entry /\ Reply \subseteq Entry
  BY DEF Entry
<1> QED BY <1>1, <1>2, SeqMonotonic

\* The chunks in the order of the calls of write().
Line(a, b, p, q) == a \o b \o p \o q

LEMMA OrderOf ==
  ASSUME NEW a \in Seq(Entry), NEW b \in Seq(Entry), NEW p \in Seq(Entry), NEW q \in Seq(Entry)
  PROVE  Chunks(Line(a, b, p, q)) = Line(Chunks(a), Chunks(b), Chunks(p), Chunks(q))
<1>1. a \o b \in Seq(Entry) /\ a \o b \o p \in Seq(Entry) /\ a \o b \o p \o q \in Seq(Entry)
  OBVIOUS
<1>2. /\ IsSeq(a) /\ IsSeq(b) /\ IsSeq(p) /\ IsSeq(q) /\ IsSeq(a \o b) /\ IsSeq(a \o b \o p)
  BY <1>1, SeqIsSeq
<1>3. Chunks(a \o b \o p \o q) = Chunks(a \o b \o p) \o Chunks(q)
  BY <1>2, ChunksJoined
<1>4. Chunks(a \o b \o p) = Chunks(a \o b) \o Chunks(p)
  BY <1>2, ChunksJoined
<1>5. Chunks(a \o b) = Chunks(a) \o Chunks(b)
  BY <1>2, ChunksJoined
<1> QED BY <1>3, <1>4, <1>5 DEF Line

Lengths(a, b, p, q) == Len(a) + Len(b) + Len(p) + Len(q)

LEMMA LengthOf ==
  ASSUME NEW a \in Seq(Entry), NEW b \in Seq(Entry), NEW p \in Seq(Entry), NEW q \in Seq(Entry)
  PROVE  Len(Chunks(Line(a, b, p, q))) = Lengths(a, b, p, q)
<1>1. a \o b \in Seq(Entry) /\ a \o b \o p \in Seq(Entry) /\ a \o b \o p \o q \in Seq(Entry)
  OBVIOUS
<1>2. Len(Chunks(a \o b \o p \o q)) = Len(a \o b \o p \o q)
  BY <1>1, ChunksAre, Entries
<1>3. Len(a \o b) = Len(a) + Len(b)
  OBVIOUS
<1>4. Len(a \o b \o p) = Len(a \o b) + Len(p)
  BY <1>1
<1>5. Len(a \o b \o p \o q) = Len(a \o b \o p) + Len(q)
  BY <1>1
<1> QED BY <1>2, <1>3, <1>4, <1>5 DEF Line, Lengths

\* A chunk is appended to one of the queues.
LEMMA ChunkAdded ==
  ASSUME NEW s \in Seq(Entry), NEW x \in Entry
  PROVE  Chunks(Append(s, x)) = Append(Chunks(s), x.c)
<1>1. Append(s, x) = s \o <<x>> /\ IsSeq(s) /\ IsSeq(<<x>>)
  BY AppendIsConcat, SeqIsSeq, Short
<1>2. Chunks(Append(s, x)) = Chunks(s) \o Chunks(<<x>>)
  BY <1>1, ChunksJoined
<1>3. Chunks(<<x>>) = <<x.c>>
  <2>1. <<x>> \in Seq(Entry)
    OBVIOUS
  <2>2. /\ Chunks(<<x>>) \in Seq(Numbers) /\ Len(Chunks(<<x>>)) = 1
        /\ Chunks(<<x>>)[1] = x.c
    <3>1. PICK z : z = <<x>>
      OBVIOUS
    <3>2. z \in Seq(Entry) /\ Len(z) = 1 /\ 1 \in DOMAIN z /\ z[1] = x
      BY <2>1, <3>1
    <3>3. /\ Chunks(z) \in Seq(Numbers) /\ Len(Chunks(z)) = Len(z)
          /\ \A k \in DOMAIN z : Chunks(z)[k] = z[k].c
      BY <3>2, ChunksAre, Entries
    <3> QED BY <3>1, <3>2, <3>3
  <2> QED BY <2>2
<1>4. Chunks(s) \in Seq(Numbers) /\ x.c \in Numbers
  BY ChunksAre, Entries
<1> QED BY <1>2, <1>3, <1>4, AppendIsConcat

Added(q, x) == Append(q, x)

LEMMA OrderCorked ==
  ASSUME NEW a \in Seq(Entry), NEW b \in Seq(Entry), NEW p \in Seq(Entry), NEW q \in Seq(Entry),
         NEW x \in Entry
  PROVE  Chunks(Line(a, b, p, Added(q, x))) = Added(Chunks(Line(a, b, p, q)), x.c)
<1>1. a \o b \in Seq(Entry) /\ a \o b \o p \in Seq(Entry) /\ a \o b \o p \o q \in Seq(Entry)
  OBVIOUS
<1>2. a \o b \o p \o Append(q, x) = Append(a \o b \o p \o q, x)
  <2>1. PICK s : s = a \o b \o p
    OBVIOUS
  <2>2. s \in Seq(Entry) /\ <<x>> \in Seq(Entry) /\ s \o q \in Seq(Entry)
    BY <1>1, <2>1
  <2>3. s \o (q \o <<x>>) = (s \o q) \o <<x>>
    BY <2>2, ConcatAssociative
  <2>4. Append(q, x) = q \o <<x>> /\ Append(s \o q, x) = (s \o q) \o <<x>>
    BY <2>2, AppendIsConcat
  <2> QED BY <2>1, <2>3, <2>4
<1> QED BY <1>1, <1>2, ChunkAdded DEF Line, Added

LEMMA OrderAppended ==
  ASSUME NEW a \in Seq(Entry), NEW b \in Seq(Entry), NEW p \in Seq(Entry), NEW q,
         q = <<>>, NEW x \in Entry
  PROVE  Chunks(Line(a, b, Added(p, x), q)) = Added(Chunks(Line(a, b, p, q)), x.c)
<1>1. a \o b \in Seq(Entry) /\ a \o b \o p \in Seq(Entry) /\ a \o b \o p \o q \in Seq(Entry)
  <2>1. q \in Seq(Entry)
    OBVIOUS
  <2> QED BY <2>1
<1>2. a \o b \o Append(p, x) \o q = Append(a \o b \o p \o q, x)
  <2>1. PICK s : s = a \o b
    OBVIOUS
  <2>2. s \in Seq(Entry) /\ <<x>> \in Seq(Entry) /\ s \o p \in Seq(Entry)
        /\ Append(p, x) \in Seq(Entry) /\ s \o Append(p, x) \in Seq(Entry)
    BY <1>1, <2>1
  <2>3. s \o (p \o <<x>>) = (s \o p) \o <<x>>
    BY <2>2, ConcatAssociative
  <2>4. Append(p, x) = p \o <<x>> /\ Append(s \o p, x) = (s \o p) \o <<x>>
    BY <2>2, AppendIsConcat
  <2>5. (s \o p) \o q = s \o p /\ (s \o Append(p, x)) \o q = s \o Append(p, x)
    BY <2>2, ConcatEmptySeq
  <2> QED BY <2>1, <2>3, <2>4, <2>5
<1> QED BY <1>1, <1>2, ChunkAdded DEF Line, Added

\* The first of the queue is taken.
LEMMA OrderMoved ==
  ASSUME NEW a \in Seq(Entry), NEW p \in Seq(Entry), NEW q \in Seq(Entry), p # <<>>
  PROVE  Line(a, <<>>, p, q) = Line(a, <<Head(p)>>, Tail(p), q)
<1>1. <<Head(p)>> \in Seq(Entry) /\ Tail(p) \in Seq(Entry)
  OBVIOUS
<1>2. p = <<Head(p)>> \o Tail(p)
  OBVIOUS
<1>3. a \o <<>> = a
  BY ConcatEmptySeq
<1>4. a \o (<<Head(p)>> \o Tail(p)) = (a \o <<Head(p)>>) \o Tail(p)
  BY <1>1, ConcatAssociative
<1> QED BY <1>2, <1>3, <1>4 DEF Line

\* The corked chunks join the queue.
LEMMA OrderFlushed ==
  ASSUME NEW a \in Seq(Entry), NEW b \in Seq(Entry), NEW p \in Seq(Entry), NEW q \in Seq(Entry)
  PROVE  Line(a, b, p, q) = Line(a, b, p \o q, <<>>)
<1>1. PICK s : s = a \o b
  OBVIOUS
<1>2. s \in Seq(Entry) /\ s \o (p \o q) \in Seq(Entry)
  BY <1>1
<1>3. (s \o p) \o q = s \o (p \o q)
  BY <1>2, ConcatAssociative
<1>4. (s \o (p \o q)) \o <<>> = s \o (p \o q)
  BY <1>2, ConcatEmptySeq
<1> QED BY <1>1, <1>3, <1>4 DEF Line

\* The chunk being written is answered for.
LEMMA OrderSettled ==
  ASSUME NEW a \in Seq(Entry), NEW x \in Entry, NEW y \in Entry, x.c = y.c,
         NEW p \in Seq(Entry), NEW q \in Seq(Entry)
  PROVE  Chunks(Line(a, <<x>>, p, q)) = Chunks(Line(Append(a, y), <<>>, p, q))
<1>1. <<x>> \in Seq(Entry) /\ <<y>> \in Seq(Entry) /\ <<>> \in Seq(Entry) /\ Append(a, y) \in Seq(Entry)
  OBVIOUS
<1>2. Line(Append(a, y), <<>>, p, q) = Line(a, <<y>>, p, q)
  <2>1. Append(a, y) = a \o <<y>>
    BY AppendIsConcat
  <2>2. Append(a, y) \o <<>> = a \o <<y>>
    BY <1>1, <2>1, ConcatEmptySeq
  <2> QED BY <2>2 DEF Line
<1>3. Chunks(<<x>>) = Chunks(<<y>>)
  BY <1>1 DEF Chunks
<1>4. PICK X, Y : X = <<x>> /\ Y = <<y>>
  OBVIOUS
<1>5. X \in Seq(Entry) /\ Y \in Seq(Entry)
  BY <1>1, <1>4
<1>6. Chunks(Line(a, X, p, q)) = Line(Chunks(a), Chunks(X), Chunks(p), Chunks(q))
  BY <1>5, OrderOf
<1>7. Chunks(Line(a, Y, p, q)) = Line(Chunks(a), Chunks(Y), Chunks(p), Chunks(q))
  BY <1>5, OrderOf
<1> QED BY <1>2, <1>3, <1>4, <1>6, <1>7

\* While the stream lives, a chunk is in one place.
LEMMA LivePlaces ==
  ASSUME WInv, Live
  PROVE  /\ \A c : IsAccepted(c) <=> IsDone(c) \/ IsCurrent(c) \/ IsQueued(c)
         /\ \A c : IsDone(c) => ~IsCurrent(c) /\ ~IsQueued(c)
         /\ \A c : IsCurrent(c) => ~IsQueued(c)
         /\ Once(Waiting) /\ Once(Corked) /\ \A c : ~(Has(Waiting, c) /\ Has(Corked, c))
<1>1. WriterState
  BY DEF WInv, Ordered
<1>2. PICK A, B, C, D : A = Settled /\ B = Being /\ C = Waiting /\ D = Corked
  OBVIOUS
<1>3. A \in Seq(Numbers) /\ B \in Seq(Numbers) /\ C \in Seq(Numbers) /\ D \in Seq(Numbers)
  BY <1>1, <1>2, Kinds
<1>4. A \o B \in Seq(Numbers) /\ A \o B \o C \in Seq(Numbers)
  BY <1>3
<1>5. /\ IsSeq(A) /\ IsSeq(B) /\ IsSeq(C) /\ IsSeq(D) /\ IsSeq(A \o B) /\ IsSeq(A \o B \o C)
  BY <1>3, <1>4, SeqIsSeq
<1>6. accepted = A \o B \o C \o D
  <2>1. /\ done \in Seq(Entry) /\ ws[w].pending \in Seq(Entry) /\ ws[w].corkedBuffer \in Seq(Entry)
        /\ Current \in Seq(Entry)
    <3>1. Current \in Seq(Item)
      BY <1>1 DEF Current, Then, Writing, WriterState
    <3> QED BY <1>1, <3>1, Entries DEF WriterState
  <2>2. accepted = Chunks(done \o Current \o ws[w].pending \o ws[w].corkedBuffer)
    BY DEF WInv, Ordered, WritesKeepOrder, Live
  <2>3. Chunks(Line(done, Current, ws[w].pending, ws[w].corkedBuffer)) = Line(A, B, C, D)
    BY <1>2, <2>1, OrderOf DEF Settled, Being, Waiting, Corked
  <2> QED BY <2>2, <2>3 DEF Line
<1>7. \A c : IsAccepted(c) <=> Has(accepted, c)
  BY DEF IsAccepted, Has
<1>8. Once(accepted)
  BY DEF WInv, Numbered, Once
<1>9. /\ \A c : Has(accepted, c) <=> Has(A \o B \o C, c) \/ Has(D, c)
      /\ Once(A \o B \o C) /\ Once(D) /\ \A c : ~(Has(A \o B \o C, c) /\ Has(D, c))
  BY <1>5, <1>6, <1>8, JoinedHas
<1>10. /\ \A c : Has(A \o B \o C, c) <=> Has(A \o B, c) \/ Has(C, c)
       /\ Once(A \o B) /\ Once(C) /\ \A c : ~(Has(A \o B, c) /\ Has(C, c))
  BY <1>5, <1>9, JoinedHas
<1>11. /\ \A c : Has(A \o B, c) <=> Has(A, c) \/ Has(B, c)
       /\ \A c : ~(Has(A, c) /\ Has(B, c))
  BY <1>5, <1>10, JoinedHas
<1>12. /\ \A c : Has(A, c) <=> IsDone(c)
       /\ \A c : Has(B, c) <=> IsCurrent(c)
       /\ \A c : IsQueued(c) <=> Has(C, c) \/ Has(D, c)
  BY <1>1, <1>2, Kinds DEF IsQueued
<1> QED BY <1>2, <1>7, <1>9, <1>10, <1>11, <1>12

-----------------------------------------------------------------------------
(* The queues. *)

LEMMA CalmRun ==
  ASSUME Inv, WInv, NEW f, Running(f), f \notin Noisy \ {"dropWrites"}, f # "destroy",
         NEW P, Continue(P), AllQuiet(P), SameWrites, UNCHANGED <<ticks, emitted, calls, io>>
  PROVE  WInv'
<1>1. /\ IsSeq(stack) /\ stack # <<>> /\ stack[1].fn = f /\ IsSeq(ticks)
      /\ calls' \in Nat /\ calls' >= calls
  BY Top, UserAssumption DEF Inv, Calls, AllPlain, WInv, Ordered, WriterState
<1>2. Shifted(P, 1)
  BY <1>1, Replaced DEF AllQuiet
<1>3. \A k \in 1..Len(P) : P[k].fn \notin Immediate \cup {"failWrites", "dropWrites"}
  BY DEF AllQuiet, QuietCall, Bystander
<1>4. \A k \in 1..Len(P) : CarriesNext(P[k])
  BY <1>3 DEF CarriesNext, Immediate
<1>5. PICK q : AllTicks(q) /\ ticks' = ticks \o q
  BY <1>1, TicksStay DEF TicksGrow
<1>6. TickFrames' /\ RefusedOnce' /\ \A c \in Numbers : IsRefused(c)' => ~IsAccepted(c) /\ ~IsCalled(c)
  BY <1>1, <1>5, TicksKept DEF WInv, Told, ToldOnce
<1>7. OneWrite'
  <2>1. OneWrite /\ (Writing(w)' <=> Writing(w))
    BY DEF WInv, Ordered, Writing, SameWrites
  <2>2. ASSUME NEW m \in DOMAIN stack PROVE stack[m].fn \notin Immediate
    BY <1>1 DEF WInv, Ordered, Frames, StackFrames, Noisy, Immediate
  <2>3. 1 \in DOMAIN stack' => stack'[1].fn \notin {"_write", "onwrite"}
    BY <1>2, <1>3, <2>2, Origin DEF Immediate
  <2> QED BY <2>1, <2>3 DEF OneWrite
<1>8. Finishes' => Finishes
  BY <1>2, NoneFinishes DEF Came, Finishes
<1> QED BY <1>1, <1>2, <1>3, <1>4, <1>6, <1>7, <1>8, CalmStep DEF Noisy, Immediate

LEMMA DropWritesKeeps ==
  ASSUME Inv, WInv, DropWrites, Observe, UNCHANGED <<calls, io, called>>
  PROVE  WInv'
<1>1. /\ Running("dropWrites") /\ top.s = w /\ 1 \in DOMAIN stack /\ stack[1].fn = "dropWrites"
      /\ UNCHANGED <<ticks, emitted>> /\ Continue(<<>>)
  BY WriterRuns DEF DropWrites, WriterCalls
<1>2. accepted' = accepted /\ done' = done
  BY <1>1 DEF Observe, Running
<1>3. ws[w].destroyed
  BY <1>1 DEF WInv, Ordered, Frames, StackFrames, Carries
<1>4. WriterState /\ DOMAIN ws = Writers /\ w \in Writers
  BY OneStream DEF Inv, States, WInv, Ordered
<1>5. ws' = [ws EXCEPT ![w].pending = <<>>, ![w].corkedBuffer = <<>>, ![w].length = 0]
  BY <1>1 DEF DropWrites
<1>6. /\ ws'[w].pending = <<>> /\ ws'[w].corkedBuffer = <<>> /\ ws'[w].length = 0
      /\ ws'[w].current = ws[w].current /\ ws'[w].destroyed = ws[w].destroyed
      /\ ws'[w].ended = ws[w].ended /\ ws'[w].corked = ws[w].corked
      /\ DOMAIN ws'[w] = DOMAIN ws[w]
  BY <1>4, <1>5 DEF WriterState
<1>7. WriterState'
  BY <1>2, <1>4, <1>6 DEF WriterState
<1>8. SameWrites
  BY <1>2, <1>3, <1>6, <1>7 DEF SameWrites, WritesKeepOrder, IsQueued, Live
<1> QED BY <1>1, <1>8, QuietLists, CalmRun DEF Noisy, Immediate

LEMMA UncorkKeeps ==
  ASSUME Inv, WInv, Uncork, Observe, UNCHANGED <<calls, io, called>>
  PROVE  WInv'
<1>1. Running("uncork") /\ top.s = w /\ UNCHANGED <<ticks, emitted>>
  BY WriterRuns DEF Uncork, WriterCalls
<1>2. accepted' = accepted /\ done' = done
  BY <1>1 DEF Observe, Running
<1>3. /\ WriterState /\ DOMAIN ws = Writers /\ w \in Writers
      /\ (ws[w].corked = 0 => ws[w].corkedBuffer = <<>>)
  BY OneStream DEF Inv, States, WInv, Ordered
<1>4. PICK P : Continue(P) /\ AllQuiet(P)
  <2>1. AllQuiet(<<Call("doWrite", w)>>)
    BY QuietCalls, QuietLists DEF Noisy, Immediate
  <2>2. \E a : Continue(Then(a, <<Call("doWrite", w)>>))
    BY <1>1, Zenon DEF Uncork
  <2> QED BY <2>1, <2>2, QuietLists
<1>5. PICK flush \in BOOLEAN : flush = (ws[w].corked = 1 /\ ws[w].corkedBuffer # <<>>)
  OBVIOUS
<1>6. ws' = [ws EXCEPT ![w].corked = IF @ > 0 THEN @ - 1 ELSE 0,
                       ![w].pending = @ \o Then(flush, ws[w].corkedBuffer),
                       ![w].corkedBuffer = IF flush THEN <<>> ELSE @]
  BY <1>1, <1>5 DEF Uncork
<1>7. /\ ws'[w].pending = ws[w].pending \o Then(flush, ws[w].corkedBuffer)
      /\ ws'[w].corkedBuffer = (IF flush THEN <<>> ELSE ws[w].corkedBuffer)
      /\ ws'[w].corked = (IF ws[w].corked > 0 THEN ws[w].corked - 1 ELSE 0)
      /\ ws'[w].length = ws[w].length
      /\ ws'[w].current = ws[w].current /\ ws'[w].destroyed = ws[w].destroyed
      /\ ws'[w].ended = ws[w].ended
      /\ DOMAIN ws'[w] = DOMAIN ws[w]
  BY <1>3, <1>6 DEF WriterState
<1>8. ws[w].corked \in Nat /\ ws'[w].corked \in Nat
  BY <1>3, <1>7 DEF WriterState
<1>9. CASE ~flush
  <2>1. ws'[w].pending = ws[w].pending /\ ws'[w].corkedBuffer = ws[w].corkedBuffer
    BY <1>3, <1>7, <1>9, ConcatEmptySeq DEF Then, WriterState
  <2>2. ws'[w].corked = 0 => ws'[w].corkedBuffer = <<>>
    <3>1. CASE ws[w].corked = 0
      BY <1>3, <2>1, <3>1
    <3>2. CASE ws[w].corked = 1
      <4>1. ws[w].corkedBuffer = <<>>
        BY <1>5, <1>9, <3>2
      <4> QED BY <2>1, <4>1
    <3>3. CASE ws[w].corked > 1
      <4>1. ws'[w].corked = ws[w].corked - 1
        BY <1>7, <1>8, <3>3
      <4> QED BY <1>8, <3>3, <4>1
    <3> QED BY <1>8, <3>1, <3>2, <3>3
  <2>3. WriterState'
    BY <1>2, <1>3, <1>7, <1>8, <2>1 DEF WriterState
  <2>4. SameQueues
    BY <1>2, <1>7, <2>1, <2>2, <2>3 DEF SameQueues
  <2> QED BY <1>1, <1>4, <2>4, QueuesKept, CalmRun DEF Noisy, Immediate
<1>10. CASE flush
  <2>1. ws'[w].pending = ws[w].pending \o ws[w].corkedBuffer /\ ws'[w].corkedBuffer = <<>>
    BY <1>7, <1>10 DEF Then
  <2>2. ws[w].pending \in Seq(Item) /\ ws[w].corkedBuffer \in Seq(Item) /\ ws'[w].pending \in Seq(Item)
    BY <1>3, <2>1 DEF WriterState
  <2>3. WriterState'
    BY <1>2, <1>3, <1>7, <1>8, <2>1, <2>2 DEF WriterState
  <2>4. Current' = Current /\ (Live' <=> Live)
    BY <1>7 DEF Current, Then, Writing, Live
  <2>5. WritesKeepOrder'
    <3>1. /\ done \in Seq(Entry) /\ ws[w].pending \in Seq(Entry) /\ ws[w].corkedBuffer \in Seq(Entry)
          /\ Current \in Seq(Entry)
      <4>1. Current \in Seq(Item)
        BY <1>3 DEF Current, Then, Writing, WriterState
      <4> QED BY <1>3, <4>1, Entries DEF WriterState
    <3>2. Line(done, Current, ws[w].pending, ws[w].corkedBuffer)
            = Line(done', Current', ws'[w].pending, ws'[w].corkedBuffer)
      <4>1. PICK a, b, p, q : /\ a = done /\ b = Current
                              /\ p = ws[w].pending /\ q = ws[w].corkedBuffer
        OBVIOUS
      <4>0. a \in Seq(Entry) /\ b \in Seq(Entry) /\ p \in Seq(Entry) /\ q \in Seq(Entry)
        BY <3>1, <4>1
      <4>2. Line(a, b, p, q) = Line(a, b, p \o q, <<>>)
        BY <4>0, OrderFlushed
      <4>3. /\ done' = a /\ Current' = b /\ ws'[w].pending = p \o q
            /\ ws'[w].corkedBuffer = <<>>
        BY <1>2, <2>1, <2>4, <4>1
      <4> QED BY <4>1, <4>2, <4>3
    <3> QED BY <1>2, <1>7, <2>4, <3>2 DEF WInv, Ordered, WritesKeepOrder, Live, Line
  <2>6. ASSUME NEW c, IsQueued(c)' PROVE IsQueued(c)
    <3>0. DOMAIN ws'[w].corkedBuffer = {}
      BY <2>1
    <3>1. PICK k \in DOMAIN ws'[w].pending : ws'[w].pending[k].c = c
      BY <2>6, <3>0 DEF IsQueued
    <3>2. IsSeq(ws[w].pending) /\ IsSeq(ws[w].corkedBuffer)
      BY <2>2, SeqIsSeq
    <3>3. \/ k \in DOMAIN ws[w].pending /\ ws'[w].pending[k] = ws[w].pending[k]
          \/ \E i \in DOMAIN ws[w].corkedBuffer : ws'[w].pending[k] = ws[w].corkedBuffer[i]
      <4>1. PICK p, q : p = ws[w].pending /\ q = ws[w].corkedBuffer
        OBVIOUS
      <4>2. IsSeq(p) /\ IsSeq(q) /\ k \in DOMAIN (p \o q)
        BY <2>1, <3>1, <3>2, <4>1
      <4>3. \/ k \in DOMAIN p /\ (p \o q)[k] = p[k]
            \/ \E i \in DOMAIN q : k = i + Len(p) /\ (p \o q)[k] = q[i]
        BY <4>2, JoinedOrigin
      <4>4. ws'[w].pending = p \o q
        BY <2>1, <4>1
      <4> QED BY <4>1, <4>3, <4>4
    <3> QED BY <2>4, <2>6, <3>1, <3>3 DEF IsQueued
  <2>7. SameWrites
    BY <1>2, <1>5, <1>7, <1>10, <2>1, <2>3, <2>5, <2>6 DEF SameWrites
  <2> QED BY <1>1, <1>4, <2>7, CalmRun DEF Noisy, Immediate
<1> QED BY <1>5, <1>9, <1>10

-----------------------------------------------------------------------------
(* write(). *)

LEMMA Accounts ==
  ASSUME WriterState
  PROVE  /\ done \in Seq(Entry) /\ Current \in Seq(Entry)
         /\ ws[w].pending \in Seq(Entry) /\ ws[w].corkedBuffer \in Seq(Entry)
<1>1. Current \in Seq(Item)
  BY DEF Current, Then, Writing, WriterState
<1> QED BY <1>1, Entries DEF WriterState

\* The call of write() that runs, and those below it on the stack.
LEMMA WriteRuns ==
  ASSUME Inv, WInv, NEW f \in Immediate, Running(f)
  PROVE  /\ IsSeq(stack) /\ stack # <<>> /\ 1 \in DOMAIN stack /\ IsSeq(ticks)
         /\ top = stack[1] /\ stack[1].fn = f /\ Carries(top)
         /\ \A m \in DOMAIN stack : m # 1 => stack[m].fn \notin Immediate /\ Carries(stack[m])
<1>1. /\ IsSeq(stack) /\ stack # <<>> /\ 1 \in DOMAIN stack
      /\ top = stack[1] /\ stack[1].fn = f
  BY Top
<1> QED BY <1>1 DEF Inv, Calls, AllPlain, WInv, Ordered, Frames, StackFrames

\* The callback of a refused write is left to a tick of its own.
LEMMA RefusalAdded ==
  ASSUME WInv, IsSeq(ticks), NEW f, f.fn = "callback", f.err = TRUE, f.c \in 1..calls,
         ~IsAccepted(f.c), ~IsCalled(f.c), ~IsRefused(f.c),
         calls' = calls, ticks' = ticks \o <<f>>
  PROVE  /\ TickFrames' /\ RefusedOnce'
         /\ \A c \in Numbers : IsRefused(c)' => ~IsAccepted(c) /\ ~IsCalled(c)
<1>1. ASSUME NEW k \in DOMAIN ticks'
      PROVE  \/ k \in DOMAIN ticks /\ ticks'[k] = ticks[k]
             \/ k = Len(ticks) + 1 /\ ticks'[k] = f
  <2>1. PICK q : q = ticks'
    OBVIOUS
  <2>2. q = Append(ticks, f)
    BY <2>1, AppendIsConcat DEF IsSeq
  <2>3. /\ IsSeq(q) /\ Len(q) = Len(ticks) + 1 /\ q[Len(ticks) + 1] = f
        /\ \A i \in 1..Len(ticks) : q[i] = ticks[i]
    BY <2>2, AppendedTo
  <2>4. DOMAIN q = 1..Len(q) /\ DOMAIN ticks = 1..Len(ticks) /\ Len(ticks) \in Nat
    BY <2>3, Indexed
  <2> QED BY <2>1, <2>3, <2>4
<1>2. TickFrames /\ RefusedOnce
  BY DEF WInv, Ordered, Frames, Told
<1>3. TickFrames'
  BY <1>1, <1>2 DEF TickFrames
<1>4. ASSUME NEW c \in Numbers, IsRefused(c)'
      PROVE  ~IsAccepted(c) /\ ~IsCalled(c)
  <2>1. PICK k \in DOMAIN ticks' : Tells(ticks'[k], c)
    BY <1>4 DEF IsRefused, Tells
  <2>2. CASE k \in DOMAIN ticks /\ ticks'[k] = ticks[k]
    <3>1. IsRefused(c)
      BY <2>1, <2>2 DEF IsRefused
    <3> QED BY <3>1 DEF WInv, Told, ToldOnce
  <2>3. CASE ticks'[k] = f
    BY <2>1, <2>3 DEF Tells
  <2> QED BY <1>1, <2>2, <2>3
<1>5. ASSUME NEW k \in DOMAIN ticks', NEW l \in DOMAIN ticks', NEW c \in Numbers,
             Tells(ticks'[k], c), Tells(ticks'[l], c)
      PROVE  k = l
  <2>1. \A m \in DOMAIN ticks : ~Tells(ticks[m], f.c)
    BY DEF IsRefused
  <2>2. Tells(f, c) => c = f.c
    BY DEF Tells
  <2> QED BY <1>1, <1>2, <1>5, <2>1, <2>2 DEF RefusedOnce
<1>6. RefusedOnce'
  BY <1>5 DEF RefusedOnce, Tells
<1> QED BY <1>3, <1>4, <1>6

LEMMA WriteRefused ==
  ASSUME Inv, WInv, Running("write"), top.s = w, ws[w].ended, Observe,
         UNCHANGED <<ws, calls, io, called, emitted>>,
         ticks' = ticks \o Callback(w, [c |-> top.c, cb |-> top.cb], TRUE),
         NEW P, P = <<>> \/ P = <<CallE("destroy", w, TRUE)>>, Continue(P)
  PROVE  WInv'
<1>1. /\ IsSeq(stack) /\ stack # <<>> /\ 1 \in DOMAIN stack /\ IsSeq(ticks)
      /\ top = stack[1] /\ stack[1].fn = "write" /\ Carries(top)
      /\ \A m \in DOMAIN stack : m # 1 => stack[m].fn \notin Immediate
  BY WriteRuns DEF Immediate
<1>2. top.c = calls /\ calls \in Numbers /\ top.cb = TRUE
  BY <1>1 DEF Carries
<1>3. ~IsAccepted(calls) /\ ~IsCalled(calls) /\ ~IsRefused(calls)
  BY <1>1 DEF WInv, Numbered
<1>4. calls \in Nat /\ calls \in 1..calls /\ calls' = calls /\ calls' >= calls
  BY <1>2, UserAssumption DEF Numbers
<1>5. accepted' = accepted /\ done' = done
  BY <1>1 DEF Observe, Running
<1>6. SameWrites
  BY <1>5, SameState, QueuesKept
<1>7. AllQuiet(P)
  BY QuietCalls, QuietLists DEF Noisy, Immediate
<1>8. Shifted(P, 1)
  BY <1>1, <1>7, Replaced DEF AllQuiet
<1>9. PICK f : f = [fn |-> "callback", s |-> w, c |-> calls, err |-> TRUE]
  OBVIOUS
<1>10. f.fn = "callback" /\ f.c = calls /\ f.err = TRUE
  BY <1>9
<1>11. ticks' = ticks \o <<f>>
  BY <1>2, <1>9 DEF Callback, Then
<1>14. /\ TickFrames' /\ RefusedOnce'
       /\ \A c \in Numbers : IsRefused(c)' => ~IsAccepted(c) /\ ~IsCalled(c)
  BY <1>1, <1>3, <1>4, <1>10, <1>11, RefusalAdded
<1>17. \A k \in 1..Len(P) :
         P[k].fn \notin Immediate \cup {"failWrites", "dropWrites"} /\ CarriesNext(P[k])
  BY <1>7 DEF AllQuiet, QuietCall, Bystander, CarriesNext, Immediate
<1>18. OneWrite'
  <2>1. OneWrite /\ (Writing(w)' <=> Writing(w))
    BY DEF WInv, Ordered, Writing
  <2>2. \A m \in DOMAIN stack : m > 1 => stack[m].fn \notin Immediate
    BY <1>1
  <2>3. 1 \in DOMAIN stack' => stack'[1].fn \notin Immediate
    BY <1>8, <1>17, <2>2, Origin
  <2> QED BY <2>1, <2>3 DEF OneWrite, Immediate
<1>19. Finishes' => Finishes
  BY <1>7, <1>8, NoneFinishes DEF Came, Finishes
<1>20. \A k \in 1..Len(P) :
          /\ CarriesNext(P[k]) /\ (P[k].fn \in Immediate => k = 1)
          /\ P[k].fn \notin {"callback", "failWrites"}
          /\ P[k].fn # "write"
  BY <1>17 DEF Immediate
<1> QED BY <1>1, <1>4, <1>6, <1>8, <1>14, <1>18, <1>19, <1>20, CalmStep

\* What write() does to the queues, and to the order of the chunks.
LEMMA ChunkQueued ==
  ASSUME WriterState, WritesKeepOrder, Live, NEW x \in Item,
         DOMAIN ws'[w] = DOMAIN ws[w],
         ws'[w].length = ws[w].length + 1,
         \/ /\ ws'[w].pending = ws[w].pending
            /\ ws'[w].corkedBuffer = Append(ws[w].corkedBuffer, x)
         \/ /\ ws[w].corkedBuffer = <<>> /\ ws'[w].corkedBuffer = ws[w].corkedBuffer
            /\ ws'[w].pending = Append(ws[w].pending, x),
         ws'[w].current = ws[w].current, ws'[w].destroyed = ws[w].destroyed,
         ws'[w].ended = ws[w].ended, ws'[w].corked = ws[w].corked,
         accepted' = Append(accepted, x.c), UNCHANGED <<done, called, calls>>
  PROVE  WriterState' /\ WritesKeepOrder' /\ (\A c : IsQueued(c)' => IsQueued(c) \/ c = x.c)
<1>1. x.c \in Numbers
  BY DEF Item
<1>2. WriterState'
  <2>1. ws[w].pending \in Seq(Item) /\ ws[w].corkedBuffer \in Seq(Item)
    BY DEF WriterState
  <2>2. Append(ws[w].pending, x) \in Seq(Item) /\ Append(ws[w].corkedBuffer, x) \in Seq(Item)
    BY <2>1
  <2>3. ws'[w].pending \in Seq(Item) /\ ws'[w].corkedBuffer \in Seq(Item)
    BY <2>1, <2>2
  <2>4. accepted' \in Seq(Numbers)
    BY <1>1 DEF WriterState
  <2>5. ws'[w].length \in Nat
    BY DEF WriterState
  <2> QED BY <2>3, <2>4, <2>5 DEF WriterState
<1>3. WritesKeepOrder'
  <2>1. PICK a, b, p, q : /\ a = done /\ b = Current
                          /\ p = ws[w].pending /\ q = ws[w].corkedBuffer
    OBVIOUS
  <2>2. a \in Seq(Entry) /\ b \in Seq(Entry) /\ p \in Seq(Entry) /\ q \in Seq(Entry) /\ x \in Entry
    BY <2>1, Accounts DEF Entry
  <2>3. /\ Chunks(Line(a, b, p, Added(q, x))) = Added(Chunks(Line(a, b, p, q)), x.c)
        /\ q = <<>> => Chunks(Line(a, b, Added(p, x), q)) = Added(Chunks(Line(a, b, p, q)), x.c)
    <3>1. Chunks(Line(a, b, p, Added(q, x))) = Added(Chunks(Line(a, b, p, q)), x.c)
      BY <2>2, OrderCorked
    <3>2. ASSUME q = <<>>
          PROVE  Chunks(Line(a, b, Added(p, x), q)) = Added(Chunks(Line(a, b, p, q)), x.c)
      BY <2>2, <3>2, OrderAppended
    <3> QED BY <3>1, <3>2
  <2>4. accepted = Chunks(Line(a, b, p, q)) /\ ws[w].length = Len(accepted) - Len(done)
    BY <2>1 DEF WritesKeepOrder, Live, Line
  <2>5. Current' = b
    BY <2>1 DEF Current, Then, Writing
  <2>6. accepted' = Chunks(Line(done', Current', ws'[w].pending, ws'[w].corkedBuffer))
    BY <2>1, <2>3, <2>4, <2>5 DEF Added
  <2>7. Len(accepted') = Len(accepted) + 1
    BY <1>1 DEF WriterState
  <2>8. Len(accepted) \in Nat /\ Len(done) \in Nat
    BY DEF WriterState
  <2>9. ws'[w].length = Len(accepted') - Len(done')
    BY <2>4, <2>7, <2>8
  <2> QED BY <2>6, <2>9 DEF WritesKeepOrder, Line
<1>4. ASSUME NEW c, IsQueued(c)' PROVE IsQueued(c) \/ c = x.c
  <2>1. ASSUME NEW q, q \in Seq(Item), NEW k \in DOMAIN Append(q, x), Append(q, x)[k].c = c
        PROVE  c = x.c \/ \E i \in DOMAIN q : q[i].c = c
    <3>1. IsSeq(q)
      BY <2>1, SeqIsSeq
    <3>2. PICK s : s = Append(q, x)
      OBVIOUS
    <3>3. /\ IsSeq(s) /\ Len(s) = Len(q) + 1 /\ s[Len(q) + 1] = x
          /\ \A i \in 1..Len(q) : s[i] = q[i]
      BY <3>1, <3>2, AppendedTo
    <3>4. DOMAIN s = 1..Len(s) /\ DOMAIN q = 1..Len(q) /\ Len(q) \in Nat
      BY <3>1, <3>3, Indexed
    <3>5. k \in DOMAIN s /\ s[k].c = c
      BY <2>1, <3>2
    <3>6. CASE k = Len(q) + 1
      BY <3>3, <3>5, <3>6
    <3>7. CASE k \in DOMAIN q
      <4>1. s[k] = q[k]
        BY <3>3, <3>4, <3>7
      <4> QED BY <3>5, <3>7, <4>1
    <3> QED BY <3>3, <3>4, <3>5, <3>6, <3>7
  <2>2. ws[w].pending \in Seq(Item) /\ ws[w].corkedBuffer \in Seq(Item)
    BY DEF WriterState
  <2>3. \/ \E k \in DOMAIN ws'[w].pending : ws'[w].pending[k].c = c
        \/ \E k \in DOMAIN ws'[w].corkedBuffer : ws'[w].corkedBuffer[k].c = c
    BY <1>4 DEF IsQueued
  <2>4. \/ c = x.c
        \/ \E k \in DOMAIN ws[w].pending : ws[w].pending[k].c = c
        \/ \E k \in DOMAIN ws[w].corkedBuffer : ws[w].corkedBuffer[k].c = c
    <3>1. CASE ws'[w].pending = ws[w].pending /\ ws'[w].corkedBuffer = Append(ws[w].corkedBuffer, x)
      <4>1. CASE \E k \in DOMAIN ws'[w].pending : ws'[w].pending[k].c = c
        BY <3>1, <4>1
      <4>2. CASE \E k \in DOMAIN ws'[w].corkedBuffer : ws'[w].corkedBuffer[k].c = c
        BY <2>1, <2>2, <3>1, <4>2
      <4> QED BY <2>3, <4>1, <4>2
    <3>2. CASE ws'[w].corkedBuffer = ws[w].corkedBuffer /\ ws'[w].pending = Append(ws[w].pending, x)
      <4>1. CASE \E k \in DOMAIN ws'[w].pending : ws'[w].pending[k].c = c
        BY <2>1, <2>2, <3>2, <4>1
      <4>2. CASE \E k \in DOMAIN ws'[w].corkedBuffer : ws'[w].corkedBuffer[k].c = c
        BY <3>2, <4>2
      <4> QED BY <2>3, <4>1, <4>2
    <3> QED BY <3>1, <3>2
  <2> QED BY <2>4 DEF IsQueued
<1> QED BY <1>2, <1>3, <1>4

\* What an immediate call leaves behind on the stack.
LEMMA ImmediateReturns ==
  ASSUME Inv, WInv, NEW f \in Immediate, Running(f), NEW P, IsSeq(P), Continue(P)
  PROVE  /\ Shifted(P, 1)
         /\ \A k \in DOMAIN stack' :
              \/ k \in 1..Len(P) /\ stack'[k] = P[k]
              \/ \E m \in DOMAIN stack :
                   /\ m # 1 /\ k = m + Len(P) - 1 /\ stack'[k] = stack[m]
                   /\ stack[m].fn \notin Immediate /\ Carries(stack[m])
<1>1. Shifted(P, 1)
  BY WriteRuns, Replaced
<1>2. \A m \in DOMAIN stack : m > 1 => m # 1
  OBVIOUS
<1> QED BY <1>1, <1>2, Origin, WriteRuns

LEMMA WriteAccepted ==
  ASSUME Inv, WInv, Running("write"), top.s = w, ~ws[w].ended, Live, Observe,
         NEW x, x = [c |-> top.c, cb |-> top.cb],
         DOMAIN ws'[w] = DOMAIN ws[w],
         ws'[w].length = ws[w].length + 1,
         \/ /\ ws'[w].pending = ws[w].pending /\ ws[w].corked # 0
            /\ ws'[w].corkedBuffer = Append(ws[w].corkedBuffer, x)
         \/ /\ ws[w].corked = 0 /\ ws'[w].corkedBuffer = ws[w].corkedBuffer
            /\ ws'[w].pending = Append(ws[w].pending, x),
         ws'[w].current = ws[w].current, ws'[w].destroyed = ws[w].destroyed,
         ws'[w].ended = ws[w].ended, ws'[w].corked = ws[w].corked,
         UNCHANGED <<calls, io, called, emitted, ticks>>,
         NEW P, AllQuiet(P), Continue(P)
  PROVE  WInv'
<1>1. /\ IsSeq(stack) /\ stack # <<>> /\ 1 \in DOMAIN stack /\ IsSeq(ticks)
      /\ top = stack[1] /\ stack[1].fn = "write" /\ Carries(top)
  BY WriteRuns DEF Immediate
<1>2. /\ top.c = calls /\ calls \in Numbers /\ top.cb = TRUE
      /\ calls \in Nat /\ calls \in 1..calls
  BY <1>1, UserAssumption DEF Carries, Numbers
<1>3. x.c = calls /\ x \in Item
  BY <1>2 DEF Item
<1>4. accepted' = Append(accepted, calls) /\ done' = done
  BY <1>1, <1>2 DEF Observe, Running
<1>5. WriterState /\ WritesKeepOrder /\ (ws[w].corked = 0 => ws[w].corkedBuffer = <<>>)
  BY DEF WInv, Ordered
<1>6. WriterState' /\ WritesKeepOrder' /\ \A c : IsQueued(c)' => IsQueued(c) \/ c = calls
  BY <1>3, <1>4, <1>5, ChunkQueued
<1>7. ~IsAccepted(calls) /\ ~IsCalled(calls) /\ ~IsRefused(calls)
  BY <1>1 DEF WInv, Numbered
<1>8. IsSeq(P) /\ \A k \in 1..Len(P) : QuietCall(P[k])
  BY DEF AllQuiet
<1>9. Shifted(P, 1)
  BY <1>8, ImmediateReturns DEF Immediate
<1>10. ASSUME NEW k \in DOMAIN stack'
       PROVE  QuietCall(stack'[k]) \/ \E m \in DOMAIN stack :
                m # 1 /\ stack'[k] = stack[m] /\ stack[m].fn \notin Immediate /\ Carries(stack[m])
  BY <1>8, ImmediateReturns DEF Immediate
<1>11. \A k \in DOMAIN stack' : stack'[k].fn \notin Immediate \cup {"failWrites"}
  BY <1>10 DEF Carries, Live, QuietCall, Bystander
<1>12. \A k \in DOMAIN stack : stack[k].fn \notin {"callback", "failWrites"}
  BY <1>1 DEF WInv, Ordered, Frames, StackFrames, Carries, Live, Immediate
<1>13. Frames'
  <2>1. \A k \in 1..Len(P) : CarriesNext(P[k]) /\ (P[k].fn \in Immediate => k = 1)
    BY <1>8 DEF QuietCall, Bystander, CarriesNext, Immediate
  <2>2. StackFrames'
    BY <1>1, <1>9, <2>1, FramesKept DEF Live
  <2>3. TickFrames'
    BY DEF WInv, Ordered, Frames, TickFrames
  <2> QED BY <2>2, <2>3 DEF Frames
<1>14. OneWrite'
  BY <1>11 DEF WInv, Ordered, OneWrite, Writing, Immediate
<1>15. Ordered'
  <2>1. ws'[w].corked = 0 => ws'[w].corkedBuffer = <<>>
    BY <1>5
  <2> QED BY <1>6, <1>13, <1>14, <2>1 DEF Ordered, WInv
<1>16. /\ \A c : IsAccepted(c)' => IsAccepted(c) \/ c = calls
       /\ \A k \in DOMAIN accepted' : accepted'[k] \in 1..calls
       /\ \A k, l \in DOMAIN accepted' : accepted'[k] = accepted'[l] => k = l
  <2>1. IsSeq(accepted)
    BY <1>5, SeqIsSeq DEF WriterState
  <2>2. PICK n \in Nat : n = Len(accepted) /\ DOMAIN accepted = 1..n
    BY <2>1, Indexed
  <2>3. /\ IsSeq(accepted') /\ Len(accepted') = n + 1 /\ accepted'[n + 1] = calls
        /\ \A k \in 1..n : accepted'[k] = accepted[k]
    BY <1>4, <2>1, <2>2, AppendedTo
  <2>4. DOMAIN accepted' = 1..(n + 1)
    BY <2>3, Indexed
  <2>5. \A k \in DOMAIN accepted' : \/ k \in DOMAIN accepted /\ accepted'[k] = accepted[k]
                                    \/ k = n + 1 /\ accepted'[k] = calls
    BY <2>2, <2>3, <2>4
  <2>6. \A k \in DOMAIN accepted : accepted[k] # calls
    BY <1>7 DEF IsAccepted
  <2>7. /\ \A k \in DOMAIN accepted : accepted[k] \in 1..calls
        /\ \A k, l \in DOMAIN accepted : accepted[k] = accepted[l] => k = l
    BY DEF WInv, Numbered
  <2>8. \A c : IsAccepted(c)' => IsAccepted(c) \/ c = calls
    BY <2>5 DEF IsAccepted
  <2>9. \A k \in DOMAIN accepted' : accepted'[k] \in 1..calls
    BY <1>2, <2>5, <2>7
  <2>10. ASSUME NEW k \in DOMAIN accepted', NEW l \in DOMAIN accepted', accepted'[k] = accepted'[l]
         PROVE  k = l
    BY <2>5, <2>6, <2>7, <2>10
  <2> QED BY <2>8, <2>9, <2>10
<1>17. Numbered'
  <2>1. \A k \in DOMAIN called' : called'[k].c \in 1..calls'
    BY DEF WInv, Numbered
  <2>2. \A k \in DOMAIN stack' : stack'[k].fn # "write"
    BY <1>11 DEF Immediate
  <2> QED BY <1>16, <2>1, <2>2 DEF Numbered
<1>18. Dropped'
  BY DEF Dropped, Live
<1>19. Told'
  <2>0. ToldOnce /\ RefusedOnce /\ TrueAnswers
    BY DEF WInv, Told
  <2>1. /\ \A c : ~IsTold(c) /\ ~IsTold(c)' /\ ~IsFailing(c)'
        /\ \A c : IsCurrent(c)' <=> IsCurrent(c)
        /\ \A c : IsCalled(c)' <=> IsCalled(c)
        /\ \A c : IsRefused(c)' <=> IsRefused(c)
        /\ \A c : IsDone(c)' <=> IsDone(c)
        /\ Live' <=> Live
    BY <1>4, <1>11, <1>12 DEF IsTold, Tells, IsFailing, Fails, IsCurrent, Writing, IsCalled,
       IsRefused, IsDone, Live, Immediate
  <2>2. ToldOnce'
    <3>1. ASSUME NEW c \in Numbers
          PROVE  /\ IsCurrent(c)' \/ IsQueued(c)' => ~IsCalled(c)'
                 /\ IsRefused(c)' => ~IsAccepted(c)' /\ ~IsCalled(c)'
                 /\ Live' /\ IsDone(c)' => IsCalled(c)'
      BY <1>6, <1>7, <1>16, <2>0, <2>1 DEF ToldOnce
    <3> QED BY <2>1, <3>1 DEF ToldOnce
  <2>3. RefusedOnce'
    BY <2>0 DEF RefusedOnce
  <2>4. TrueCallbacks'
    BY <1>11 DEF TrueCallbacks, Immediate
  <2>5. TrueAnswers'
    BY <1>4, <2>0 DEF TrueAnswers, WasWritten
  <2> QED BY <2>2, <2>3, <2>4, <2>5 DEF Told
<1>20. ASSUME ~CallsInFailure PROVE FailsNext' /\ (Finishes' => AllWritten')
  <2>1. FailsNext /\ (Finishes => AllWritten)
    BY <1>20 DEF WInv
  <2>2. FailsNext'
    <3>1. ASSUME NEW k \in DOMAIN done, done[k].err PROVE FALSE
      <4>1. PICK n \in DOMAIN stack :
              /\ stack[n].fn = "destroy" /\ n \in 1..2
              /\ n = 2 => stack[1].fn = "callback"
        BY <2>1, <3>1 DEF FailsNext
      <4> QED BY <1>1, <4>1
    <3> QED BY <1>4, <3>1 DEF FailsNext
  <2>3. Finishes' => Finishes
    BY <1>9, NoneFinishes DEF Came, Finishes
  <2> QED BY <2>1, <2>2, <2>3 DEF AllWritten
<1> QED BY <1>15, <1>17, <1>18, <1>19, <1>20 DEF WInv

LEMMA WriteKeeps ==
  ASSUME Inv, WInv, Write, Observe, UNCHANGED <<calls, io, called>>
  PROVE  WInv'
<1>1. Running("write") /\ top.s = w
  BY WriterRuns DEF Write, WriterCalls
<1>2. /\ WriterState /\ DOMAIN ws = Writers /\ w \in Writers
      /\ (ws[w].destroyed => ws[w].ended)
  BY OneStream DEF Inv, States, WInv, Ordered
<1>3. ws[w].corked \in Nat
  BY <1>2 DEF WriterState
<1>4. PICK x : x = [c |-> top.c, cb |-> top.cb]
  OBVIOUS
<1>5. emitted' = emitted
  BY DEF Write
<1>6. CASE /\ ws[w].ended /\ ws' = ws
           /\ ticks' = ticks \o Callback(w, x, TRUE)
           /\ Continue(<<>>) \/ Continue(<<CallE("destroy", w, TRUE)>>)
  BY <1>1, <1>4, <1>5, <1>6, WriteRefused
<1>7. CASE /\ ~ws[w].destroyed /\ ~ws[w].ended /\ ws[w].corked > 0
           /\ ws' = [ws EXCEPT ![w].length = @ + 1, ![w].corkedBuffer = Append(@, x)]
           /\ Continue(<<>>) /\ ticks' = ticks
  <2>1. /\ DOMAIN ws'[w] = DOMAIN ws[w]
        /\ ws'[w].length = ws[w].length + 1 /\ ws'[w].pending = ws[w].pending
        /\ ws'[w].corkedBuffer = Append(ws[w].corkedBuffer, x)
        /\ ws'[w].current = ws[w].current /\ ws'[w].destroyed = ws[w].destroyed
        /\ ws'[w].ended = ws[w].ended /\ ws'[w].corked = ws[w].corked
    BY <1>2, <1>7 DEF WriterState
  <2>2. ws[w].corked # 0 /\ AllQuiet(<<>>) /\ Live
    BY <1>3, <1>7, QuietLists DEF Live
  <2> QED BY <1>1, <1>4, <1>5, <1>7, <2>1, <2>2, WriteAccepted
<1>8. CASE /\ ~ws[w].destroyed /\ ~ws[w].ended /\ ws[w].corked = 0
           /\ ws' = [ws EXCEPT ![w].length = @ + 1, ![w].pending = Append(@, x)]
           /\ Continue(<<Call("doWrite", w), Call("written", w)>>) /\ ticks' = ticks
  <2>1. /\ DOMAIN ws'[w] = DOMAIN ws[w]
        /\ ws'[w].length = ws[w].length + 1 /\ ws'[w].corkedBuffer = ws[w].corkedBuffer
        /\ ws'[w].pending = Append(ws[w].pending, x)
        /\ ws'[w].current = ws[w].current /\ ws'[w].destroyed = ws[w].destroyed
        /\ ws'[w].ended = ws[w].ended /\ ws'[w].corked = ws[w].corked
    BY <1>2, <1>8 DEF WriterState
  <2>2. AllQuiet(<<Call("doWrite", w), Call("written", w)>>) /\ Live
    BY <1>8, QuietCalls, QuietLists DEF Noisy, Immediate, Live
  <2> QED BY <1>1, <1>4, <1>5, <1>8, <2>1, <2>2, WriteAccepted
<1> QED BY <1>1, <1>2, <1>4, <1>6, <1>7, <1>8 DEF Write

-----------------------------------------------------------------------------
(* A write starts. *)

LEMMA ChunkTaken ==
  ASSUME WriterState, WritesKeepOrder, Live, ~Writing(w), ws[w].pending # <<>>,
         DOMAIN ws'[w] = DOMAIN ws[w],
         ws'[w].current = Head(ws[w].pending), ws'[w].pending = Tail(ws[w].pending),
         ws'[w].corkedBuffer = ws[w].corkedBuffer, ws'[w].length = ws[w].length,
         ws'[w].destroyed = ws[w].destroyed,
         ws'[w].ended = ws[w].ended, ws'[w].corked = ws[w].corked,
         UNCHANGED <<accepted, done, called, calls>>
  PROVE  /\ WriterState' /\ WritesKeepOrder' /\ Writing(w)'
         /\ \A c : IsQueued(c)' \/ IsCurrent(c)' => IsQueued(c)
<1>1. PICK p, q : p = ws[w].pending /\ q = ws[w].corkedBuffer
  OBVIOUS
<1>2. p \in Seq(Item) /\ q \in Seq(Item) /\ p # <<>>
  BY <1>1 DEF WriterState
<1>3. PICK x, t : x = Head(p) /\ t = Tail(p)
  OBVIOUS
<1>4. /\ x \in Item /\ t \in Seq(Item) /\ 1 \in DOMAIN p /\ x = p[1]
      /\ \A k \in DOMAIN t : k + 1 \in DOMAIN p /\ t[k] = p[k + 1]
  BY <1>2, <1>3
<1>5. ws'[w].current = x /\ ws'[w].pending = t
  BY <1>1, <1>3
<1>6. WriterState'
  BY <1>4, <1>5 DEF WriterState
<1>7. x # NoItem
  BY <1>4 DEF Item, NoItem, Numbers
<1>8. Writing(w)'
  BY <1>5, <1>7 DEF Writing
<1>9. Current = <<>> /\ Current' = <<x>>
  BY <1>5, <1>8 DEF Current, Then
<1>10. WritesKeepOrder'
  <2>1. done \in Seq(Entry) /\ p \in Seq(Entry) /\ q \in Seq(Entry)
    BY <1>1, Accounts
  <2>2. Line(done, <<>>, p, q) = Line(done, <<Head(p)>>, Tail(p), q)
    BY <1>2, <2>1, OrderMoved
  <2>3. Line(done, Current, p, q) = Line(done, Current', t, q)
    BY <1>3, <1>9, <2>2
  <2>4. accepted = Chunks(Line(done, Current, p, q)) /\ ws[w].length = Len(accepted) - Len(done)
    BY <1>1 DEF WritesKeepOrder, Live, Line
  <2>5. accepted = Chunks(Line(done, Current', t, q))
    BY <2>3, <2>4
  <2> QED BY <1>1, <1>5, <2>4, <2>5 DEF WritesKeepOrder, Line
<1>11. ASSUME NEW c, IsQueued(c)' \/ IsCurrent(c)' PROVE IsQueued(c)
  <2>1. \/ c = x.c \/ (\E k \in DOMAIN t : t[k].c = c) \/ (\E k \in DOMAIN q : q[k].c = c)
    BY <1>1, <1>5, <1>11 DEF IsQueued, IsCurrent
  <2>2. (\E k \in DOMAIN p : p[k].c = c) \/ (\E k \in DOMAIN q : q[k].c = c)
    BY <1>4, <2>1
  <2> QED BY <1>1, <2>2 DEF IsQueued
<1> QED BY <1>6, <1>8, <1>10, <1>11

LEMMA DoWriteKeeps ==
  ASSUME Inv, WInv, DoWrite, Observe, UNCHANGED <<calls, io, called>>
  PROVE  WInv'
<1>1. /\ Running("doWrite") /\ top.s = w /\ UNCHANGED <<ticks, emitted>>
      /\ 1 \in DOMAIN stack /\ stack[1].fn = "doWrite" /\ IsSeq(stack) /\ stack # <<>>
  BY WriterRuns DEF DoWrite, WriterCalls
<1>2. accepted' = accepted /\ done' = done
  BY <1>1 DEF Observe, Running
<1>3. /\ WriterState /\ WritesKeepOrder /\ DOMAIN ws = Writers /\ w \in Writers
      /\ (ws[w].corked = 0 => ws[w].corkedBuffer = <<>>)
  BY OneStream DEF Inv, States, WInv, Ordered
<1>4. CASE ws' = ws /\ Continue(<<>>)
  BY <1>1, <1>2, <1>4, SameState, QuietLists, QuietWriter DEF Noisy, Immediate
<1>5. CASE /\ Live /\ ~Writing(w) /\ ws[w].pending # <<>>
           /\ ws' = [ws EXCEPT ![w].current = Head(ws[w].pending), ![w].pending = Tail(@)]
           /\ Continue(<<CallC("_write", w, Head(ws[w].pending).c)>>)
  <2>1. /\ DOMAIN ws'[w] = DOMAIN ws[w]
        /\ ws'[w].current = Head(ws[w].pending) /\ ws'[w].pending = Tail(ws[w].pending)
        /\ ws'[w].corkedBuffer = ws[w].corkedBuffer /\ ws'[w].length = ws[w].length
        /\ ws'[w].destroyed = ws[w].destroyed
        /\ ws'[w].ended = ws[w].ended /\ ws'[w].corked = ws[w].corked
    BY <1>3, <1>5 DEF WriterState
  <2>2. /\ WriterState' /\ WritesKeepOrder' /\ Writing(w)'
        /\ \A c : IsQueued(c)' \/ IsCurrent(c)' => IsQueued(c)
    BY <1>2, <1>3, <1>5, <2>1, ChunkTaken
  <2>3. PICK f : f = CallC("_write", w, Head(ws[w].pending).c)
    OBVIOUS
  <2>4. f.fn = "_write"
    BY <2>3 DEF CallC
  <2>5. PICK P : P = <<f>>
    OBVIOUS
  <2>6. IsSeq(P) /\ Len(P) = 1 /\ P[1] = f /\ Continue(P)
    BY <1>5, <2>3, <2>5, Short
  <2>7. Shifted(P, 1)
    BY <1>1, <2>6, Replaced
  <2>8. \A k \in DOMAIN stack : stack[k].fn \notin Immediate \cup {"failWrites"}
    BY <1>1, <1>5 DEF WInv, Ordered, Frames, StackFrames, Carries, Live, Immediate
  <2>9. ASSUME NEW k \in DOMAIN stack'
        PROVE  stack'[k].fn \notin {"write", "callback", "failWrites"}
    BY <2>4, <2>6, <2>7, <2>8, Origin DEF Immediate
  <2>10. Frames'
    <3>1. \A k \in 1..Len(P) : CarriesNext(P[k]) /\ (P[k].fn \in Immediate => k = 1)
      <4>1. CarriesNext(f)
        BY <2>4 DEF CarriesNext
      <4> QED BY <2>6, <4>1
    <3>2. StackFrames'
      BY <1>5, <2>7, <3>1, FramesKept DEF Live
    <3>3. TickFrames'
      BY <1>1 DEF WInv, Ordered, Frames, TickFrames
    <3> QED BY <3>2, <3>3 DEF Frames
  <2>11. OneWrite'
    BY <1>5, <2>2 DEF WInv, Ordered, OneWrite
  <2>12. Ordered'
    BY <1>3, <2>1, <2>2, <2>10, <2>11 DEF Ordered, WInv
  <2>13. Numbered'
    BY <1>2, <2>9 DEF WInv, Numbered
  <2>14. Dropped'
    BY <1>5, <2>1 DEF Dropped, Live
  <2>15. Told'
    <3>0. ToldOnce /\ RefusedOnce /\ TrueAnswers
      BY DEF WInv, Told
    <3>1. /\ \A c : ~IsTold(c) /\ ~IsTold(c)' /\ ~IsFailing(c)'
          /\ \A c : IsCalled(c)' <=> IsCalled(c)
          /\ \A c : IsAccepted(c)' <=> IsAccepted(c)
          /\ \A c : IsRefused(c)' <=> IsRefused(c)
          /\ \A c : IsDone(c)' <=> IsDone(c)
          /\ Live
      BY <1>1, <1>2, <1>5, <2>8, <2>9 DEF IsTold, Tells, IsFailing, Fails, IsCalled,
         IsAccepted, IsRefused, IsDone, Immediate
    <3>2. ToldOnce'
      <4>1. ASSUME NEW c \in Numbers
            PROVE  /\ IsCurrent(c)' \/ IsQueued(c)' => ~IsCalled(c)'
                   /\ IsRefused(c)' => ~IsAccepted(c)' /\ ~IsCalled(c)'
                   /\ Live' /\ IsDone(c)' => IsCalled(c)'
        BY <2>2, <3>0, <3>1 DEF ToldOnce
      <4> QED BY <3>1, <4>1 DEF ToldOnce
    <3>3. RefusedOnce'
      BY <1>1, <3>0 DEF RefusedOnce
    <3>4. TrueCallbacks'
      BY <2>9 DEF TrueCallbacks
    <3>5. TrueAnswers'
      BY <1>2, <3>0 DEF TrueAnswers, WasWritten
    <3> QED BY <3>2, <3>3, <3>4, <3>5 DEF Told
  <2>16. ASSUME ~CallsInFailure PROVE FailsNext' /\ (Finishes' => AllWritten')
    <3>1. FailsNext /\ (Finishes => AllWritten)
      BY <2>16 DEF WInv
    <3>2. FailsNext'
      <4>1. ASSUME NEW k \in DOMAIN done, done[k].err PROVE FALSE
        <5>1. PICK n \in DOMAIN stack :
                /\ stack[n].fn = "destroy" /\ n \in 1..2
                /\ n = 2 => stack[1].fn = "callback"
          BY <1>5, <3>1, <4>1 DEF FailsNext
        <5> QED BY <1>1, <5>1
      <4> QED BY <1>2, <4>1 DEF FailsNext
    <3>3. Finishes' => Finishes
      <4>1. ASSUME NEW k \in DOMAIN stack', Finishing(stack'[k]) PROVE Finishes
        <5>1. \E m \in DOMAIN stack : stack'[k] = stack[m]
          BY <2>4, <2>6, <2>7, <4>1, Origin DEF Finishing, Emits
        <5> QED BY <4>1, <5>1 DEF Finishes
      <4> QED BY <1>1, <4>1 DEF Finishes, Finishing, Emits, Came
    <3> QED BY <1>5, <3>1, <3>2, <3>3 DEF AllWritten
  <2> QED BY <2>12, <2>13, <2>14, <2>15, <2>16 DEF WInv
<1> QED BY <1>1, <1>4, <1>5 DEF DoWrite, Live

-----------------------------------------------------------------------------
(* A write is answered. *)

WroteIn(q, c) == \E k \in DOMAIN q : q[k].c = c /\ ~q[k].err

LEMMA WrittenIs ==
  ASSUME NEW q \in Seq(Reply), NEW c
  PROVE  Contains(q, [c |-> c, err |-> FALSE]) <=> WroteIn(q, c)
<1>1. DOMAIN q = 1..Len(q) /\ \A k \in DOMAIN q : q[k] \in Reply
  OBVIOUS
<1>2. \A k \in DOMAIN q : q[k] = [c |-> c, err |-> FALSE] <=> q[k].c = c /\ ~q[k].err
  BY <1>1 DEF Reply
<1> QED BY <1>1, <1>2 DEF Contains, WroteIn

LEMMA ReplyAdded ==
  ASSUME NEW q \in Seq(Reply), NEW y \in Reply, NEW n, n = Append(q, y)
  PROVE  /\ n \in Seq(Reply)
         /\ \A k \in DOMAIN n : \/ k \in DOMAIN q /\ n[k] = q[k]
                                \/ k = Len(q) + 1 /\ n[k] = y
         /\ \A k \in DOMAIN q : k \in DOMAIN n /\ n[k] = q[k]
         /\ Len(q) + 1 \in DOMAIN n /\ n[Len(q) + 1] = y /\ Len(q) + 1 \notin DOMAIN q
<1>1. n \in Seq(Reply) /\ IsSeq(q)
  BY SeqIsSeq
<1>2. /\ IsSeq(n) /\ Len(n) = Len(q) + 1 /\ n[Len(q) + 1] = y
      /\ \A k \in 1..Len(q) : n[k] = q[k]
  BY <1>1, AppendedTo
<1>3. DOMAIN n = 1..Len(n) /\ DOMAIN q = 1..Len(q) /\ Len(q) \in Nat
  BY <1>1, <1>2, Indexed
<1> QED BY <1>1, <1>2, <1>3

LEMMA ChunkAnswered ==
  ASSUME WriterState, WritesKeepOrder, Writing(w), NEW y \in Reply, y.c = ws[w].current.c,
         DOMAIN ws'[w] = DOMAIN ws[w],
         ws'[w].current = NoItem, ws'[w].length = Less(ws[w].length),
         ws'[w].pending = ws[w].pending, ws'[w].corkedBuffer = ws[w].corkedBuffer,
         ws'[w].destroyed = ws[w].destroyed,
         ws'[w].ended = ws[w].ended, ws'[w].corked = ws[w].corked,
         done' = Append(done, y), UNCHANGED <<accepted, called, calls>>
  PROVE  WriterState' /\ WritesKeepOrder' /\ ~Writing(w)'
<1>1. PICK x : x = ws[w].current
  OBVIOUS
<1>2. x \in Item /\ x.c = y.c
  BY <1>1 DEF WriterState, Writing
<1>3. done \in Seq(Reply) /\ done' \in Seq(Reply) /\ Len(done') = Len(done) + 1
      /\ Len(done) \in Nat /\ Len(accepted) \in Nat
  BY DEF WriterState
<1>4. ws'[w].length \in Nat
  BY DEF WriterState, Less
<1>5. WriterState'
  BY <1>3, <1>4 DEF WriterState
<1>6. ~Writing(w)'
  BY DEF Writing
<1>7. Current = <<x>> /\ Current' = <<>>
  BY <1>1, <1>6 DEF Current, Then
<1>8. ASSUME Live PROVE WritesKeepOrder'
  <2>1. PICK a, p, q : a = done /\ p = ws[w].pending /\ q = ws[w].corkedBuffer
    OBVIOUS
  <2>2. a \in Seq(Entry) /\ p \in Seq(Entry) /\ q \in Seq(Entry) /\ x \in Entry /\ y \in Entry
        /\ <<x>> \in Seq(Entry)
    BY <1>2, <2>1, Accounts DEF Entry
  <2>3. Chunks(Line(a, <<x>>, p, q)) = Chunks(Line(Append(a, y), <<>>, p, q))
    BY <1>2, <2>2, OrderSettled
  <2>4. accepted = Chunks(Line(a, <<x>>, p, q)) /\ ws[w].length = Len(accepted) - Len(a)
    BY <1>7, <1>8, <2>1 DEF WritesKeepOrder, Live, Line
  <2>5. accepted' = Chunks(Line(done', Current', ws'[w].pending, ws'[w].corkedBuffer))
    BY <1>7, <2>1, <2>3, <2>4
  <2>6. Len(accepted) = Len(a) + 1 + Len(p) + Len(q)
    <3>1. PICK b : b = <<x>>
      OBVIOUS
    <3>2. b \in Seq(Entry) /\ Len(b) = 1
      BY <2>2, <3>1
    <3>3. Len(Chunks(Line(a, b, p, q))) = Lengths(a, b, p, q)
      BY <2>2, <3>2, LengthOf
    <3> QED BY <2>4, <3>1, <3>2, <3>3 DEF Lengths
  <2>7. Len(p) \in Nat /\ Len(q) \in Nat /\ Len(a) \in Nat
    BY <2>2
  <2>8. ws[w].length > 0 /\ ws[w].length \in Nat
    BY <2>4, <2>6, <2>7
  <2>9. ws'[w].length = Len(accepted) - Len(done')
    BY <1>3, <2>1, <2>4, <2>7, <2>8 DEF Less
  <2> QED BY <2>5, <2>9 DEF WritesKeepOrder, Line
<1>9. ASSUME ~Live PROVE WritesKeepOrder'
  BY <1>9 DEF WritesKeepOrder, Live
<1> QED BY <1>5, <1>6, <1>8, <1>9

LEMMA Pair ==
  \A a, b : <<a>> \o <<b>> = <<a, b>>
<1>1. ASSUME NEW a, NEW b PROVE <<a>> \o <<b>> = <<a, b>>
  <2>1. <<a>> \in Seq({a, b}) /\ b \in {a, b}
    OBVIOUS
  <2>2. Append(<<a>>, b) = <<a>> \o <<b>>
    BY <2>1, AppendIsConcat
  <2>3. PICK s : s = Append(<<a>>, b)
    OBVIOUS
  <2>4. IsSeq(<<a>>) /\ Len(<<a>>) = 1 /\ <<a>>[1] = a
    BY Short
  <2>5. s \in Seq({a, b}) /\ Len(s) = 2 /\ s[1] = a /\ s[2] = b
    BY <2>1, <2>3, <2>4, AppendedTo
  <2>6. s = <<a, b>>
    BY <2>5
  <2> QED BY <2>2, <2>3, <2>6
<1> QED BY <1>1

\* No write is refused that was not.
LEMMA RefusalsKept ==
  ASSUME NEW P, NEW d, Shifted(P, d), \A k \in 1..Len(P) : P[k].fn # "failWrites"
  PROVE  (\A c : IsFailing(c)' => IsFailing(c)) /\ (OneRefusal => OneRefusal')
<1>1. ASSUME NEW k \in DOMAIN stack', stack'[k].fn = "failWrites"
      PROVE  \E m \in DOMAIN stack : k = m + Len(P) - d /\ stack'[k] = stack[m]
  BY <1>1, Origin
<1>2. \A c : IsFailing(c)' => IsFailing(c)
  BY <1>1 DEF IsFailing, Fails
<1>3. ASSUME OneRefusal PROVE OneRefusal'
  <2>1. ASSUME NEW k \in DOMAIN stack', stack'[k].fn = "failWrites",
               NEW i \in DOMAIN stack'[k].list, NEW j \in DOMAIN stack'[k].list,
               stack'[k].list[i].c = stack'[k].list[j].c
        PROVE  i = j
    <3>1. PICK m \in DOMAIN stack : stack'[k] = stack[m]
      BY <1>1, <2>1
    <3> QED BY <1>3, <2>1, <3>1 DEF OneRefusal
  <2>2. ASSUME NEW k \in DOMAIN stack', NEW l \in DOMAIN stack', NEW c \in Numbers,
               Fails(stack'[k], c), Fails(stack'[l], c)
        PROVE  k = l
    <3>1. PICK m \in DOMAIN stack : k = m + Len(P) - d /\ stack'[k] = stack[m]
      BY <1>1, <2>2 DEF Fails
    <3>2. PICK n \in DOMAIN stack : l = n + Len(P) - d /\ stack'[l] = stack[n]
      BY <1>1, <2>2 DEF Fails
    <3>3. m = n
      BY <1>3, <2>2, <3>1, <3>2 DEF OneRefusal
    <3> QED BY <3>1, <3>2, <3>3
  <2> QED BY <2>1, <2>2 DEF OneRefusal, Fails
<1> QED BY <1>2, <1>3

\* Where the chunk is that is being written.
LEMMA BeingWritten ==
  ASSUME WInv, Writing(w), NEW c, c = ws[w].current.c
  PROVE  /\ c \in Numbers /\ IsAccepted(c) /\ ~IsDone(c) /\ ~IsFailing(c) /\ ~IsQueued(c)
         /\ ~IsCalled(c) /\ ~IsTold(c) /\ ~IsRefused(c) /\ c \in 1..calls
<1>1. c \in Numbers
  BY DEF WInv, Ordered, WriterState, Writing, Item
<1>2. IsCurrent(c)
  BY DEF IsCurrent
<1>3. CASE Live
  <2>1. ~IsFailing(c)
    BY <1>3 DEF IsFailing, Fails, WInv, Ordered, Frames, StackFrames, Carries, Live
  <2> QED BY <1>1, <1>2, <1>3, <2>1, LivePlaces DEF WInv, Told, ToldOnce, Numbered, IsAccepted
<1>4. CASE ~Live
  <2>1. OnePlace /\ OnlyAccepted
    BY <1>4 DEF WInv, Dropped, Live
  <2>2. IsAccepted(c) /\ ~IsDone(c) /\ ~IsFailing(c)
    BY <1>1, <1>2, <2>1 DEF OnePlace, OnlyAccepted
  <2> QED BY <1>1, <1>2, <1>4, <2>2 DEF WInv, Told, ToldOnce, Numbered, IsAccepted, IsQueued
<1> QED BY <1>3, <1>4

LEMMA OnWriteKeeps ==
  ASSUME Inv, WInv, OnWrite, Observe, UNCHANGED <<calls, io, called>>
  PROVE  WInv'
<1>1. /\ Running("onwrite") /\ top.s = w /\ UNCHANGED <<ticks, emitted>>
      /\ 1 \in DOMAIN stack /\ stack[1].fn = "onwrite" /\ IsSeq(stack) /\ stack # <<>>
      /\ top = stack[1] /\ Carries(top)
  BY WriterRuns, WriteRuns DEF OnWrite, WriterCalls, Immediate
<1>2. /\ WriterState /\ WritesKeepOrder /\ DOMAIN ws = Writers /\ w \in Writers
      /\ (ws[w].corked = 0 => ws[w].corkedBuffer = <<>>)
  BY OneStream DEF Inv, States, WInv, Ordered
<1>3. Writing(w) /\ \A k \in DOMAIN io : io[k].fn # "_write"
  BY <1>1 DEF WInv, Ordered, OneWrite
<1>4. PICK e \in BOOLEAN : e = top.err
  BY <1>1 DEF Carries
<1>5. PICK x : x = ws[w].current.c
  OBVIOUS
<1>6. /\ x \in Numbers /\ IsAccepted(x) /\ ~IsDone(x) /\ ~IsFailing(x) /\ ~IsQueued(x)
      /\ ~IsCalled(x) /\ ~IsTold(x) /\ ~IsRefused(x) /\ x \in 1..calls
  BY <1>3, <1>5, BeingWritten
<1>7. PICK y : y = [c |-> x, err |-> e]
  OBVIOUS
<1>8. y \in Reply /\ y.c = x /\ y.err = e
  BY <1>6, <1>7 DEF Reply
<1>9. done' = Append(done, y) /\ accepted' = accepted
  BY <1>1, <1>4, <1>5, <1>7 DEF Observe, Running
<1>10. /\ DOMAIN ws'[w] = DOMAIN ws[w]
       /\ ws'[w].current = NoItem /\ ws'[w].length = Less(ws[w].length)
       /\ ws'[w].pending = ws[w].pending /\ ws'[w].corkedBuffer = ws[w].corkedBuffer
       /\ ws'[w].destroyed = ws[w].destroyed
       /\ ws'[w].ended = ws[w].ended /\ ws'[w].corked = ws[w].corked
  <2>1. ws' = [ws EXCEPT ![w].current = NoItem, ![w].length = Less(@)]
    BY <1>1 DEF OnWrite
  <2> QED BY <1>2, <2>1 DEF WriterState
<1>11. WriterState' /\ WritesKeepOrder' /\ ~Writing(w)'
  BY <1>2, <1>3, <1>5, <1>8, <1>9, <1>10, ChunkAnswered
<1>12. PICK f, g : /\ f = [fn |-> "callback", s |-> w, c |-> x, err |-> e]
                   /\ g = (IF e THEN CallE("destroy", w, TRUE) ELSE Call("afterWrite", w))
  OBVIOUS
<1>13. /\ f.fn = "callback" /\ f.c = x /\ f.err = e
       /\ e => g.fn = "destroy" /\ g.s = w
       /\ g.fn \in {"destroy", "afterWrite"}
  BY <1>12 DEF CallE, Call
<1>14. PICK P : P = <<f, g>>
  OBVIOUS
<1>15. IsSeq(P) /\ Len(P) = 2 /\ P[1] = f /\ P[2] = g
  BY <1>14, Short
<1>16. Continue(P)
  <2>1. ws[w].current.cb = TRUE
    BY <1>2, <1>3 DEF WriterState, Writing, Item
  <2>2. Callback(w, ws[w].current, e) = <<f>>
    BY <1>5, <1>12, <2>1 DEF Callback, Then
  <2>3. Continue(<<f>> \o <<g>>)
    BY <1>1, <1>4, <1>12, <2>2 DEF OnWrite
  <2> QED BY <1>14, <2>3, Pair
<1>17. Shifted(P, 1)
  BY <1>15, <1>16, ImmediateReturns, <1>1 DEF Immediate
<1>18. ASSUME NEW k \in DOMAIN stack'
       PROVE  \/ k = 1 /\ stack'[k] = f
              \/ k = 2 /\ stack'[k] = g
              \/ \E m \in DOMAIN stack :
                   m # 1 /\ stack'[k] = stack[m] /\ stack[m].fn \notin Immediate
  <2>1. \/ k \in 1..2 /\ stack'[k] = P[k]
        \/ \E m \in DOMAIN stack :
             m # 1 /\ stack'[k] = stack[m] /\ stack[m].fn \notin Immediate
    BY <1>1, <1>15, <1>16, ImmediateReturns DEF Immediate
  <2> QED BY <1>15, <2>1
<1>19. 1 \in DOMAIN stack' /\ stack'[1] = f /\ 2 \in DOMAIN stack' /\ stack'[2] = g
  BY <1>15, <1>17, Indexed DEF Shifted
<1>20. Frames'
  <2>1. CarriesNext(f) /\ CarriesNext(g) /\ g.fn \notin Immediate
    BY <1>6, <1>13 DEF CarriesNext, Immediate
  <2>2. \A k \in 1..Len(P) : CarriesNext(P[k]) /\ (P[k].fn \in Immediate => k = 1)
    BY <1>15, <2>1
  <2>3. StackFrames'
    BY <1>10, <1>17, <2>2, FramesKept
  <2>4. TickFrames'
    BY <1>1 DEF WInv, Ordered, Frames, TickFrames
  <2> QED BY <2>3, <2>4 DEF Frames
<1>21. OneWrite'
  BY <1>3, <1>13, <1>19 DEF OneWrite
<1>22. Ordered'
  BY <1>2, <1>10, <1>11, <1>20, <1>21 DEF Ordered, WInv
<1>23. Numbered'
  <2>1. \A k \in DOMAIN stack' : stack'[k].fn # "write"
    BY <1>13, <1>18 DEF Immediate
  <2> QED BY <1>9, <2>1 DEF WInv, Numbered
<1>24. PICK n \in Nat : n = Len(done) + 1
  BY <1>2 DEF WriterState
<1>25. /\ done' \in Seq(Reply)
       /\ \A k \in DOMAIN done' : \/ k \in DOMAIN done /\ done'[k] = done[k]
                                  \/ k = n /\ done'[k] = y
       /\ \A k \in DOMAIN done : k \in DOMAIN done' /\ done'[k] = done[k]
       /\ n \in DOMAIN done' /\ done'[n] = y
  BY <1>2, <1>8, <1>9, <1>24, ReplyAdded DEF WriterState
<1>26. /\ \A c : IsDone(c)' <=> IsDone(c) \/ c = x
       /\ \A c : ~IsCurrent(c)'
       /\ \A c : IsQueued(c)' <=> IsQueued(c)
       /\ \A c : IsCalled(c)' <=> IsCalled(c)
       /\ \A c : IsAccepted(c)' <=> IsAccepted(c)
       /\ \A c : IsRefused(c)' <=> IsRefused(c)
       /\ Live' <=> Live
  <2>1. \A c : IsDone(c)' <=> IsDone(c) \/ c = x
    BY <1>8, <1>25 DEF IsDone
  <2> QED BY <1>1, <1>9, <1>10, <1>11, <2>1 DEF IsCurrent, IsQueued, IsCalled, IsAccepted,
          IsRefused, Live
<1>27. \A c : IsTold(c)' => c = x
  BY <1>13, <1>18 DEF IsTold, Tells, Immediate
<1>28. IsTold(x)'
  BY <1>13, <1>19 DEF IsTold, Tells
<1>29. (\A c : IsFailing(c)' => IsFailing(c)) /\ (OneRefusal => OneRefusal')
  <2>1. \A k \in 1..Len(P) : P[k].fn # "failWrites"
    BY <1>13, <1>15
  <2> QED BY <1>17, <2>1, RefusalsKept
<1>30. Dropped'
  <2>1. SUFFICES ASSUME ws[w].destroyed PROVE OnePlace' /\ OnlyAccepted' /\ OneRefusal'
    BY <1>10 DEF Dropped
  <2>2. OnePlace /\ OnlyAccepted /\ OneRefusal
    BY <2>1 DEF WInv, Dropped
  <2>3. OnePlace'
    BY <1>6, <1>26, <1>29, <2>2 DEF OnePlace
  <2>4. OnlyAccepted'
    BY <1>6, <1>26, <1>29, <2>2 DEF OnlyAccepted
  <2> QED BY <1>29, <2>2, <2>3, <2>4
<1>31. \A c : IsTold(c) => FALSE
  BY <1>1 DEF IsTold, Tells, WInv, Ordered, Frames, StackFrames, Immediate
<1>32. ToldOnce'
  <2>1. ToldOnce
    BY DEF WInv, Told
  <2>2. ASSUME NEW c \in Numbers
        PROVE  /\ IsQueued(c)' \/ IsFailing(c)' => ~IsCalled(c)' /\ ~IsTold(c)'
               /\ IsRefused(c)' => ~IsAccepted(c)' /\ ~IsCalled(c)' /\ ~IsTold(c)'
               /\ IsTold(c)' => ~IsCalled(c)'
               /\ Live' /\ IsDone(c)' => IsCalled(c)' \/ IsTold(c)'
    BY <1>6, <1>26, <1>27, <1>28, <1>29, <1>31, <2>1 DEF ToldOnce
  <2> QED BY <1>26, <2>2 DEF ToldOnce
<1>33. \A c : WasWritten(c)' <=> WasWritten(c) \/ (c = x /\ ~e)
  <2>1. \A c : WroteIn(done', c) <=> WroteIn(done, c) \/ (c = x /\ ~e)
    BY <1>8, <1>25 DEF WroteIn
  <2>2. ASSUME NEW c
        PROVE  Contains(done', [c |-> c, err |-> FALSE]) <=> WroteIn(done', c)
    BY <1>25, WrittenIs
  <2>3. ASSUME NEW c
        PROVE  Contains(done, [c |-> c, err |-> FALSE]) <=> WroteIn(done, c)
    BY <1>2, WrittenIs DEF WriterState
  <2> QED BY <2>1, <2>2, <2>3 DEF WasWritten
<1>34. ~WasWritten(x)
  <2>1. WasWritten(x) => WroteIn(done, x)
    BY <1>2, WrittenIs DEF WasWritten, WriterState
  <2> QED BY <1>6, <2>1 DEF WroteIn, IsDone
<1>35. TrueCallbacks'
  <2>1. ASSUME NEW k \in DOMAIN stack', stack'[k].fn = "callback"
        PROVE  stack'[k] = f
    BY <1>13, <1>18, <2>1 DEF Immediate
  <2>2. e <=> ~WasWritten(x)'
    BY <1>33, <1>34
  <2>3. ASSUME NEW k \in DOMAIN stack', stack'[k].fn = "callback"
        PROVE  stack'[k].err <=> ~WasWritten(stack[k].c)'
    <3>1. stack'[k].err = e /\ stack'[k].c = x
      BY <1>13, <2>1, <2>3
    <3> QED BY <2>2, <3>1 DEF WasWritten
  <2> QED BY <2>3 DEF TrueCallbacks, WasWritten
<1>36. TrueAnswers'
  <2>1. TrueAnswers
    BY DEF WInv, Told
  <2>2. ASSUME NEW k \in DOMAIN called PROVE called[k].err <=> ~WasWritten(called[k].c)'
    <3>1. called[k].c # x
      BY <1>6 DEF IsCalled
    <3>2. WasWritten(called[k].c)' <=> WasWritten(called[k].c)
      BY <1>33, <3>1 DEF WasWritten
    <3> QED BY <2>1, <3>2 DEF TrueAnswers
  <2> QED BY <2>1, <2>2 DEF TrueAnswers, WasWritten
<1>37. RefusedOnce'
  BY <1>1 DEF WInv, Told, RefusedOnce
<1>38. Told'
  BY <1>32, <1>35, <1>36, <1>37 DEF Told
<1>39. ASSUME ~CallsInFailure PROVE FailsNext' /\ (Finishes' => AllWritten')
  <2>1. FailsNext /\ (Finishes => AllWritten)
    BY <1>39 DEF WInv
  <2>2. FailsNext'
    <3>1. ASSUME Live, NEW k \in DOMAIN done, done[k].err PROVE FALSE
      <4>1. PICK m \in DOMAIN stack :
              /\ stack[m].fn = "destroy" /\ m \in 1..2
              /\ m = 2 => stack[1].fn = "callback"
        BY <2>1, <3>1 DEF FailsNext
      <4> QED BY <1>1, <4>1
    <3>2. ASSUME Live', NEW k \in DOMAIN done', done'[k].err
          PROVE  stack'[2].fn = "destroy" /\ stack'[2].s = w /\ stack'[1].fn = "callback"
                 /\ stack'[1].err
      <4>1. done'[k] = y
        BY <1>25, <1>26, <3>1, <3>2
      <4> QED BY <1>8, <1>13, <1>19, <3>2, <4>1
    <3> QED BY <1>19, <3>2 DEF FailsNext, Live
  <2>3. Finishes' => Finishes
    <3>1. ASSUME NEW k \in DOMAIN stack', Finishing(stack'[k]) PROVE Finishes
      <4>1. \E m \in DOMAIN stack : stack'[k] = stack[m]
        BY <1>13, <1>18, <3>1 DEF Finishing, Emits
      <4> QED BY <3>1, <4>1 DEF Finishes
    <3> QED BY <1>1, <3>1 DEF Finishes, Finishing, Emits, Came
  <2> QED BY <1>3, <2>1, <2>2, <2>3 DEF AllWritten
<1> QED BY <1>22, <1>23, <1>30, <1>38, <1>39 DEF WInv

-----------------------------------------------------------------------------
(* The stream is destroyed. *)

\* What destroy() calls: what fails the queued writes, then two calls more.
Row(A, B, d, e) == A \o B \o <<d>> \o <<e>>

LEMMA DestroyCalls ==
  ASSUME NEW A, NEW B, IsSeq(A), IsSeq(B), Len(A) \in 0..1, Len(B) \in 0..1,
         NEW d, NEW e, NEW Q, Q = Row(A, B, d, e)
  PROVE  /\ IsSeq(Q)
         /\ \A k \in 1..Len(Q) : \/ 1 \in DOMAIN A /\ k = 1 /\ Q[k] = A[1]
                                 \/ 1 \in DOMAIN B /\ k = Len(A) + 1 /\ Q[k] = B[1]
                                 \/ Q[k] \in {d, e}
<1>1. PICK M, N : M = A \o B /\ N = A \o B \o <<d>>
  OBVIOUS
<1>2. IsSeq(M) /\ Len(M) = Len(A) + Len(B)
  BY <1>1, Joined
<1>3. N = M \o <<d>> /\ IsSeq(N) /\ IsSeq(<<d>>) /\ IsSeq(<<e>>)
  BY <1>1, <1>2, Joined, Short
<1>4. Q = N \o <<e>> /\ IsSeq(Q)
  <2>1. Q = N \o <<e>>
    BY <1>1 DEF Row
  <2> QED BY <1>3, <2>1, Joined
<1>5. ASSUME NEW k \in DOMAIN Q PROVE (k \in DOMAIN N /\ Q[k] = N[k]) \/ Q[k] = e
  <2>1. PICK t : t = <<e>>
    OBVIOUS
  <2>2. IsSeq(t) /\ DOMAIN t = {1} /\ t[1] = e
    BY <1>3, <2>1
  <2>3. Q = N \o t /\ k \in DOMAIN (N \o t)
    BY <1>4, <1>5, <2>1
  <2>4. \/ k \in DOMAIN N /\ (N \o t)[k] = N[k]
        \/ \E i \in DOMAIN t : k = i + Len(N) /\ (N \o t)[k] = t[i]
    <3>1. IsSeq(N) /\ IsSeq(t)
      BY <1>3, <2>2
    <3>2. k \in DOMAIN (N \o t)
      BY <2>3
    <3> QED BY <3>1, <3>2, JoinedOrigin
  <2> QED BY <2>2, <2>3, <2>4
<1>6. ASSUME NEW k \in DOMAIN N PROVE (k \in DOMAIN M /\ N[k] = M[k]) \/ N[k] = d
  <2>1. PICK t : t = <<d>>
    OBVIOUS
  <2>2. IsSeq(t) /\ DOMAIN t = {1} /\ t[1] = d
    BY <1>3, <2>1
  <2>3. N = M \o t /\ k \in DOMAIN (M \o t)
    BY <1>3, <1>6, <2>1
  <2>4. \/ k \in DOMAIN M /\ (M \o t)[k] = M[k]
        \/ \E i \in DOMAIN t : k = i + Len(M) /\ (M \o t)[k] = t[i]
    BY <1>2, <2>2, <2>3, JoinedOrigin
  <2> QED BY <2>2, <2>3, <2>4
<1>7. ASSUME NEW k \in DOMAIN M
      PROVE  \/ k \in DOMAIN A /\ M[k] = A[k]
             \/ \E i \in DOMAIN B : k = i + Len(A) /\ M[k] = B[i]
  BY <1>1, <1>7, JoinedOrigin
<1>8. (\A k \in DOMAIN A : k = 1) /\ (\A k \in DOMAIN B : k = 1) /\ Len(A) \in Nat
  BY Indexed
<1>9. ASSUME NEW k \in DOMAIN Q
      PROVE  \/ 1 \in DOMAIN A /\ k = 1 /\ Q[k] = A[1]
             \/ 1 \in DOMAIN B /\ k = Len(A) + 1 /\ Q[k] = B[1]
             \/ Q[k] \in {d, e}
  <2>1. CASE k \in DOMAIN M /\ Q[k] = M[k]
    <3>1. CASE k \in DOMAIN A /\ M[k] = A[k]
      BY <1>8, <2>1, <3>1
    <3>2. CASE \E i \in DOMAIN B : k = i + Len(A) /\ M[k] = B[i]
      BY <1>8, <2>1, <3>2
    <3> QED BY <1>7, <2>1, <3>1, <3>2
  <2> QED BY <1>5, <1>6, <2>1
<1>10. DOMAIN Q = 1..Len(Q)
  BY <1>4, Indexed
<1> QED BY <1>4, <1>9, <1>10

LEMMA FailCalls ==
  ASSUME NEW s, NEW list
  PROVE  /\ IsSeq(FailWrites(s, list)) /\ Len(FailWrites(s, list)) \in 0..1
         /\ 1 \in DOMAIN FailWrites(s, list) =>
              /\ list # <<>>
              /\ FailWrites(s, list)[1].fn = "failWrites" /\ FailWrites(s, list)[1].list = list
<1>1. PICK f : f = [fn |-> "failWrites", s |-> s, list |-> list]
  OBVIOUS
<1>2. f.fn = "failWrites" /\ f.list = list
  BY <1>1
<1>3. CASE list = <<>>
  <2>1. FailWrites(s, list) = <<>>
    BY <1>3 DEF FailWrites, Then
  <2> QED BY <2>1, Short
<1>4. CASE list # <<>>
  <2>1. PICK q : q = <<f>>
    OBVIOUS
  <2>2. FailWrites(s, list) = q
    BY <1>1, <1>4, <2>1 DEF FailWrites, Then
  <2>3. IsSeq(q) /\ Len(q) = 1 /\ q[1] = f
    BY <2>1, Short
  <2> QED BY <1>2, <1>4, <2>2, <2>3
<1> QED BY <1>3, <1>4

DestroyRow(P) ==
  \E d, e : /\ d.fn = "dropWrites" /\ e.fn \in {"_destroy", "closed"}
            /\ P = Row(FailWrites(w, ws[w].pending), FailWrites(w, ws[w].corkedBuffer), d, e)

\* The stream is destroyed that is being written.
LEMMA WriterDestroyed ==
  ASSUME Inv, WInv, Running("destroy"), Live,
         UNCHANGED <<accepted, done, called, calls, io, ticks, emitted>>,
         DOMAIN ws'[w] = DOMAIN ws[w],
         ws'[w].pending = ws[w].pending, ws'[w].corkedBuffer = ws[w].corkedBuffer,
         ws'[w].current = ws[w].current, ws'[w].length = ws[w].length,
         ws'[w].corked = ws[w].corked, ws'[w].destroyed = TRUE, ws'[w].ended = TRUE,
         NEW P, DestroyRow(P), Continue(P)
  PROVE  WInv'
<1>0. PICK A, B, d, e :
         /\ A = FailWrites(w, ws[w].pending) /\ B = FailWrites(w, ws[w].corkedBuffer)
         /\ d.fn = "dropWrites" /\ e.fn \in {"_destroy", "closed"} /\ P = Row(A, B, d, e)
  BY DEF DestroyRow
<1>1. /\ IsSeq(stack) /\ stack # <<>> /\ 1 \in DOMAIN stack /\ stack[1].fn = "destroy"
  BY Top
<1>2. IsSeq(A) /\ Len(A) \in 0..1 /\ IsSeq(B) /\ Len(B) \in 0..1
  BY <1>0, FailCalls
<1>3. /\ 1 \in DOMAIN A => /\ ws[w].pending # <<>>
                           /\ A[1].fn = "failWrites" /\ A[1].list = ws[w].pending
      /\ 1 \in DOMAIN B => /\ ws[w].corkedBuffer # <<>>
                           /\ B[1].fn = "failWrites" /\ B[1].list = ws[w].corkedBuffer
  BY <1>0, FailCalls
<1>4. /\ IsSeq(P)
      /\ \A k \in 1..Len(P) : \/ 1 \in DOMAIN A /\ k = 1 /\ P[k] = A[1]
                              \/ 1 \in DOMAIN B /\ k = Len(A) + 1 /\ P[k] = B[1]
                              \/ P[k] \in {d, e}
  BY <1>0, <1>2, DestroyCalls
<1>5. Shifted(P, 1)
  BY <1>1, <1>4, Replaced
<1>6. /\ WriterState /\ (ws[w].corked = 0 => ws[w].corkedBuffer = <<>>)
      /\ ws[w].pending \in Seq(Item) /\ ws[w].corkedBuffer \in Seq(Item)
  BY DEF WInv, Ordered, WriterState
<1>7. WriterState'
  BY <1>6 DEF WriterState
<1>8. \A k \in DOMAIN stack : stack[k].fn \notin Immediate \cup {"failWrites"}
  BY <1>1 DEF WInv, Ordered, Frames, StackFrames, Carries, Live, Immediate
<1>9. ASSUME NEW k \in 1..Len(P)
      PROVE  \/ /\ P[k].fn = "failWrites"
                /\ \/ k = 1 /\ P[k].list = ws[w].pending /\ ws[w].pending # <<>>
                   \/ k = Len(A) + 1 /\ P[k].list = ws[w].corkedBuffer /\ ws[w].corkedBuffer # <<>>
             \/ P[k].fn \in {"dropWrites", "_destroy", "closed"}
  BY <1>0, <1>3, <1>4
<1>10. Frames'
  <2>1. \A k \in 1..Len(P) : CarriesNext(P[k]) /\ P[k].fn \notin Immediate
    BY <1>6, <1>9 DEF CarriesNext, Immediate
  <2>2. StackFrames'
    BY <1>5, <1>8, <2>1, FramesKept
  <2>3. TickFrames'
    BY DEF WInv, Ordered, Frames, TickFrames
  <2> QED BY <2>2, <2>3 DEF Frames
<1>11. ASSUME NEW k \in DOMAIN stack'
       PROVE  \/ /\ stack'[k].fn = "failWrites"
                 /\ \/ k = 1 /\ stack'[k].list = ws[w].pending
                    \/ k = Len(A) + 1 /\ stack'[k].list = ws[w].corkedBuffer
              \/ stack'[k].fn \in {"dropWrites", "_destroy", "closed"}
              \/ \E m \in DOMAIN stack : stack'[k] = stack[m]
  BY <1>5, <1>9, Origin
<1>12. \A k \in DOMAIN stack' : stack'[k].fn \notin Immediate
  BY <1>8, <1>11 DEF Immediate
<1>13. Ordered'
  <2>1. OneWrite'
    BY <1>12 DEF WInv, Ordered, OneWrite, Writing, Immediate
  <2>2. WritesKeepOrder'
    BY DEF WritesKeepOrder
  <2> QED BY <1>6, <1>7, <1>10, <2>1, <2>2 DEF Ordered
<1>14. Numbered'
  BY <1>12 DEF WInv, Numbered, Immediate
<1>15. ASSUME NEW k \in DOMAIN stack', stack'[k].fn = "failWrites"
       PROVE  \/ k = 1 /\ stack'[k].list = ws[w].pending
              \/ k = Len(A) + 1 /\ stack'[k].list = ws[w].corkedBuffer
  BY <1>8, <1>11, <1>15
<1>16. /\ \A c : Has(Waiting, c) <=> \E k \in DOMAIN ws[w].pending : ws[w].pending[k].c = c
       /\ \A c : Has(Corked, c) <=>
                   \E k \in DOMAIN ws[w].corkedBuffer : ws[w].corkedBuffer[k].c = c
       /\ \A k \in DOMAIN ws[w].pending : k \in DOMAIN Waiting /\ Waiting[k] = ws[w].pending[k].c
       /\ \A k \in DOMAIN ws[w].corkedBuffer :
            k \in DOMAIN Corked /\ Corked[k] = ws[w].corkedBuffer[k].c
  BY <1>6, Kinds DEF Waiting, Corked, Chunks
<1>17. \A c : IsFailing(c)' => IsQueued(c)
  BY <1>15 DEF IsFailing, Fails, IsQueued
<1>18. /\ \A c : IsDone(c)' <=> IsDone(c)
       /\ \A c : IsCurrent(c)' <=> IsCurrent(c)
       /\ \A c : IsAccepted(c)' <=> IsAccepted(c)
       /\ \A c : IsCalled(c)' <=> IsCalled(c)
       /\ \A c : IsRefused(c)' <=> IsRefused(c)
  BY DEF IsDone, IsCurrent, Writing, IsAccepted, IsCalled, IsRefused
<1>19. OnePlace' /\ OnlyAccepted'
  BY <1>17, <1>18, LivePlaces DEF OnePlace, OnlyAccepted
<1>20. OneRefusal'
  <2>0. Once(Waiting) /\ Once(Corked) /\ \A c : ~(Has(Waiting, c) /\ Has(Corked, c))
    BY LivePlaces
  <2>1. ASSUME NEW k \in DOMAIN stack', stack'[k].fn = "failWrites",
               NEW i \in DOMAIN stack'[k].list, NEW j \in DOMAIN stack'[k].list,
               stack'[k].list[i].c = stack'[k].list[j].c
        PROVE  i = j
    <3>1. CASE stack'[k].list = ws[w].pending
      BY <1>16, <2>0, <2>1, <3>1 DEF Once
    <3>2. CASE stack'[k].list = ws[w].corkedBuffer
      BY <1>16, <2>0, <2>1, <3>2 DEF Once
    <3> QED BY <1>15, <2>1, <3>1, <3>2
  <2>2. ASSUME NEW k \in DOMAIN stack', NEW c, Fails(stack'[k], c)
        PROVE  \/ k = 1 /\ Has(Waiting, c)
               \/ k = Len(A) + 1 /\ Has(Corked, c)
    <3>1. stack'[k].fn = "failWrites" /\ \E j \in DOMAIN stack'[k].list : stack'[k].list[j].c = c
      BY <2>2 DEF Fails
    <3>2. CASE k = 1 /\ stack'[k].list = ws[w].pending
      <4>1. \E j \in DOMAIN ws[w].pending : ws[w].pending[j].c = c
        BY <3>1, <3>2
      <4>2. Has(Waiting, c)
        BY <1>16, <4>1
      <4> QED BY <3>2, <4>2
    <3>3. CASE k = Len(A) + 1 /\ stack'[k].list = ws[w].corkedBuffer
      <4>1. \E j \in DOMAIN ws[w].corkedBuffer : ws[w].corkedBuffer[j].c = c
        BY <3>1, <3>3
      <4> QED BY <1>16, <3>3, <4>1
    <3> QED BY <1>15, <3>1, <3>2, <3>3
  <2>3. ASSUME NEW k \in DOMAIN stack', NEW l \in DOMAIN stack', NEW c \in Numbers,
               Fails(stack'[k], c), Fails(stack'[l], c)
        PROVE  k = l
    BY <2>0, <2>2, <2>3
  <2> QED BY <2>1, <2>3 DEF OneRefusal, Fails
<1>21. Dropped'
  BY <1>19, <1>20 DEF Dropped
<1>22. Told'
  <2>0. ToldOnce /\ RefusedOnce /\ TrueAnswers
    BY DEF WInv, Told
  <2>1. \A c : ~IsTold(c)'
    BY <1>12 DEF IsTold, Tells, Immediate
  <2>2. ~Live' /\ \A c : ~IsQueued(c)'
    BY DEF IsQueued, Live
  <2>3. ToldOnce'
    <3>1. ASSUME NEW c \in Numbers
          PROVE  /\ IsCurrent(c)' \/ IsFailing(c)' => ~IsCalled(c)'
                 /\ IsRefused(c)' => ~IsAccepted(c)' /\ ~IsCalled(c)'
      BY <1>17, <1>18, <2>0 DEF ToldOnce
    <3> QED BY <2>1, <2>2, <3>1 DEF ToldOnce
  <2>4. RefusedOnce'
    BY <2>0 DEF RefusedOnce
  <2>5. TrueCallbacks'
    BY <1>12 DEF TrueCallbacks, Immediate
  <2>6. TrueAnswers'
    BY <2>0 DEF TrueAnswers, WasWritten
  <2> QED BY <2>3, <2>4, <2>5, <2>6 DEF Told
<1>23. ASSUME ~CallsInFailure PROVE FailsNext' /\ (Finishes' => AllWritten')
  <2>1. FailsNext'
    BY DEF FailsNext, Live
  <2>2. Finishes' => Finishes
    <3>1. ASSUME NEW k \in DOMAIN stack', Finishing(stack'[k]) PROVE Finishes
      <4>1. \E m \in DOMAIN stack : stack'[k] = stack[m]
        BY <1>11, <3>1 DEF Finishing, Emits
      <4> QED BY <3>1, <4>1 DEF Finishes
    <3> QED BY <3>1 DEF Finishes, Finishing, Emits, Came
  <2>3. AllWritten => AllWritten'
    BY <1>18 DEF AllWritten, Writing
  <2> QED BY <1>23, <2>1, <2>2, <2>3 DEF WInv
<1> QED BY <1>13, <1>14, <1>21, <1>22, <1>23 DEF WInv

\* What destroy() does to the stream that is written.
LEMMA DestroyedFields ==
  ASSUME Inv, WInv, NEW err,
         ws' = [x \in Writers |->
                  IF x = w THEN [ws[x] EXCEPT !.destroyed = TRUE, !.ended = TRUE,
                                              !.errored = @ \/ err]
                  ELSE ws[x]]
  PROVE  /\ DOMAIN ws'[w] = DOMAIN ws[w]
         /\ ws'[w].pending = ws[w].pending /\ ws'[w].corkedBuffer = ws[w].corkedBuffer
         /\ ws'[w].current = ws[w].current /\ ws'[w].length = ws[w].length
         /\ ws'[w].corked = ws[w].corked
         /\ ws'[w].destroyed = TRUE /\ ws'[w].ended = TRUE
<1>1. WriterState /\ w \in Writers
  BY OneStream DEF WInv, Ordered
<1>2. ws'[w] = [ws[w] EXCEPT !.destroyed = TRUE, !.ended = TRUE, !.errored = @ \/ err]
  BY <1>1
<1> QED BY <1>1, <1>2 DEF WriterState

LEMMA DestroyKeeps ==
  ASSUME Inv, WInv, Destroy, Observe, UNCHANGED <<calls, io, called>>
  PROVE  WInv'
<1>1. /\ Running("destroy") /\ UNCHANGED <<ticks, emitted>>
      /\ IsSeq(stack) /\ stack # <<>> /\ 1 \in DOMAIN stack /\ stack[1].fn = "destroy"
      /\ top = stack[1] /\ top.s \in Streams
  BY Top DEF Destroy
<1>2. accepted' = accepted /\ done' = done
  BY <1>1 DEF Observe, Running
<1>3. DOMAIN ws = Writers /\ w \in Writers /\ Writers = {w} /\ IsSeq(ticks)
  BY OneStream, UserAssumption DEF Inv, States, Calls, AllPlain
<1>4. PICK s, err : s = top.s /\ err = top.err
  OBVIOUS
<1>5. PICK e : e = CallE(IF s \in CustomDestroy THEN "_destroy" ELSE "closed", s, err)
  OBVIOUS
<1>6. e.fn \in {"_destroy", "closed"}
  BY <1>5 DEF CallE
<1>7. ASSUME ws'[w] = ws[w], NEW P, Continue(P), AllQuiet(P), s # w \/ ws[w].destroyed PROVE WInv'
  <2>1. Shifted(P, 1) /\ Bystanders(P)
    BY <1>1, <1>7, Replaced DEF AllQuiet, Bystanders, QuietCall
  <2>2. SameQueues /\ SameDebts
    BY <1>2, <1>7, SameIo DEF WInv, Ordered, SameQueues, WriterState
  <2>3. PICK q : AllTicks(q) /\ ticks' = ticks \o q
    BY <1>1, <1>3, TicksStay DEF TicksGrow
  <2>4. Finishes' => Finishes
    BY <1>1, <1>7, <2>1, NoneFinishes DEF Came, Finishes
  <2>5. calls' >= calls
    BY UserAssumption DEF WInv, Ordered, WriterState
  <2>6. 1 \in DOMAIN stack =>
           /\ stack[1].fn \notin Immediate \cup {"failWrites"}
           /\ stack[1].fn = "destroy" => stack[1].s # w \/ ws[w].destroyed
    BY <1>1, <1>4, <1>7 DEF Immediate
  <2> QED BY <1>3, <2>1, <2>2, <2>3, <2>4, <2>5, <2>6, QuietStep
<1>8. CASE Destroyed(s)
  <2>1. Continue(<<>>) /\ ws'[w] = ws[w]
    BY <1>4, <1>8 DEF Destroy
  <2>2. s # w \/ ws[w].destroyed
    BY <1>3, <1>8 DEF Destroyed, Inv, States
  <2> QED BY <1>7, <2>1, <2>2, QuietLists
<1>9. CASE ~Destroyed(s) /\ s # w
  <2>1. s \notin Writers
    BY <1>3, <1>9
  <2>2. ws' = [x \in Writers |-> IF x = s THEN [ws[x] EXCEPT !.destroyed = TRUE, !.ended = TRUE,
                                                             !.errored = @ \/ err]
                                 ELSE ws[x]]
    BY <1>4, <1>9, Zenon DEF Destroy
  <2>3. ws'[w] = ws[w]
    BY <1>3, <1>9, <2>2
  <2>4. Continue(Then(s \in Writers, FailWrites(s, ws[s].pending)
                                     \o FailWrites(s, ws[s].corkedBuffer)
                                     \o <<Call("dropWrites", s)>>) \o <<e>>)
    BY <1>4, <1>5, <1>9, Zenon DEF Destroy
  <2>5. Continue(<<>> \o <<e>>)
    BY <2>1, <2>4 DEF Then
  <2>6. QuietCall(e)
    BY <1>6 DEF QuietCall, Bystander, Finishing, Emits, Immediate
  <2>7. AllQuiet(<<>>) /\ AllQuiet(<<e>>)
    BY <2>6, QuietLists
  <2>8. AllQuiet(<<>> \o <<e>>)
    BY <2>7, QuietJoined
  <2> QED BY <1>7, <1>9, <2>3, <2>5, <2>8
<1>10. CASE ~Destroyed(s) /\ s = w
  <2>1. Live
    BY <1>3, <1>10 DEF Destroyed, Live
  <2>2. ws' = [x \in Writers |-> IF x = s THEN [ws[x] EXCEPT !.destroyed = TRUE, !.ended = TRUE,
                                                             !.errored = @ \/ err]
                                 ELSE ws[x]]
    BY <1>4, <1>10, Zenon DEF Destroy
  <2>3. /\ DOMAIN ws'[w] = DOMAIN ws[w]
        /\ ws'[w].pending = ws[w].pending /\ ws'[w].corkedBuffer = ws[w].corkedBuffer
        /\ ws'[w].current = ws[w].current /\ ws'[w].length = ws[w].length
        /\ ws'[w].corked = ws[w].corked
        /\ ws'[w].destroyed = TRUE /\ ws'[w].ended = TRUE
    BY <1>10, <2>2, DestroyedFields
  <2>4. PICK A, B, d : /\ A = FailWrites(w, ws[w].pending) /\ B = FailWrites(w, ws[w].corkedBuffer)
                       /\ d = Call("dropWrites", w)
    OBVIOUS
  <2>5. d.fn = "dropWrites"
    BY <2>4 DEF Call
  <2>6. Continue(Then(s \in Writers, FailWrites(s, ws[s].pending)
                                     \o FailWrites(s, ws[s].corkedBuffer)
                                     \o <<Call("dropWrites", s)>>) \o <<e>>)
    BY <1>4, <1>5, <1>10, Zenon DEF Destroy
  <2>7. PICK P : P = Row(A, B, d, e)
    OBVIOUS
  <2>8. Continue(P)
    <3>1. P = A \o B \o <<d>> \o <<e>>
      BY <2>7 DEF Row
    <3>2. Continue((A \o B \o <<d>>) \o <<e>>)
      BY <1>3, <1>10, <2>4, <2>6 DEF Then
    <3> QED BY <3>1, <3>2
  <2>9. UNCHANGED <<accepted, done, called, calls, io, ticks, emitted>>
    BY <1>1, <1>2
  <2>10. A = FailWrites(w, ws[w].pending) /\ B = FailWrites(w, ws[w].corkedBuffer)
    BY <2>4
  <2>11. Running("destroy") /\ e.fn \in {"_destroy", "closed"}
    BY <1>1, <1>6
  <2>12. DestroyRow(P)
    BY <2>5, <2>7, <2>10, <2>11 DEF DestroyRow
  <2> QED BY <2>1, <2>3, <2>8, <2>9, <2>11, <2>12, WriterDestroyed
<1> QED BY <1>8, <1>9, <1>10

\* What fails one queued write calls: its callback, and what fails the others.
Rest(list) == Tail(list)
Both(A, B) == A \o B
Refusal(s, list) == Both(Callback(s, Head(list), TRUE), FailWrites(s, Rest(list)))
Follows(t, list) ==
  \A j \in DOMAIN t : j + 1 \in DOMAIN list /\ j + 1 # 1 /\ t[j] = list[j + 1]

Refuses(P, t, list) ==
  /\ IsSeq(P) /\ 1 \in DOMAIN P
  /\ P[1].fn = "callback" /\ P[1].c = list[1].c /\ P[1].err = TRUE
  /\ \A k \in 1..Len(P) : k = 1 \/ (P[k].fn = "failWrites" /\ P[k].list = t /\ t # <<>>)
  /\ \A k \in 1..Len(P) : k \in 1..2
  /\ 1 \in DOMAIN list /\ list[1] \in Item
  /\ Follows(t, list) /\ t \in Seq(Item)

LEMMA OneOrTwo ==
  ASSUME NEW A, NEW B, IsSeq(A), IsSeq(B), Len(A) = 1, Len(B) \in 0..1, NEW P, P = Both(A, B)
  PROVE  /\ IsSeq(P) /\ 1 \in DOMAIN P /\ P[1] = A[1]
         /\ \A k \in 1..Len(P) : k \in 1..2 /\ (k = 1 \/ (1 \in DOMAIN B /\ P[k] = B[1]))
<1>0. P = A \o B
  BY DEF Both
<1>1. /\ IsSeq(P) /\ Len(P) = Len(A) + Len(B)
      /\ \A k \in 1..Len(A) : P[k] = A[k]
  <2>1. /\ IsSeq(A \o B) /\ Len(A \o B) = Len(A) + Len(B)
        /\ \A k \in 1..Len(A) : (A \o B)[k] = A[k]
    BY Joined
  <2> QED BY <1>0, <2>1
<1>2. Len(P) \in 1..2 /\ P[1] = A[1]
  <2>1. 1 \in 1..Len(A)
    OBVIOUS
  <2>2. P[1] = A[1]
    BY <1>1, <2>1
  <2>3. Len(P) = 1 + Len(B)
    BY <1>1
  <2>4. PICK n \in 0..1 : n = Len(B)
    OBVIOUS
  <2>5. 1 + n \in 1..2
    OBVIOUS
  <2> QED BY <2>2, <2>3, <2>4, <2>5
<1>3. DOMAIN P = 1..Len(P) /\ DOMAIN B = 1..Len(B) /\ DOMAIN A = 1..Len(A)
  BY <1>1, Indexed
<1>4. 1 \in DOMAIN P
  BY <1>2, <1>3
<1>5. ASSUME NEW k \in 1..Len(P)
      PROVE  k \in 1..2 /\ (k = 1 \/ (1 \in DOMAIN B /\ P[k] = B[1]))
  <2>1. \/ k \in DOMAIN A /\ P[k] = A[k]
        \/ \E i \in DOMAIN B : k = i + Len(A) /\ P[k] = B[i]
    <3>1. k \in DOMAIN (A \o B)
      BY <1>0, <1>3
    <3>2. \/ k \in DOMAIN A /\ (A \o B)[k] = A[k]
          \/ \E i \in DOMAIN B : k = i + Len(A) /\ (A \o B)[k] = B[i]
      BY <3>1, JoinedOrigin
    <3> QED BY <1>0, <3>2
  <2>2. \A i \in DOMAIN B : i = 1
    BY <1>3
  <2>3. k \in 1..2
    BY <1>2
  <2>4. \A i \in DOMAIN A : i = 1
    BY <1>3
  <2> QED BY <2>1, <2>2, <2>3, <2>4
<1> QED BY <1>1, <1>2, <1>4, <1>5

LEMMA RefusalCalls ==
  ASSUME NEW s, NEW list \in Seq(Item), list # <<>>,
         NEW t, t = Rest(list), NEW P, P = Refusal(s, list)
  PROVE  Refuses(P, t, list)
<1>1. PICK f : f = [fn |-> "callback", s |-> s, c |-> list[1].c, err |-> TRUE]
  OBVIOUS
<1>2. f.fn = "callback" /\ f.c = list[1].c /\ f.err = TRUE
  BY <1>1
<1>4. IsSeq(list)
  BY SeqIsSeq
<1>5. /\ IsSeq(t) /\ Len(list) \in Nat \ {0} /\ Len(t) = Len(list) - 1
      /\ \A k \in 1..(Len(list) - 1) : t[k] = list[k + 1]
      /\ 1 \in DOMAIN list /\ Head(list) = list[1]
  BY <1>4, TailOf DEF Rest
<1>6. list[1] \in Item /\ list[1].cb = TRUE
  <2>1. list[1] \in Item
    BY <1>5
  <2> QED BY <2>1 DEF Item
<1>7. DOMAIN t = 1..(Len(list) - 1) /\ DOMAIN list = 1..Len(list)
  BY <1>4, <1>5, Indexed
<1>8. Follows(t, list)
  BY <1>5, <1>7 DEF Follows
<1>9. t \in Seq(Item)
  BY DEF Rest
<1>10. PICK A, B : A = Callback(s, Head(list), TRUE) /\ B = FailWrites(s, t)
  OBVIOUS
<1>11. A = <<f>>
  BY <1>1, <1>5, <1>6, <1>10 DEF Callback, Then
<1>12. IsSeq(A) /\ Len(A) = 1 /\ A[1] = f
  BY <1>11, Short
<1>13. /\ IsSeq(B) /\ Len(B) \in 0..1
       /\ 1 \in DOMAIN B => t # <<>> /\ B[1].fn = "failWrites" /\ B[1].list = t
  BY <1>10, FailCalls
<1>14. P = Both(A, B)
  BY <1>10 DEF Refusal
<1>15. /\ IsSeq(P) /\ 1 \in DOMAIN P /\ P[1] = f
       /\ \A k \in 1..Len(P) : k \in 1..2 /\ (k = 1 \/ (1 \in DOMAIN B /\ P[k] = B[1]))
  <2>1. /\ IsSeq(P) /\ 1 \in DOMAIN P /\ P[1] = A[1]
        /\ \A k \in 1..Len(P) : k \in 1..2 /\ (k = 1 \/ (1 \in DOMAIN B /\ P[k] = B[1]))
    <3>1. IsSeq(A) /\ Len(A) = 1 /\ IsSeq(B) /\ Len(B) \in 0..1
      BY <1>12, <1>13
    <3> QED BY <1>14, <3>1, OneOrTwo
  <2> QED BY <1>12, <2>1
<1>16. ASSUME NEW k \in 1..Len(P)
       PROVE  k \in 1..2 /\ (k = 1 \/ (P[k].fn = "failWrites" /\ P[k].list = t /\ t # <<>>))
  BY <1>13, <1>15
<1> QED BY <1>2, <1>5, <1>6, <1>8, <1>9, <1>15, <1>16 DEF Refuses

LEMMA FailNextKeeps ==
  ASSUME Inv, WInv, FailNext, Observe, UNCHANGED <<calls, io, called>>
  PROVE  WInv'
<1>1. /\ Running("failWrites") /\ UNCHANGED <<ws, ticks, emitted>>
      /\ IsSeq(stack) /\ stack # <<>> /\ 1 \in DOMAIN stack /\ stack[1].fn = "failWrites"
      /\ top = stack[1]
  BY Top DEF FailNext
<1>2. accepted' = accepted /\ done' = done
  BY <1>1 DEF Observe, Running
<1>3. PICK list : list = stack[1].list
  OBVIOUS
<1>4. /\ list \in Seq(Item) /\ list # <<>> /\ ws[w].destroyed /\ WriterState
      /\ \A k \in DOMAIN stack : Carries(stack[k]) /\ stack[k].fn \notin Immediate
  BY <1>1, <1>3 DEF WInv, Ordered, Frames, StackFrames, Carries, Immediate
<1>5. PICK t : t = Rest(list)
  OBVIOUS
<1>6. PICK P, s : s = top.s /\ P = Refusal(s, list)
  OBVIOUS
<1>7. PICK x : x = list[1].c
  OBVIOUS
<1>8. /\ IsSeq(P) /\ 1 \in DOMAIN P
      /\ P[1].fn = "callback" /\ P[1].c = x /\ P[1].err = TRUE
      /\ \A k \in 1..Len(P) : k = 1 \/ (P[k].fn = "failWrites" /\ P[k].list = t /\ t # <<>>)
      /\ \A k \in 1..Len(P) : k \in 1..2
      /\ 1 \in DOMAIN list /\ list[1] \in Item
      /\ \A j \in DOMAIN t : j + 1 \in DOMAIN list /\ j + 1 # 1 /\ t[j] = list[j + 1]
      /\ t \in Seq(Item)
  <2>1. list \in Seq(Item) /\ list # <<>>
    BY <1>4
  <2>2. t = Rest(list) /\ P = Refusal(s, list)
    BY <1>5, <1>6
  <2>3. Refuses(P, t, list)
    BY <2>1, <2>2, RefusalCalls
  <2> QED BY <1>7, <2>3 DEF Refuses, Follows
<1>9. Shifted(P, 1)
  <2>1. Continue(P)
    BY <1>1, <1>3, <1>6 DEF FailNext, Refusal, Both, Rest
  <2> QED BY <1>1, <1>8, <2>1, Replaced
<1>10. x \in Numbers
  BY <1>7, <1>8 DEF Item
<1>11. OnePlace /\ OnlyAccepted /\ OneRefusal
  BY <1>4 DEF WInv, Dropped
<1>12. Fails(stack[1], x) /\ IsFailing(x)
  BY <1>1, <1>3, <1>7, <1>8 DEF Fails, IsFailing
<1>13. ~IsDone(x) /\ ~IsCurrent(x) /\ IsAccepted(x)
  BY <1>10, <1>11, <1>12 DEF OnePlace, OnlyAccepted
<1>14. x \in 1..calls /\ ~IsCalled(x) /\ ~IsRefused(x)
  BY <1>10, <1>12, <1>13 DEF WInv, Told, ToldOnce, Numbered, IsAccepted
<1>15. ASSUME NEW k \in DOMAIN stack'
       PROVE  \/ k = 1 /\ stack'[k] = P[1]
              \/ k = 2 /\ stack'[k].fn = "failWrites" /\ stack'[k].list = t /\ t # <<>>
              \/ \E m \in DOMAIN stack :
                   m > 1 /\ k = m + Len(P) - 1 /\ stack'[k] = stack[m] /\ stack[m].fn \notin Immediate
  BY <1>4, <1>8, <1>9, Origin
<1>16. 1 \in DOMAIN stack' /\ stack'[1] = P[1]
  BY <1>8, <1>9, Indexed DEF Shifted
<1>17. Frames'
  <2>1. \A k \in 1..Len(P) : CarriesNext(P[k]) /\ (P[k].fn \in Immediate => k = 1)
    <3>1. ASSUME NEW k \in 1..Len(P), k = 1 PROVE CarriesNext(P[k])
      BY <1>8, <1>14, <3>1 DEF CarriesNext
    <3>2. ASSUME NEW k \in 1..Len(P), k # 1
          PROVE  CarriesNext(P[k]) /\ P[k].fn \notin Immediate
      BY <1>1, <1>4, <1>8, <3>2 DEF CarriesNext, Immediate
    <3> QED BY <3>1, <3>2
  <2>2. StackFrames'
    BY <1>1, <1>9, <2>1, FramesKept
  <2>3. TickFrames'
    BY <1>1 DEF WInv, Ordered, Frames, TickFrames
  <2> QED BY <2>2, <2>3 DEF Frames
<1>18. Ordered'
  <2>1. OneWrite'
    BY <1>1, <1>8, <1>16 DEF WInv, Ordered, OneWrite, Writing
  <2>2. WriterState'
    BY <1>1, <1>2 DEF WInv, Ordered, WriterState
  <2>3. WritesKeepOrder'
    BY <1>1, <1>4 DEF WritesKeepOrder
  <2> QED BY <1>1, <1>17, <2>1, <2>2, <2>3 DEF WInv, Ordered
<1>19. Numbered'
  <2>1. \A k \in DOMAIN stack' : stack'[k].fn # "write"
    BY <1>8, <1>15 DEF Immediate
  <2> QED BY <1>2, <2>1 DEF WInv, Numbered
<1>20. /\ \A c : IsDone(c)' <=> IsDone(c)
       /\ \A c : IsCurrent(c)' <=> IsCurrent(c)
       /\ \A c : IsAccepted(c)' <=> IsAccepted(c)
       /\ \A c : IsCalled(c)' <=> IsCalled(c)
       /\ \A c : IsRefused(c)' <=> IsRefused(c)
       /\ \A c : ~IsQueued(c)'
       /\ ~Live'
  BY <1>1, <1>2, <1>4 DEF IsDone, IsCurrent, Writing, IsAccepted, IsCalled, IsRefused,
     IsQueued, Live
<1>21. ASSUME NEW k \in DOMAIN stack', NEW c, Fails(stack'[k], c)
       PROVE  \/ k = 2 /\ \E j \in DOMAIN t : stack'[k].list = t /\ t[j].c = c
              \/ \E m \in DOMAIN stack :
                   m > 1 /\ k = m + Len(P) - 1 /\ stack'[k] = stack[m]
  BY <1>8, <1>15, <1>21 DEF Fails
<1>22. ASSUME NEW j \in DOMAIN t PROVE t[j].c # x /\ Fails(stack[1], t[j].c)
  <2>1. j + 1 \in DOMAIN list /\ j + 1 # 1 /\ t[j] = list[j + 1]
    BY <1>8
  <2>2. list[j + 1].c # list[1].c
    BY <1>1, <1>3, <1>8, <1>11, <2>1 DEF OneRefusal
  <2> QED BY <1>1, <1>3, <1>7, <2>1, <2>2 DEF Fails
<1>23. ASSUME NEW c \in Numbers, IsFailing(c)' PROVE IsFailing(c) /\ c # x
  <2>1. PICK k \in DOMAIN stack' : Fails(stack'[k], c)
    BY <1>23 DEF IsFailing, Fails
  <2>2. CASE \E j \in DOMAIN t : t[j].c = c
    BY <1>1, <1>22, <2>2 DEF IsFailing
  <2>3. CASE \E m \in DOMAIN stack : m > 1 /\ stack'[k] = stack[m]
    <3>1. PICK m \in DOMAIN stack : m > 1 /\ stack'[k] = stack[m]
      BY <2>3
    <3>2. Fails(stack[m], c)
      BY <2>1, <3>1
    <3>3. c # x
      BY <1>1, <1>10, <1>11, <1>12, <3>1, <3>2 DEF OneRefusal
    <3> QED BY <3>2, <3>3 DEF IsFailing
  <2> QED BY <1>21, <2>1, <2>2, <2>3
<1>24. OneRefusal'
  <2>1. ASSUME NEW k \in DOMAIN stack', stack'[k].fn = "failWrites",
               NEW i \in DOMAIN stack'[k].list, NEW j \in DOMAIN stack'[k].list,
               stack'[k].list[i].c = stack'[k].list[j].c
        PROVE  i = j
    <3>1. CASE stack'[k].list = t
      <4>1. i + 1 = j + 1
        BY <1>1, <1>3, <1>8, <1>11, <2>1, <3>1 DEF OneRefusal
      <4>2. i \in Nat /\ j \in Nat
        <5>1. IsSeq(t)
          BY <1>8, SeqIsSeq
        <5> QED BY <2>1, <3>1, <5>1, Indexed
      <4> QED BY <4>1, <4>2
    <3>2. CASE \E m \in DOMAIN stack : stack'[k] = stack[m]
      BY <1>11, <2>1, <3>2 DEF OneRefusal
    <3> QED BY <1>8, <1>15, <2>1, <3>1, <3>2
  <2>2. ASSUME NEW k \in DOMAIN stack', NEW l \in DOMAIN stack', NEW c \in Numbers,
               Fails(stack'[k], c), Fails(stack'[l], c), k # l
        PROVE  FALSE
    <3>1. ASSUME NEW m \in DOMAIN stack, m > 1, Fails(stack[m], c),
                 NEW j \in DOMAIN t, t[j].c = c
          PROVE  FALSE
      BY <1>1, <1>11, <1>22, <3>1 DEF OneRefusal
    <3>2. CASE k = 2 /\ \E j \in DOMAIN t : t[j].c = c
      <4>1. PICK n \in DOMAIN stack : n > 1 /\ stack'[l] = stack[n]
        BY <1>21, <2>2, <3>2
      <4> QED BY <2>2, <3>1, <3>2, <4>1
    <3>3. CASE l = 2 /\ \E j \in DOMAIN t : t[j].c = c
      <4>1. PICK n \in DOMAIN stack : n > 1 /\ stack'[k] = stack[n]
        BY <1>21, <2>2, <3>3
      <4> QED BY <2>2, <3>1, <3>3, <4>1
    <3>4. CASE /\ \E m \in DOMAIN stack : m > 1 /\ k = m + Len(P) - 1 /\ stack'[k] = stack[m]
               /\ \E m \in DOMAIN stack : m > 1 /\ l = m + Len(P) - 1 /\ stack'[l] = stack[m]
      <4>1. PICK m \in DOMAIN stack : k = m + Len(P) - 1 /\ stack'[k] = stack[m]
        BY <3>4
      <4>2. PICK n \in DOMAIN stack : l = n + Len(P) - 1 /\ stack'[l] = stack[n]
        BY <3>4
      <4>3. m = n
        BY <1>11, <2>2, <4>1, <4>2 DEF OneRefusal
      <4> QED BY <2>2, <4>1, <4>2, <4>3
    <3> QED BY <1>21, <2>2, <3>2, <3>3, <3>4
  <2> QED BY <2>1, <2>2 DEF OneRefusal, Fails
<1>25. Dropped'
  <2>1. OnePlace' /\ OnlyAccepted'
    BY <1>11, <1>20, <1>23 DEF OnePlace, OnlyAccepted
  <2> QED BY <1>24, <2>1 DEF Dropped
<1>26. \A c : IsTold(c)' => c = x
  BY <1>8, <1>15 DEF IsTold, Tells, Immediate
<1>27. Told'
  <2>0. ToldOnce /\ RefusedOnce /\ TrueAnswers
    BY DEF WInv, Told
  <2>1. ToldOnce'
    <3>1. ASSUME NEW c \in Numbers
          PROVE  /\ IsCurrent(c)' \/ IsFailing(c)' => ~IsCalled(c)' /\ ~IsTold(c)'
                 /\ IsRefused(c)' => ~IsAccepted(c)' /\ ~IsCalled(c)' /\ ~IsTold(c)'
                 /\ IsTold(c)' => ~IsCalled(c)'
      BY <1>13, <1>14, <1>20, <1>23, <1>26, <2>0 DEF ToldOnce
    <3> QED BY <1>20, <3>1 DEF ToldOnce
  <2>2. RefusedOnce'
    BY <1>1, <2>0 DEF RefusedOnce
  <2>3. ~WasWritten(x)
    <3>1. WasWritten(x) => WroteIn(done, x)
      BY <1>4, WrittenIs DEF WasWritten, WriterState
    <3> QED BY <1>13, <3>1 DEF WroteIn, IsDone
  <2>4. TrueCallbacks'
    <3>1. ASSUME NEW k \in DOMAIN stack', stack'[k].fn = "callback"
          PROVE  stack'[k].err = TRUE /\ stack'[k].c = x
      BY <1>8, <1>15, <3>1 DEF Immediate
    <3> QED BY <1>2, <2>3, <3>1 DEF TrueCallbacks, WasWritten
  <2>5. TrueAnswers'
    BY <1>2, <2>0 DEF TrueAnswers, WasWritten
  <2> QED BY <2>1, <2>2, <2>4, <2>5 DEF Told
<1>28. ASSUME ~CallsInFailure PROVE FailsNext' /\ (Finishes' => AllWritten')
  <2>1. FailsNext'
    BY <1>20 DEF FailsNext, Live
  <2>2. Finishes' => Finishes
    <3>1. ASSUME NEW k \in DOMAIN stack', Finishing(stack'[k]) PROVE Finishes
      <4>1. \E m \in DOMAIN stack : stack'[k] = stack[m]
        BY <1>8, <1>15, <3>1 DEF Finishing, Emits
      <4> QED BY <3>1, <4>1 DEF Finishes
    <3> QED BY <1>1, <3>1 DEF Finishes, Finishing, Emits, Came
  <2>3. AllWritten => AllWritten'
    BY <1>1, <1>2, <1>20 DEF AllWritten, Writing
  <2> QED BY <1>28, <2>1, <2>2, <2>3 DEF WInv
<1> QED BY <1>18, <1>19, <1>25, <1>27, <1>28 DEF WInv

-----------------------------------------------------------------------------
(* The callback of a write runs. *)

LEMMA Popped ==
  ASSUME IsSeq(stack), stack # <<>>, NEW P, P = <<>>, Continue(P), 2 \in DOMAIN stack
  PROVE  1 \in DOMAIN stack' /\ stack'[1] = stack[2]
<1>1. /\ IsSeq(Tail(stack)) /\ Len(stack) \in Nat \ {0} /\ Len(Tail(stack)) = Len(stack) - 1
      /\ \A k \in 1..(Len(stack) - 1) : Tail(stack)[k] = stack[k + 1]
  BY TailOf
<1>2. PICK t : t = Tail(stack)
  OBVIOUS
<1>3. DOMAIN stack = 1..Len(stack) /\ DOMAIN t = 1..Len(t)
  BY <1>1, <1>2, Indexed
<1>4. 1 \in 1..(Len(stack) - 1)
  BY <1>1, <1>3
<1>5. 1 \in DOMAIN t /\ t[1] = stack[2]
  <2>1. t[1] = stack[1 + 1]
    BY <1>1, <1>2, <1>4
  <2> QED BY <1>1, <1>2, <1>3, <1>4, <2>1
<1>6. stack' = t
  <2>1. stack' = <<>> \o t
    BY <1>2 DEF Continue
  <2>2. \E T : t \in Seq(T)
    BY <1>1, <1>2 DEF IsSeq
  <2> QED BY <2>1, <2>2, ConcatEmptySeq
<1> QED BY <1>5, <1>6

LEMMA CallbackRunsKeeps ==
  ASSUME Inv, WInv, CallbackRuns
  PROVE  WInv'
<1>1. /\ Running("callback")
      /\ UNCHANGED <<ws, ticks, emitted, calls, io, accepted, done>>
      /\ IsSeq(stack) /\ stack # <<>> /\ 1 \in DOMAIN stack /\ stack[1].fn = "callback"
      /\ top = stack[1] /\ Carries(top)
      /\ \A m \in DOMAIN stack : m # 1 => stack[m].fn \notin Immediate
  BY WriteRuns DEF CallbackRuns, Immediate
<1>2. PICK x, e : x = top.c /\ e = top.err
  OBVIOUS
<1>3. WriterState /\ x \in 1..calls /\ x \in Numbers /\ e \in BOOLEAN
  BY <1>1, <1>2, UserAssumption DEF WInv, Ordered, WriterState, Carries, Numbers
<1>4. IsTold(x) /\ \A c : IsTold(c) => c = x
  BY <1>1, <1>2 DEF IsTold, Tells, Immediate
<1>5. /\ ~IsCalled(x) /\ ~IsCurrent(x) /\ ~IsQueued(x) /\ ~IsFailing(x) /\ ~IsRefused(x)
  BY <1>3, <1>4 DEF WInv, Told, ToldOnce
<1>6. e <=> ~WasWritten(x)
  BY <1>1, <1>2 DEF WInv, Told, TrueCallbacks
<1>7. PICK y : y = [c |-> x, err |-> e]
  OBVIOUS
<1>8. y \in Reply /\ y.c = x /\ y.err = e /\ called' = Append(called, y)
  BY <1>1, <1>2, <1>3, <1>7 DEF Reply, CallbackRuns
<1>9. PICK n : n = Len(called) + 1
  OBVIOUS
<1>10. /\ called' \in Seq(Reply)
       /\ \A k \in DOMAIN called' : \/ k \in DOMAIN called /\ called'[k] = called[k]
                                    \/ k = n /\ called'[k] = y
       /\ \A k \in DOMAIN called : k \in DOMAIN called' /\ called'[k] = called[k]
       /\ n \in DOMAIN called' /\ called'[n] = y
  BY <1>3, <1>8, <1>9, ReplyAdded DEF WriterState
<1>11. PICK goes \in BOOLEAN : goes = (~e \/ ws[w].destroyed \/ CallsInFailure)
  OBVIOUS
<1>12. PICK P : P = Then(goes, <<User(w)>>)
  OBVIOUS
<1>13. Continue(P)
  BY <1>2, <1>11, <1>12 DEF CallbackRuns
<1>14. AllQuiet(P)
  <2>1. QuietCall(User(w))
    BY QuietCalls DEF User, Noisy, Immediate
  <2> QED BY <1>12, <2>1, QuietLists
<1>15. Shifted(P, 1)
  BY <1>1, <1>13, <1>14, Replaced DEF AllQuiet
<1>16. \A k \in 1..Len(P) : P[k].fn \notin Immediate \cup {"failWrites", "dropWrites"}
  BY <1>14 DEF AllQuiet, QuietCall, Bystander
<1>17. ASSUME NEW k \in DOMAIN stack' PROVE stack'[k].fn \notin Immediate
  <2>1. \A m \in DOMAIN stack : m > 1 => stack[m].fn \notin Immediate
    BY <1>1
  <2> QED BY <1>15, <1>16, <1>17, <2>1, Origin
<1>18. Ordered'
  <2>1. Frames'
    <3>1. \A k \in 1..Len(P) : CarriesNext(P[k]) /\ P[k].fn \notin Immediate
      BY <1>16 DEF CarriesNext, Immediate
    <3>2. StackFrames'
      BY <1>1, <1>15, <3>1, FramesKept
    <3>3. TickFrames'
      BY <1>1 DEF WInv, Ordered, Frames, TickFrames
    <3> QED BY <3>2, <3>3 DEF Frames
  <2>2. OneWrite'
    BY <1>1, <1>17 DEF WInv, Ordered, OneWrite, Writing, Immediate
  <2>3. WriterState'
    BY <1>1, <1>3, <1>10 DEF WriterState
  <2>4. WritesKeepOrder'
    <3>1. Current' = Current
      BY <1>1 DEF Current, Writing
    <3> QED BY <1>1, <3>1 DEF WInv, Ordered, WritesKeepOrder
  <2> QED BY <1>1, <2>1, <2>2, <2>3, <2>4 DEF WInv, Ordered
<1>19. Numbered'
  <2>1. \A k \in DOMAIN called' : called'[k].c \in 1..calls
    BY <1>3, <1>8, <1>10 DEF WInv, Numbered
  <2> QED BY <1>1, <1>17, <2>1 DEF WInv, Numbered, Immediate
<1>20. (\A c : IsFailing(c)' => IsFailing(c)) /\ (OneRefusal => OneRefusal')
  BY <1>15, <1>16, RefusalsKept
<1>21. /\ \A c : IsDone(c)' <=> IsDone(c)
       /\ \A c : IsCurrent(c)' <=> IsCurrent(c)
       /\ \A c : IsAccepted(c)' <=> IsAccepted(c)
       /\ \A c : IsQueued(c)' <=> IsQueued(c)
       /\ \A c : IsRefused(c)' <=> IsRefused(c)
       /\ \A c : WasWritten(c)' <=> WasWritten(c)
       /\ Live' <=> Live
  BY <1>1 DEF IsDone, IsCurrent, Writing, IsAccepted, IsQueued, IsRefused, WasWritten, Live
<1>22. \A c : IsCalled(c)' <=> IsCalled(c) \/ c = x
  BY <1>8, <1>10 DEF IsCalled
<1>23. \A c : ~IsTold(c)'
  BY <1>17 DEF IsTold, Tells, Immediate
<1>24. Dropped'
  <2>1. SUFFICES ASSUME ws[w].destroyed PROVE OnePlace' /\ OnlyAccepted' /\ OneRefusal'
    BY <1>1 DEF Dropped
  <2>2. OnePlace /\ OnlyAccepted /\ OneRefusal
    BY <2>1 DEF WInv, Dropped
  <2> QED BY <1>20, <1>21, <2>2 DEF OnePlace, OnlyAccepted
<1>25. Told'
  <2>0. ToldOnce /\ RefusedOnce /\ TrueAnswers
    BY DEF WInv, Told
  <2>1. ToldOnce'
    <3>1. ASSUME NEW c \in Numbers
          PROVE  /\ IsCurrent(c)' \/ IsQueued(c)' \/ IsFailing(c)' => ~IsCalled(c)'
                 /\ IsRefused(c)' => ~IsAccepted(c)' /\ ~IsCalled(c)'
                 /\ Live' /\ IsDone(c)' => IsCalled(c)'
      BY <1>4, <1>5, <1>20, <1>21, <1>22, <2>0 DEF ToldOnce
    <3> QED BY <1>23, <3>1 DEF ToldOnce
  <2>2. RefusedOnce'
    BY <1>1, <2>0 DEF RefusedOnce
  <2>3. TrueCallbacks'
    BY <1>17 DEF TrueCallbacks, Immediate
  <2>4. TrueAnswers'
    <3>1. \A k \in DOMAIN called' : called'[k].err <=> ~WasWritten(called'[k].c)
      BY <1>6, <1>8, <1>10, <2>0 DEF TrueAnswers
    <3>2. \A k, l \in DOMAIN called' : called'[k].c = called'[l].c => k = l
      BY <1>5, <1>8, <1>10, <2>0 DEF TrueAnswers, IsCalled
    <3> QED BY <1>1, <3>1, <3>2 DEF TrueAnswers, WasWritten
  <2> QED BY <2>1, <2>2, <2>3, <2>4 DEF Told
<1>26. ASSUME ~CallsInFailure PROVE FailsNext' /\ (Finishes' => AllWritten')
  <2>1. FailsNext /\ (Finishes => AllWritten)
    BY <1>26 DEF WInv
  <2>2. FailsNext'
    <3>1. SUFFICES ASSUME Live, \E k \in DOMAIN done : done[k].err PROVE FailsNext'
      BY <1>1, <1>21 DEF FailsNext
    <3>2. PICK k \in DOMAIN stack :
            /\ stack[k].fn = "destroy" /\ stack[k].s = w /\ k \in 1..2
            /\ k = 2 => stack[1].fn = "callback" /\ stack[1].err
      BY <2>1, <3>1 DEF FailsNext
    <3>3. k = 2 /\ e = TRUE
      BY <1>1, <1>2, <1>3, <3>2
    <3>4. P = <<>>
      BY <1>11, <1>12, <1>26, <3>1, <3>3 DEF Then, Live
    <3>5. 1 \in DOMAIN stack' /\ stack'[1] = stack[2]
      BY <1>1, <1>13, <3>2, <3>3, <3>4, Popped
    <3> QED BY <3>2, <3>3, <3>5 DEF FailsNext
  <2>3. Finishes' => Finishes
    BY <1>1, <1>14, <1>15, NoneFinishes DEF Came, Finishes
  <2>4. AllWritten => AllWritten'
    BY <1>1, <1>21, <1>22 DEF AllWritten, Writing
  <2> QED BY <2>1, <2>2, <2>3, <2>4
<1> QED BY <1>18, <1>19, <1>24, <1>25, <1>26 DEF WInv

-----------------------------------------------------------------------------
(* The next tick. *)

\* The ticks that are left.
LEMMA TickTaken ==
  ASSUME WInv, IsSeq(ticks), ticks # <<>>, ticks' = Rest(ticks), calls' = calls, NEW f, f = ticks[1]
  PROVE  /\ TickFrames' /\ RefusedOnce'
         /\ 1 \in DOMAIN ticks
         /\ \A c : IsRefused(c)' => IsRefused(c)
         /\ \A c \in Numbers : Tells(f, c) => IsRefused(c) /\ ~IsRefused(c)'
<1>1. /\ IsSeq(ticks') /\ Len(ticks) \in Nat \ {0} /\ Len(ticks') = Len(ticks) - 1
      /\ \A k \in 1..(Len(ticks) - 1) : ticks'[k] = ticks[k + 1]
      /\ 1 \in DOMAIN ticks
  BY TailOf DEF Rest
<1>2. DOMAIN ticks' = 1..(Len(ticks) - 1) /\ DOMAIN ticks = 1..Len(ticks)
  BY <1>1, Indexed
<1>3. \A k \in DOMAIN ticks' : k \in Nat /\ k + 1 \in DOMAIN ticks /\ k + 1 # 1
                               /\ ticks'[k] = ticks[k + 1]
  BY <1>1, <1>2
<1>4. TickFrames /\ RefusedOnce
  BY DEF WInv, Ordered, Frames, Told
<1>5. TickFrames'
  BY <1>3, <1>4 DEF TickFrames
<1>6. RefusedOnce'
  <2>1. ASSUME NEW k \in DOMAIN ticks', NEW l \in DOMAIN ticks', NEW c \in Numbers,
               Tells(ticks'[k], c), Tells(ticks'[l], c)
        PROVE  k = l
    <3>1. k + 1 = l + 1
      BY <1>3, <1>4, <2>1 DEF RefusedOnce
    <3> QED BY <1>3, <3>1
  <2> QED BY <2>1 DEF RefusedOnce, Tells
<1>7. \A c : IsRefused(c)' => IsRefused(c)
  BY <1>3 DEF IsRefused, Tells
<1>8. ASSUME NEW c \in Numbers, Tells(f, c) PROVE IsRefused(c) /\ ~IsRefused(c)'
  <2>1. ASSUME NEW k \in DOMAIN ticks', Tells(ticks'[k], c) PROVE FALSE
    <3>1. k + 1 = 1
      BY <1>1, <1>3, <1>4, <1>8, <2>1 DEF RefusedOnce
    <3> QED BY <1>3, <2>1, <3>1
  <2> QED BY <1>1, <1>8, <2>1 DEF IsRefused, Tells
<1> QED BY <1>1, <1>5, <1>6, <1>7, <1>8

\* The callback of a refused write is called.
LEMMA RefusalTold ==
  ASSUME Inv, WInv, stack = <<>>, NEW f, f.fn = "callback", f.c \in 1..calls, f.err = TRUE,
         stack' = <<f>>, TickFrames', RefusedOnce',
         \A c : IsRefused(c)' => IsRefused(c),
         NEW x, x = f.c, IsRefused(x), ~IsRefused(x)',
         UNCHANGED <<ws, emitted, calls, io, called, accepted, done>>
  PROVE  WInv'
<1>1. x = f.c
  OBVIOUS
<1>2. WriterState /\ x \in Numbers /\ x \in 1..calls
  BY <1>1, UserAssumption DEF WInv, Ordered, WriterState, Numbers
<1>3. DOMAIN stack = {}
  OBVIOUS
<1>4. DOMAIN stack' = {1} /\ stack'[1] = f
  BY Short
<1>5. ~IsAccepted(x) /\ ~IsCalled(x)
  BY <1>1, <1>2 DEF WInv, Told, ToldOnce
<1>6. ~IsDone(x) /\ ~IsCurrent(x) /\ ~IsQueued(x)
  <2>1. CASE Live
    BY <1>5, <2>1, LivePlaces
  <2>2. CASE ~Live
    BY <1>2, <1>5, <2>2 DEF WInv, Dropped, OnlyAccepted, Live, IsQueued
  <2> QED BY <2>1, <2>2
<1>7. /\ \A c : IsDone(c)' <=> IsDone(c)
      /\ \A c : IsCurrent(c)' <=> IsCurrent(c)
      /\ \A c : IsAccepted(c)' <=> IsAccepted(c)
      /\ \A c : IsCalled(c)' <=> IsCalled(c)
      /\ \A c : IsQueued(c)' <=> IsQueued(c)
      /\ \A c : WasWritten(c)' <=> WasWritten(c)
      /\ Live' <=> Live
  BY DEF IsDone, IsCurrent, Writing, IsAccepted, IsCalled, IsQueued, WasWritten, Live
<1>8. \A c : ~IsFailing(c)' /\ ~IsTold(c)
  BY <1>3, <1>4 DEF IsFailing, Fails, IsTold
<1>9. \A c : IsTold(c)' => c = x
  BY <1>1, <1>4 DEF IsTold, Tells
<1>10. Ordered'
  <2>1. StackFrames'
    BY <1>4 DEF StackFrames, Carries, Immediate
  <2>2. OneWrite'
    BY <1>4 DEF WInv, Ordered, OneWrite, Writing
  <2>3. WriterState'
    BY <1>2 DEF WriterState
  <2>4. WritesKeepOrder'
    <3>1. Current' = Current
      BY DEF Current, Writing
    <3> QED BY <3>1 DEF WInv, Ordered, WritesKeepOrder
  <2> QED BY <2>1, <2>2, <2>3, <2>4 DEF WInv, Ordered, Frames
<1>11. Numbered'
  BY <1>4 DEF WInv, Numbered
<1>12. Dropped'
  <2>1. OneRefusal'
    BY <1>4 DEF OneRefusal, Fails
  <2>2. ASSUME ws[w].destroyed PROVE OnePlace' /\ OnlyAccepted'
    BY <1>7, <1>8, <2>2 DEF WInv, Dropped, OnePlace, OnlyAccepted
  <2> QED BY <2>1, <2>2 DEF Dropped
<1>13. Told'
  <2>0. ToldOnce /\ RefusedOnce /\ TrueAnswers
    BY DEF WInv, Told
  <2>1. ToldOnce'
    <3>1. ASSUME NEW c \in Numbers
          PROVE  /\ IsCurrent(c)' \/ IsQueued(c)' => ~IsCalled(c)' /\ ~IsTold(c)'
                 /\ IsRefused(c)' => ~IsAccepted(c)' /\ ~IsCalled(c)' /\ ~IsTold(c)'
                 /\ IsTold(c)' => ~IsCalled(c)'
                 /\ Live' /\ IsDone(c)' => IsCalled(c)'
      BY <1>1, <1>5, <1>6, <1>7, <1>8, <1>9, <2>0 DEF ToldOnce
    <3> QED BY <1>8, <3>1 DEF ToldOnce
  <2>2. ~WasWritten(x)
    <3>1. WasWritten(x) => WroteIn(done, x)
      BY <1>2, WrittenIs DEF WasWritten, WriterState
    <3> QED BY <1>6, <3>1 DEF WroteIn, IsDone
  <2>3. TrueCallbacks'
    BY <1>1, <1>4, <2>2 DEF TrueCallbacks, WasWritten
  <2>4. TrueAnswers'
    BY <2>0 DEF TrueAnswers, WasWritten
  <2> QED BY <2>1, <2>3, <2>4 DEF Told
<1>14. ASSUME ~CallsInFailure PROVE FailsNext' /\ (Finishes' => AllWritten')
  <2>1. FailsNext /\ (Finishes => AllWritten)
    BY <1>14 DEF WInv
  <2>2. FailsNext'
    BY <1>3, <1>7, <2>1 DEF FailsNext
  <2>3. Finishes' => Finishes
    <3>1. ~Finishing(f)
      BY DEF Finishing, Emits
    <3> QED BY <1>4, <3>1 DEF Finishes, Finishing, Emits, Came
  <2>4. AllWritten => AllWritten'
    BY <1>7 DEF AllWritten, Writing
  <2> QED BY <2>1, <2>2, <2>3, <2>4
<1> QED BY <1>10, <1>11, <1>12, <1>13, <1>14 DEF WInv

LEMMA RunTickKeeps ==
  ASSUME Inv, WInv, RunTick, Observe, UNCHANGED <<calls, io, called>>
  PROVE  WInv'
<1>1. /\ stack = <<>> /\ ticks # <<>> /\ IsSeq(ticks) /\ IsSeq(stack)
      /\ UNCHANGED <<ws, emitted>> /\ ticks' = Rest(ticks)
  BY DEF RunTick, Rest, Inv, Calls, AllPlain
<1>2. accepted' = accepted /\ done' = done
  BY <1>1 DEF Observe, Running
<1>3. PICK f : f = ticks[1]
  OBVIOUS
<1>4. /\ TickFrames' /\ RefusedOnce'
      /\ 1 \in DOMAIN ticks
      /\ \A c : IsRefused(c)' => IsRefused(c)
      /\ \A c \in Numbers : Tells(f, c) => IsRefused(c) /\ ~IsRefused(c)'
  BY <1>1, <1>3, TickTaken
<1>5. stack' = <<f>>
  BY <1>1, <1>3, TailOf DEF RunTick
<1>6. /\ f.fn \in {"callback", "flowTick", "readableTick", "maybeRead", "destroy"}
      /\ f.fn = "callback" => f.c \in 1..calls /\ f.err = TRUE
  BY <1>3, <1>4 DEF WInv, Ordered, Frames, TickFrames
<1>7. CASE f.fn = "callback"
  <2>1. f.c \in 1..calls /\ f.err = TRUE /\ Tells(f, f.c)
    BY <1>6, <1>7 DEF Tells
  <2>2. f.c \in Numbers
    BY <2>1, UserAssumption DEF WInv, Ordered, WriterState, Numbers
  <2>3. PICK x : x = f.c
    OBVIOUS
  <2>4. IsRefused(x) /\ ~IsRefused(x)'
    BY <1>4, <2>1, <2>2, <2>3
  <2> QED BY <1>1, <1>2, <1>4, <1>5, <1>7, <2>1, <2>3, <2>4, RefusalTold
<1>8. CASE f.fn # "callback"
  <2>1. PICK P : P = <<f>>
    OBVIOUS
  <2>2. IsSeq(P) /\ Len(P) = 1 /\ P[1] = f
    BY <2>1, Short
  <2>3. AllQuiet(P)
    <3>1. QuietCall(f)
      BY <1>6, <1>8 DEF QuietCall, Bystander, Finishing, Emits, Immediate
    <3> QED BY <2>1, <3>1, QuietLists
  <2>4. Shifted(P, 0)
    <3>1. stack' = P \o stack
      BY <1>1, <1>5, <2>1
    <3> QED BY <1>1, <2>2, <3>1, Pushed
  <2>5. SameWrites
    BY <1>1, <1>2, SameState, QueuesKept
  <2>6. calls' >= calls
    BY UserAssumption DEF WInv, Ordered, WriterState
  <2>7. \A k \in 1..Len(P) :
           /\ CarriesNext(P[k]) /\ (P[k].fn \in Immediate => k = 1)
           /\ P[k].fn \notin {"callback", "failWrites"}
           /\ P[k].fn # "write"
    BY <2>3 DEF AllQuiet, QuietCall, Bystander, CarriesNext, Immediate
  <2>8. 1 \notin DOMAIN stack
    BY <1>1
  <2>9. \A c \in Numbers : IsRefused(c)' => ~IsAccepted(c) /\ ~IsCalled(c)
    BY <1>4 DEF WInv, Told, ToldOnce
  <2>10. OneWrite'
    <3>1. OneWrite /\ (Writing(w)' <=> Writing(w))
      BY <1>1 DEF WInv, Ordered, Writing
    <3>2. stack'[1] = f
      BY <1>5
    <3> QED BY <1>6, <3>1, <3>2 DEF OneWrite
  <2>11. Finishes' => Finishes
    BY <1>1, <2>3, <2>4, NoneFinishes DEF Came, Finishes
  <2> QED BY <1>4, <2>4, <2>5, <2>6, <2>7, <2>8, <2>9, <2>10, <2>11, CalmStep
<1> QED BY <1>7, <1>8

-----------------------------------------------------------------------------
(* Every step. *)

LEMMA InitWInv ==
  Init => WInv
<1> SUFFICES ASSUME Init PROVE WInv
  OBVIOUS
<1>1. /\ io = <<>> /\ calls = 0 /\ accepted = <<>> /\ done = <<>> /\ called = <<>>
  BY DEF Init
<1>2. /\ ws = [s \in Writers |-> WritableState]
      /\ ticks = <<>> /\ stack = <<>> /\ emitted = [s \in Streams |-> <<>>]
  <2>1. StreamInit(LAMBDA s, ev : Then(ev \in Lifecycle \cup {"drain"}, <<User(s)>>))
    BY DEF Init
  <2> QED BY <2>1 DEF StreamInit
<1>3. ws[w] = WritableState
  BY <1>2, OneStream
<1>4. /\ DOMAIN ws[w] = {"pending", "corkedBuffer", "length", "current", "ended", "finished",
                         "corked", "needDrain", "destroyed", "errored", "transforming"}
      /\ ws[w].pending = <<>> /\ ws[w].corkedBuffer = <<>> /\ ws[w].length = 0
      /\ ws[w].current = NoItem /\ ws[w].ended = FALSE /\ ws[w].corked = 0
      /\ ws[w].destroyed = FALSE
  BY <1>3 DEF WritableState
<1>5. DOMAIN stack = {} /\ DOMAIN ticks = {} /\ DOMAIN io = {}
      /\ DOMAIN accepted = {} /\ DOMAIN done = {} /\ DOMAIN called = {}
  BY <1>1, <1>2
<1>6. WriterState
  <2>1. calls \in 0..MaxCalls
    BY <1>1, UserAssumption
  <2>3. accepted \in Seq(Numbers) /\ done \in Seq(Reply) /\ called \in Seq(Reply)
    BY <1>1
  <2>4. ws[w].pending \in Seq(Item) /\ ws[w].corkedBuffer \in Seq(Item)
    BY <1>4
  <2>5. {"pending", "corkedBuffer", "length", "current", "ended", "corked",
         "destroyed", "finished", "needDrain"} \subseteq DOMAIN ws[w]
    BY <1>4
  <2>6. ws[w].length \in Nat /\ ws[w].corked \in Nat /\ ws[w].ended \in BOOLEAN
        /\ ws[w].destroyed \in BOOLEAN /\ ws[w].current \in Item \cup {NoItem}
    <3>1. ws[w].length = 0 /\ ws[w].corked = 0 /\ ws[w].ended = FALSE /\ ws[w].destroyed = FALSE
      BY <1>4
    <3>2. ws[w].current \in Item \cup {NoItem}
      BY <1>4
    <3>3. ws[w].length \in Nat /\ ws[w].corked \in Nat
      BY <3>1
    <3>4. ws[w].ended \in BOOLEAN /\ ws[w].destroyed \in BOOLEAN
      BY <3>1, Zenon
    <3> QED BY <3>2, <3>3, <3>4
  <2> QED BY <2>1, <2>3, <2>4, <2>5, <2>6 DEF WriterState
<1>7. WritesKeepOrder
  <2>1. Current = <<>>
    BY <1>4 DEF Current, Writing, Then
  <2>2. done \o Current \o ws[w].pending \o ws[w].corkedBuffer = <<>>
    BY <1>1, <1>4, <2>1
  <2>3. Chunks(<<>>) = <<>>
    BY DEF Chunks
  <2> QED BY <1>1, <1>4, <2>2, <2>3 DEF WritesKeepOrder
<1>8. Ordered
  BY <1>4, <1>5, <1>6, <1>7 DEF Ordered, Frames, StackFrames, TickFrames, OneWrite, Writing
<1>9. Numbered /\ Dropped
  BY <1>4, <1>5 DEF Numbered, Dropped
<1>10. Told
  <2>1. ToldOnce
    BY <1>4, <1>5 DEF ToldOnce, IsCurrent, IsQueued, IsFailing, IsTold, IsRefused, IsDone,
       IsCalled, Writing, NoItem
  <2> QED BY <1>5, <2>1 DEF Told, RefusedOnce, TrueCallbacks, TrueAnswers
<1>11. FailsNext /\ ~Finishes
  <2>1. emitted[w] = <<>>
    BY <1>2, OneStream DEF Streams
  <2> QED BY <1>5, <2>1 DEF FailsNext, Finishes, Came
<1> QED BY <1>8, <1>9, <1>10, <1>11 DEF WInv

LEMMA WritableStepKeeps ==
  ASSUME Inv, WInv, WritableStep \/ CorkStep, Observe, UNCHANGED <<calls, io, called>>
  PROVE  WInv'
BY WriteKeeps, WrittenIsQuiet, DoWriteKeeps, OnWriteKeeps, AfterWriteIsQuiet, EndIsQuiet,
   MaybeFinishIsQuiet, FinalDoneIsQuiet, FinishIsQuiet, CorkIsQuiet, UncorkKeeps
   DEF WritableStep, CorkStep

LEMMA DestroyStepKeepsWrites ==
  ASSUME Inv, WInv, DestroyStep, Observe, UNCHANGED <<calls, io, called>>
  PROVE  WInv'
BY AutoDestroyIsQuiet, DestroyKeeps, FailNextKeeps, DropWritesKeeps, ClosedIsQuiet
   DEF DestroyStep

LEMMA NextWInv ==
  Inv /\ WInv /\ use \in Uses /\ [Next]_vars => WInv'
<1> SUFFICES ASSUME Inv, WInv, use \in Uses, [Next]_vars PROVE WInv'
  OBVIOUS
<1>1. CASE Library
  <2>1. Observe /\ UNCHANGED <<calls, io, called>>
    BY <1>1 DEF Library
  <2>2. CASE EmitStep
    BY <2>1, <2>2, EmitIsQuiet
  <2>3. CASE ReadableStep
    BY <2>1, <2>3, ReadableIsQuiet
  <2>4. CASE ReaderCall
    BY <2>1, <2>4, ReaderCallIsQuiet
  <2>5. CASE WritableStep \/ CorkStep
    BY <2>1, <2>5, WritableStepKeeps
  <2>6. CASE DestroyStep
    BY <2>1, <2>6, DestroyStepKeepsWrites
  <2>7. CASE RunTick
    BY <2>1, <2>7, RunTickKeeps
  <2> QED BY <1>1, <2>2, <2>3, <2>4, <2>5, <2>6, <2>7 DEF Library
<1>2. CASE SubclassCalled
  BY <1>2, SubclassCalledKeeps
<1>3. CASE UserReturns \/ DataArrives
  BY <1>3, UserCodeIsQuiet
<1>4. CASE CallbackRuns
  BY <1>4, CallbackRunsKeeps
<1>5. CASE IteratorStep /\ UNCHANGED <<rs, ws, listeners, ticks, ret, emitted>>
  BY <1>5, IteratorIsQuiet
<1>6. CASE UserCalls
  BY <1>6, UserCallsKeeps
<1>7. ASSUME NEW i \in DOMAIN io, SubclassAnswers(i) PROVE WInv'
  BY <1>7, SubclassAnswersKeeps
<1>8. CASE UNCHANGED vars
  <2>1. UNCHANGED <<ws, stack, ticks, io, calls, accepted, done, called, emitted>>
    BY <1>8 DEF vars, streamVars, userVars
  <2>2. Ordered'
    BY <2>1 DEF WInv, Ordered, WriterState, Frames, StackFrames, TickFrames, Carries, OneWrite,
       Writing, WritesKeepOrder, Current
  <2>3. Numbered'
    BY <2>1 DEF WInv, Numbered, IsAccepted, IsCalled, IsRefused, Tells
  <2>4. Dropped'
    BY <2>1 DEF WInv, Dropped, OnePlace, OnlyAccepted, OneRefusal, IsDone, IsCurrent, IsFailing,
       IsAccepted, Fails, Writing
  <2>5. Told'
    BY <2>1 DEF WInv, Told, ToldOnce, RefusedOnce, TrueCallbacks, TrueAnswers, IsCurrent, IsQueued,
       IsFailing, IsCalled, IsTold, IsRefused, IsAccepted, IsDone, Tells, Fails, Writing, Live,
       WasWritten
  <2>6. (~CallsInFailure => FailsNext /\ (Finishes => AllWritten))'
    BY <2>1 DEF WInv, FailsNext, Finishes, AllWritten, Finishing, Emits, Came, Live, IsCalled,
       Writing
  <2> QED BY <2>2, <2>3, <2>4, <2>5, <2>6 DEF WInv
<1> QED BY <1>1, <1>2, <1>3, <1>4, <1>5, <1>6, <1>7, <1>8 DEF Next, Proceed

\* Every chunk that write() has accepted of a stream that lives is answered
\* for, being written, waiting or corked, and these follow each other in the
\* order of the calls of write(); length counts those that are not answered
\* for (write, _doWrite, onwrite, cork and uncork of stream.js).  It holds for
\* every number of calls of user code, made between two tasks, from a listener
\* or from the callback of a write, and every way in which the subclass answers.
THEOREM WritesOrdered ==
  Spec => []WritesKeepOrder
<1>1. Init => Inv /\ WInv /\ use \in Uses
  BY InitInv, InitWInv DEF Init
<1>2. Inv /\ WInv /\ use \in Uses /\ [Next]_vars => (Inv /\ WInv /\ use \in Uses)'
  BY NextInv, NextWInv
<1>3. WInv => WritesKeepOrder
  BY DEF WInv, Ordered
<1> QED BY <1>1, <1>2, <1>3, PTL DEF Spec

\* The callback of a write is called once at most and with an error exactly
\* when the chunk was not written, whether it was refused by write(), failed by
\* the subclass or dropped by destroy() (write, onwrite and _destroy of
\* stream.js), even when it calls the stream in the middle of a failure.
THEOREM AnswersTrue ==
  Spec => []TrueAnswers
<1>1. Init => Inv /\ WInv /\ use \in Uses
  BY InitInv, InitWInv DEF Init
<1>2. Inv /\ WInv /\ use \in Uses /\ [Next]_vars => (Inv /\ WInv /\ use \in Uses)'
  BY NextInv, NextWInv
<1>3. WInv => TrueAnswers
  BY DEF WInv, Told
<1> QED BY <1>1, <1>2, <1>3, PTL DEF Spec

\* At 'finish' every accepted chunk was written and its callback has run.
LEMMA FinishedIsWritten ==
  ASSUME WInv, ~CallsInFailure
  PROVE  CallbacksAreTruthful
<1>1. WriterState /\ TrueAnswers /\ (Finishes => AllWritten)
  BY DEF WInv, Ordered, Told
<1>2. ASSUME Contains(emitted[w], "finish"), NEW c \in ToSet(accepted)
      PROVE  WasWritten(c) /\ Contains(called, [c |-> c, err |-> FALSE])
  <2>1. AllWritten
    BY <1>1, <1>2 DEF Contains, Finishes, Came
  <2>2. PICK k \in DOMAIN done : done[k].c = c /\ ~done[k].err /\ IsCalled(c)
    <3>1. PICK k \in DOMAIN accepted : accepted[k] = c
      BY <1>2 DEF ToSet
    <3>2. k \in DOMAIN done /\ accepted[k] = done[k].c
      BY <2>1, <3>1 DEF AllWritten, Chunks
    <3> QED BY <2>1, <3>1, <3>2 DEF AllWritten
  <2>3. WasWritten(c)
    BY <1>1, <2>2, WrittenIs DEF WasWritten, WroteIn, WriterState
  <2>4. PICK j \in DOMAIN called : called[j].c = c
    BY <2>2 DEF IsCalled
  <2>5. ~called[j].err
    BY <1>1, <2>3, <2>4 DEF TrueAnswers
  <2>6. WroteIn(called, c)
    BY <2>4, <2>5 DEF WroteIn
  <2>7. Contains(called, [c |-> c, err |-> FALSE])
    BY <1>1, <2>6, WrittenIs DEF WriterState
  <2> QED BY <2>3, <2>7
<1> QED BY <1>1, <1>2 DEF CallbacksAreTruthful, TrueAnswers

\* The callbacks of write() tell the truth and 'finish' comes when every
\* accepted chunk was written and its callback ran (_finishMaybe and onwrite of
\* stream.js), for every number of calls of user code.  Code that calls the
\* stream from the callback of a write that failed, before that failure
\* destroys it, is set aside: end() from there finishes the stream.
THEOREM CallbacksTruthful ==
  ASSUME ~CallsInFailure
  PROVE  Spec => []CallbacksAreTruthful
<1>1. Init => Inv /\ WInv /\ use \in Uses
  BY InitInv, InitWInv DEF Init
<1>2. Inv /\ WInv /\ use \in Uses /\ [Next]_vars => (Inv /\ WInv /\ use \in Uses)'
  BY NextInv, NextWInv
<1>3. WInv => CallbacksAreTruthful
  BY FinishedIsWritten
<1> QED BY <1>1, <1>2, <1>3, PTL DEF Spec
=============================================================================
