------------------------------ MODULE JsStream ------------------------------
(***************************************************************************)
(* The stream library of the plugin runtime (pkg/jsruntime/stream):        *)
(* Readable, Writable, Duplex, Transform, pipe and destroy.                *)
(*                                                                         *)
(* JavaScript runs one thing at a time, but a library function that emits  *)
(* an event or calls a callback runs other code in its middle, and that    *)
(* code may call the library again.  Every function is therefore cut at    *)
(* the calls it makes: stack holds the calls still to be run, the current  *)
(* one first, and ticks the functions given to process.nextTick, served in *)
(* order once the stack is empty.  A step runs the first call of the stack *)
(* up to its next call.  The calls of the subclass (_read, _write,         *)
(* _transform, _flush, _final, _destroy) and of user code are left to the  *)
(* modules that extend this one.                                           *)
(*                                                                         *)
(* Chunks are numbers and count one each towards highWaterMark, as in      *)
(* objectMode; Empty is a chunk of length 0.                               *)
(***************************************************************************)
EXTENDS Integers, Sequences, SequencesExt, FiniteSets

CONSTANTS
  Readers,        \* the streams with a readable side
  Writers,        \* the streams with a writable side; both for a Duplex
  Transforms,     \* the Transforms among them
  CustomFinal,    \* the writable streams whose options have a final
  CustomDestroy,  \* the streams whose options have a destroy
  Hwm             \* highWaterMark of every stream

Streams == Readers \cup Writers

ASSUME StreamAssumption ==
  /\ Transforms \subseteq Readers \cap Writers
  /\ CustomFinal \subseteq Writers
  /\ CustomDestroy \subseteq Streams
  /\ Hwm \in [Streams -> Nat]

VARIABLES
  rs,         \* kReadableState of every stream of Readers
  ws,         \* kWritableState of every stream of Writers
  listeners,  \* the listeners of every stream, by event, oldest first
  ticks,      \* calls given to process.nextTick, oldest first
  stack,      \* calls being run, innermost first
  ret,        \* what the last write() returned
  emitted     \* history: the lifecycle events of every stream, in order

streamVars == <<rs, ws, listeners, ticks, stack, ret, emitted>>

Eof == 0         \* push(null)
Empty == -1      \* push of a chunk of length 0
NoItem == [c |-> 0, cb |-> FALSE]

Events == {"data", "readable", "end", "error", "close", "drain", "finish"}
Lifecycle == {"end", "finish", "error", "close"}

(* Calls *)
Call(f, s) == [fn |-> f, s |-> s]
CallC(f, s, c) == [fn |-> f, s |-> s, c |-> c]
CallE(f, s, e) == [fn |-> f, s |-> s, err |-> e]
CallD(f, s, d) == [fn |-> f, s |-> s, d |-> d]
Emit(s, ev) == [fn |-> "emit", s |-> s, ev |-> ev, c |-> 0, err |-> FALSE]
WriteCall(s, c, cb) == [fn |-> "write", s |-> s, c |-> c, cb |-> cb]

top == Head(stack)
Running(f) == stack # <<>> /\ top.fn = f
Continue(calls) == stack' = calls \o Tail(stack)
Then(cond, calls) == IF cond THEN calls ELSE <<>>

ReadableState ==
  [buffer |-> <<>>, ended |-> FALSE, endEmitted |-> FALSE, flowing |-> FALSE,
   reading |-> FALSE, destroyed |-> FALSE, errored |-> FALSE,
   readableTick |-> FALSE, flowTick |-> FALSE, pipes |-> <<>>]

WritableState ==
  [pending |-> <<>>, corkedBuffer |-> <<>>, length |-> 0, current |-> NoItem,
   ended |-> FALSE, finished |-> FALSE, corked |-> 0, needDrain |-> FALSE,
   destroyed |-> FALSE, errored |-> FALSE, transforming |-> FALSE]

\* The constructor of a Duplex that may not be half open, as a Transform.
HalfClosed(s, ev) ==
  CASE s \in Transforms /\ ev = "end" -> <<[fn |-> "endOther", s |-> s]>>
    [] s \in Transforms /\ ev = "finish" -> <<[fn |-> "pushOther", s |-> s]>>
    [] OTHER -> <<>>

\* New streams; First(s, ev) are the listeners that are added at once.
StreamInit(First(_, _)) ==
  /\ rs = [s \in Readers |-> ReadableState]
  /\ ws = [s \in Writers |-> WritableState]
  /\ listeners = [s \in Streams |-> [ev \in Events |->
                                    HalfClosed(s, ev) \o First(s, ev)]]
  /\ ticks = <<>>
  /\ stack = <<>>
  /\ ret = TRUE
  /\ emitted = [s \in Streams |-> <<>>]

Destroyed(s) == \/ s \in Readers /\ rs[s].destroyed
                \/ s \in Writers /\ ws[s].destroyed
Writing(s) == ws[s].current # NoItem

---------------------------------------------------------------------------
(* EventEmitter *)

\* The call of listener l with the arguments of the event.
Notified(l, event) ==
  [f \in DOMAIN l \cup DOMAIN event |-> IF f \in DOMAIN l THEN l[f] ELSE event[f]]

\* The listeners are those of the moment: emit copies the list.
EmitStep ==
  /\ Running("emit")
  /\ LET list == listeners[top.s][top.ev]
     IN Continue([i \in DOMAIN list |-> Notified(list[i], top)])
  /\ emitted' = IF top.ev \in Lifecycle
                THEN [emitted EXCEPT ![top.s] = Append(@, top.ev)]
                ELSE emitted
  /\ UNCHANGED <<rs, ws, listeners, ticks, ret>>

---------------------------------------------------------------------------
(* Readable *)

Resumed(st) == [st EXCEPT !.flowing = TRUE, !.flowTick = @ \/ ~st.destroyed]
Paused(st) == [st EXCEPT !.flowing = FALSE]

\* _scheduleFlow, when st is not scheduled yet.
ScheduleFlow(s, st) ==
  Then(~st.flowTick /\ ~st.destroyed, <<Call("flowTick", s)>>)

\* resume() of s; nothing when s flows already.
Resume(s) ==
  /\ rs' = IF rs[s].flowing THEN rs ELSE [rs EXCEPT ![s] = Resumed(@)]
  /\ ticks' = ticks \o Then(~rs[s].flowing, ScheduleFlow(s, rs[s]))

Pause(s) == rs' = [rs EXCEPT ![s] = Paused(@)] /\ UNCHANGED ticks

EndIfDrained(s) == Then(rs[s].buffer = <<>>, <<Call("emitEnd", s)>>)

\* push of null, of a chunk of length 0, of a chunk.
Push ==
  /\ Running("push")
  /\ LET s == top.s
         st == rs[s]
     IN \/ st.destroyed /\ Continue(<<>>) /\ UNCHANGED <<rs, ticks>>
        \/ /\ ~st.destroyed /\ top.c = Eof
           /\ rs' = [rs EXCEPT ![s].ended = TRUE, ![s].reading = FALSE]
           /\ Continue(EndIfDrained(s))
           /\ UNCHANGED ticks
        \/ /\ ~st.destroyed /\ top.c = Empty
           /\ rs' = [rs EXCEPT ![s].reading = FALSE]
           /\ Continue(<<>>)
           /\ UNCHANGED ticks
        \/ /\ ~st.destroyed /\ top.c \notin {Empty, Eof}
           /\ LET readable == ~st.flowing /\ ~st.readableTick /\ ~st.ended
              IN /\ rs' = [rs EXCEPT ![s].buffer = Append(@, top.c),
                                     ![s].reading = FALSE,
                                     ![s].flowTick = @ \/ st.flowing,
                                     ![s].readableTick = @ \/ readable]
                 /\ ticks' = ticks
                      \o Then(st.flowing, ScheduleFlow(s, st))
                      \o Then(readable, <<Call("readableTick", s)>>)
           /\ Continue(<<>>)
  /\ UNCHANGED <<ws, listeners, ret, emitted>>

\* Defect: the subclass is asked again while it still owes a chunk.
MaybeReadAgain ==
  /\ Running("maybeRead")
  /\ LET s == top.s
         st == rs[s]
         ask == ~st.ended /\ ~st.destroyed /\ Len(st.buffer) < Hwm[s]
     IN /\ rs' = [rs EXCEPT ![s].reading = @ \/ ask]
        /\ Continue(Then(ask, <<Call("_read", s)>>))
  /\ UNCHANGED <<ws, listeners, ticks, ret, emitted>>

\* _maybeRead asks the subclass for more, once until it pushes.
MaybeRead ==
  /\ Running("maybeRead")
  /\ LET s == top.s
         st == rs[s]
         ask == /\ ~st.reading /\ ~st.ended /\ ~st.destroyed
                /\ Len(st.buffer) < Hwm[s]
     IN /\ rs' = [rs EXCEPT ![s].reading = @ \/ ask]
        /\ Continue(Then(ask, <<Call("_read", s)>>))
  /\ UNCHANGED <<ws, listeners, ticks, ret, emitted>>

\* Defect: the flag that a flow is scheduled is not reset.
FlowTickOnce ==
  /\ Running("flowTick")
  /\ Continue(<<Call("flow", top.s)>>)
  /\ UNCHANGED <<rs, ws, listeners, ticks, ret, emitted>>

FlowTick ==
  /\ Running("flowTick")
  /\ rs' = [rs EXCEPT ![top.s].flowTick = FALSE]
  /\ Continue(<<Call("flow", top.s)>>)
  /\ UNCHANGED <<ws, listeners, ticks, ret, emitted>>

\* One turn of the loop of _flow.
Flow ==
  /\ Running("flow")
  /\ LET s == top.s
         st == rs[s]
     IN \/ /\ ~st.flowing \/ st.destroyed
           /\ Continue(<<>>)
           /\ UNCHANGED rs
        \/ /\ st.flowing /\ ~st.destroyed /\ st.buffer # <<>>
           /\ rs' = [rs EXCEPT ![s].buffer = Tail(@)]
           /\ Continue(<<[Emit(s, "data") EXCEPT !.c = Head(st.buffer)],
                         Call("flow", s)>>)
        \/ /\ st.flowing /\ ~st.destroyed /\ st.buffer = <<>> /\ st.ended
           /\ Continue(<<Call("emitEnd", s)>>)
           /\ UNCHANGED rs
        \/ /\ st.flowing /\ ~st.destroyed /\ st.buffer = <<>> /\ ~st.ended
           /\ Continue(<<Call("maybeRead", s), Call("flowMore", s)>>)
           /\ UNCHANGED rs
  /\ UNCHANGED <<ws, listeners, ticks, ret, emitted>>

FlowMore ==
  /\ Running("flowMore")
  /\ Continue(Then(rs[top.s].buffer # <<>> \/ rs[top.s].ended,
                   <<Call("flow", top.s)>>))
  /\ UNCHANGED <<rs, ws, listeners, ticks, ret, emitted>>

ReadableTick ==
  /\ Running("readableTick")
  /\ LET s == top.s
         st == rs[s]
     IN /\ rs' = [rs EXCEPT ![s].readableTick = FALSE]
        /\ Continue(Then(~st.destroyed /\ ~st.endEmitted /\ st.buffer # <<>>,
                         <<Emit(s, "readable")>>))
  /\ UNCHANGED <<ws, listeners, ticks, ret, emitted>>

EmitEnd ==
  /\ Running("emitEnd")
  /\ LET s == top.s
         due == ~rs[s].endEmitted /\ ~rs[s].destroyed
     IN /\ rs' = [rs EXCEPT ![s].endEmitted = @ \/ due]
        /\ Continue(Then(due, <<Emit(s, "end"), Call("autoDestroy", s)>>))
  /\ UNCHANGED <<ws, listeners, ticks, ret, emitted>>

\* read() with no size; the chunk it returns is the head of the buffer.
Read ==
  /\ Running("read")
  /\ LET s == top.s
         st == rs[s]
     IN \/ /\ st.buffer = <<>>
           /\ Continue(<<Call(IF st.ended THEN "emitEnd" ELSE "maybeRead", s)>>)
           /\ UNCHANGED rs
        \/ /\ st.buffer # <<>>
           /\ rs' = [rs EXCEPT ![s].buffer = Tail(@)]
           /\ Continue(Then(Len(st.buffer) = 1 /\ ~st.ended,
                            <<Call("maybeRead", s)>>)
                       \o <<Call("afterRead", s)>>)
  /\ UNCHANGED <<ws, listeners, ticks, ret, emitted>>

AfterRead ==
  /\ Running("afterRead")
  /\ Continue(Then(rs[top.s].ended /\ rs[top.s].buffer = <<>>,
                   <<Call("emitEnd", top.s)>>))
  /\ UNCHANGED <<rs, ws, listeners, ticks, ret, emitted>>

\* unshift(c); it throws while the stream flows.
Unshift ==
  /\ Running("unshift") /\ ~rs[top.s].flowing
  /\ rs' = [rs EXCEPT ![top.s].buffer = <<top.c>> \o @]
  /\ Continue(<<>>)
  /\ UNCHANGED <<ws, listeners, ticks, ret, emitted>>

\* on(ev, listener): a data listener resumes the stream, a readable listener
\* pauses it and asks for a chunk.
On ==
  /\ Running("on")
  /\ LET s == top.s
     IN /\ listeners' = [listeners EXCEPT ![s][top.ev] = Append(@, top.l)]
        /\ CASE top.ev = "data" -> Resume(s)
             [] top.ev = "readable" ->
                  /\ rs' = [rs EXCEPT ![s] = Paused(@)]
                  /\ ticks' = Append(ticks, Call("maybeRead", s))
             [] OTHER -> UNCHANGED <<rs, ticks>>
  /\ Continue(<<>>)
  /\ UNCHANGED <<ws, ret, emitted>>

\* removeListener(), of the last that was added: the stream pauses when it
\* loses its last data listener.
RemoveListener ==
  /\ Running("off")
  /\ LET s == top.s
         all == listeners[s][top.ev]
     IN \E i \in 0..Len(all) :
          /\ i > 0 => all[i] = top.l
          /\ \A j \in (i + 1)..Len(all) : all[j] # top.l
          /\ LET kept == IF i = 0 THEN all ELSE RemoveAt(all, i)
             IN /\ listeners' = [listeners EXCEPT ![s][top.ev] = kept]
                /\ rs' = [rs EXCEPT
                     ![s].flowing = @ /\ ~(top.ev = "data" /\ kept = <<>>)]
  /\ Continue(<<>>)
  /\ UNCHANGED <<ws, ticks, ret, emitted>>

PauseCall ==
  /\ Running("pause")
  /\ Pause(top.s)
  /\ Continue(<<>>)
  /\ UNCHANGED <<ws, listeners, ret, emitted>>

ResumeCall ==
  /\ Running("resume")
  /\ Resume(top.s)
  /\ Continue(<<>>)
  /\ UNCHANGED <<ws, listeners, ret, emitted>>

---------------------------------------------------------------------------
(* Writable *)

\* Defect: the callback of a write that failed is not told so.
CallbackHidesError(s, item, err) ==
  Then(item.cb, <<[fn |-> "callback", s |-> s, c |-> item.c, err |-> FALSE]>>)

Callback(s, item, err) ==
  Then(item.cb, <<[fn |-> "callback", s |-> s, c |-> item.c, err |-> err]>>)

Write ==
  /\ Running("write")
  /\ LET s == top.s
         st == ws[s]
         item == [c |-> top.c, cb |-> top.cb]
         refused == ticks' = ticks \o Callback(s, item, TRUE)
     IN \/ /\ st.destroyed
           /\ refused
           /\ ret' = FALSE
           /\ Continue(<<>>)
           /\ UNCHANGED ws
        \/ /\ ~st.destroyed /\ st.ended
           /\ refused
           /\ ret' = FALSE
           /\ Continue(<<CallE("destroy", s, TRUE)>>)
           /\ UNCHANGED ws
        \/ /\ ~st.destroyed /\ ~st.ended /\ st.corked > 0
           /\ ws' = [ws EXCEPT ![s].length = @ + 1,
                               ![s].corkedBuffer = Append(@, item)]
           /\ ret' = TRUE
           /\ Continue(<<>>)
           /\ UNCHANGED ticks
        \/ /\ ~st.destroyed /\ ~st.ended /\ st.corked = 0
           /\ ws' = [ws EXCEPT ![s].length = @ + 1,
                               ![s].pending = Append(@, item)]
           /\ Continue(<<Call("doWrite", s), Call("written", s)>>)
           /\ UNCHANGED <<ret, ticks>>
  /\ UNCHANGED <<rs, listeners, emitted>>

\* The end of write(): what it returns.
Written ==
  /\ Running("written")
  /\ LET ok == ws[top.s].length < Hwm[top.s]
     IN ret' = ok /\ ws' = [ws EXCEPT ![top.s].needDrain = @ \/ ~ok]
  /\ Continue(<<>>)
  /\ UNCHANGED <<rs, listeners, ticks, emitted>>

\* Defect: a write starts while another is being answered.
DoWriteAgain ==
  /\ Running("doWrite")
  /\ LET s == top.s
         st == ws[s]
         start == ~st.destroyed /\ st.pending # <<>>
     IN \/ ~start /\ Continue(<<>>) /\ UNCHANGED ws
        \/ /\ start
           /\ ws' = [ws EXCEPT ![s].current = Head(st.pending),
                               ![s].pending = Tail(@)]
           /\ Continue(<<CallC("_write", s, Head(st.pending).c)>>)
  /\ UNCHANGED <<rs, listeners, ticks, ret, emitted>>

DoWrite ==
  /\ Running("doWrite")
  /\ LET s == top.s
         st == ws[s]
         start == ~st.destroyed /\ ~Writing(s) /\ st.pending # <<>>
     IN \/ ~start /\ Continue(<<>>) /\ UNCHANGED ws
        \/ /\ start
           /\ ws' = [ws EXCEPT ![s].current = Head(st.pending),
                               ![s].pending = Tail(@)]
           /\ Continue(<<CallC("_write", s, Head(st.pending).c)>>)
  /\ UNCHANGED <<rs, listeners, ticks, ret, emitted>>

Less(n) == IF n > 0 THEN n - 1 ELSE 0

\* The subclass has answered _write: the callback of the write runs next.
OnWrite ==
  /\ Running("onwrite")
  /\ LET s == top.s
         st == ws[s]
     IN /\ ws' = [ws EXCEPT ![s].current = NoItem,
                            ![s].length = Less(@)]
        /\ Continue(Callback(s, st.current, top.err)
                    \o <<IF top.err THEN CallE("destroy", s, TRUE)
                         ELSE Call("afterWrite", s)>>)
  /\ UNCHANGED <<rs, listeners, ticks, ret, emitted>>

\* The rest of onwrite, after the callback.
AfterWrite ==
  /\ Running("afterWrite")
  /\ LET s == top.s
         st == ws[s]
         drain == /\ ~st.destroyed /\ st.pending = <<>>
                  /\ st.needDrain /\ st.length < Hwm[s]
     IN /\ ws' = [ws EXCEPT ![s].needDrain = @ /\ ~drain]
        /\ Continue(IF st.destroyed THEN <<>>
                    ELSE IF st.pending # <<>> THEN <<Call("doWrite", s)>>
                    ELSE Then(drain, <<Emit(s, "drain")>>)
                         \o <<Call("maybeFinish", s)>>)
  /\ UNCHANGED <<rs, listeners, ticks, ret, emitted>>

\* end(), with no chunk.  (With one, end() is write() and then this.)
End ==
  /\ Running("end")
  /\ LET s == top.s
         due == ~ws[s].destroyed /\ ~ws[s].ended
     IN /\ ws' = [ws EXCEPT ![s].ended = @ \/ due]
        /\ Continue(Then(due, <<Call("maybeFinish", s)>>))
  /\ UNCHANGED <<rs, listeners, ticks, ret, emitted>>

\* Defect: the chunk being written is forgotten.
NothingPending(s) == ws[s].pending = <<>> /\ ws[s].corkedBuffer = <<>>

Flushed(s) ==
  ~Writing(s) /\ ws[s].pending = <<>> /\ ws[s].corkedBuffer = <<>>

MaybeFinish ==
  /\ Running("maybeFinish")
  /\ LET s == top.s
         st == ws[s]
         due == st.ended /\ ~st.finished /\ ~st.destroyed /\ Flushed(s)
     IN Continue(Then(due, <<Call(CASE s \in Transforms -> "_flush"
                                    [] s \in CustomFinal -> "_final"
                                    [] OTHER -> "finish", s)>>))
  /\ UNCHANGED <<rs, ws, listeners, ticks, ret, emitted>>

\* The subclass has answered _final.
FinalDone ==
  /\ Running("finalDone")
  /\ Continue(<<IF top.err THEN CallE("destroy", top.s, TRUE)
                ELSE Call("finish", top.s)>>)
  /\ UNCHANGED <<rs, ws, listeners, ticks, ret, emitted>>

\* Defect: the answer of _final finishes a stream that is destroyed.
FinishAnyway ==
  /\ Running("finish")
  /\ LET s == top.s
         due == ~ws[s].finished
     IN /\ ws' = [ws EXCEPT ![s].finished = @ \/ due]
        /\ Continue(Then(due, <<Emit(s, "finish"), Call("autoDestroy", s)>>))
  /\ UNCHANGED <<rs, listeners, ticks, ret, emitted>>

Finish ==
  /\ Running("finish")
  /\ LET s == top.s
         due == ~ws[s].finished /\ ~ws[s].destroyed
     IN /\ ws' = [ws EXCEPT ![s].finished = @ \/ due]
        /\ Continue(Then(due, <<Emit(s, "finish"), Call("autoDestroy", s)>>))
  /\ UNCHANGED <<rs, listeners, ticks, ret, emitted>>

Cork ==
  /\ Running("cork")
  /\ ws' = [ws EXCEPT ![top.s].corked = @ + 1]
  /\ Continue(<<>>)
  /\ UNCHANGED <<rs, listeners, ticks, ret, emitted>>

\* Defect: what was corked waits for the next write.
UncorkIdle ==
  /\ Running("uncork")
  /\ LET s == top.s
         flush == ws[s].corked = 1
     IN ws' = [ws EXCEPT
          ![s].corked = Less(@),
          ![s].pending = @ \o Then(flush, ws[s].corkedBuffer),
          ![s].corkedBuffer = IF flush THEN <<>> ELSE @]
  /\ Continue(<<>>)
  /\ UNCHANGED <<rs, listeners, ticks, ret, emitted>>

Uncork ==
  /\ Running("uncork")
  /\ LET s == top.s
         st == ws[s]
         flush == st.corked = 1 /\ st.corkedBuffer # <<>>
     IN /\ ws' = [ws EXCEPT
             ![s].corked = IF @ > 0 THEN @ - 1 ELSE 0,
             ![s].pending = @ \o Then(flush, st.corkedBuffer),
             ![s].corkedBuffer = IF flush THEN <<>> ELSE @]
        /\ Continue(Then(flush, <<Call("doWrite", s)>>))
  /\ UNCHANGED <<rs, listeners, ticks, ret, emitted>>

---------------------------------------------------------------------------
(* Transform *)

\* A Transform has the empty _read of Readable: it pushes when it is written.
TransformRead ==
  /\ Running("_read") /\ top.s \in Transforms
  /\ Continue(<<>>)
  /\ UNCHANGED <<rs, ws, listeners, ticks, ret, emitted>>

\* _write of a Transform, once the chunk before it has been transformed.
TransformWrite ==
  /\ Running("_write") /\ top.s \in Transforms
  /\ ~ws[top.s].transforming
  /\ ws' = [ws EXCEPT ![top.s].transforming = TRUE]
  /\ Continue(<<CallC("_transform", top.s, top.c)>>)
  /\ UNCHANGED <<rs, listeners, ticks, ret, emitted>>

\* The subclass has answered _transform with a chunk or an error.
TransformDone ==
  /\ Running("transformed")
  /\ ws' = [ws EXCEPT ![top.s].transforming = FALSE]
  /\ Continue(Then(top.c # Eof, <<CallC("push", top.s, top.c)>>)
              \o <<CallE("onwrite", top.s, top.err)>>)
  /\ UNCHANGED <<rs, listeners, ticks, ret, emitted>>

\* The subclass has answered _flush.
FlushDone ==
  /\ Running("flushed")
  /\ Continue(Then(~top.err, <<CallC("push", top.s, Eof)>>)
              \o <<CallE("finalDone", top.s, top.err)>>)
  /\ UNCHANGED <<rs, ws, listeners, ticks, ret, emitted>>

\* A Duplex that may not be half open ends one side with the other.
EndOther ==
  /\ Running("endOther")
  /\ Continue(Then(~ws[top.s].ended /\ ~ws[top.s].destroyed,
                   <<Call("end", top.s)>>))
  /\ UNCHANGED <<rs, ws, listeners, ticks, ret, emitted>>

PushOther ==
  /\ Running("pushOther")
  /\ Continue(Then(~rs[top.s].ended /\ ~rs[top.s].destroyed,
                   <<CallC("push", top.s, Eof)>>))
  /\ UNCHANGED <<rs, ws, listeners, ticks, ret, emitted>>

---------------------------------------------------------------------------
(* Stream *)

AutoDestroy ==
  /\ Running("autoDestroy")
  /\ LET s == top.s
         due == /\ s \in Readers => rs[s].endEmitted
                /\ s \in Writers => ws[s].finished
     IN ticks' = ticks \o Then(due, <<CallE("destroy", s, FALSE)>>)
  /\ Continue(<<>>)
  /\ UNCHANGED <<rs, ws, listeners, ret, emitted>>

\* The loop over the queued writes, each of which is told.  uncork() from one
\* of the callbacks moves writes between the queues, but each is told once.
FailWrites(s, list) ==
  Then(list # <<>>, <<[fn |-> "failWrites", s |-> s, list |-> list]>>)

FailNext ==
  /\ Running("failWrites")
  /\ Continue(Callback(top.s, Head(top.list), TRUE)
              \o FailWrites(top.s, Tail(top.list)))
  /\ UNCHANGED <<rs, ws, listeners, ticks, ret, emitted>>

\* The queued writes are told, then dropped.
Destroy ==
  /\ Running("destroy")
  /\ LET s == top.s
         err == top.err
     IN \/ Destroyed(s) /\ Continue(<<>>) /\ UNCHANGED <<rs, ws>>
        \/ /\ ~Destroyed(s)
           /\ rs' = [r \in Readers |->
                IF r = s THEN [rs[r] EXCEPT !.destroyed = TRUE, !.ended = TRUE,
                                            !.errored = @ \/ err]
                ELSE rs[r]]
           /\ ws' = [w \in Writers |->
                IF w = s THEN [ws[w] EXCEPT !.destroyed = TRUE, !.ended = TRUE,
                                            !.errored = @ \/ err]
                ELSE ws[w]]
           /\ Continue(Then(s \in Writers,
                            FailWrites(s, ws[s].pending)
                            \o FailWrites(s, ws[s].corkedBuffer)
                            \o <<Call("dropWrites", s)>>)
                \o <<CallE(IF s \in CustomDestroy THEN "_destroy" ELSE "closed",
                           s, err)>>)
  /\ UNCHANGED <<listeners, ticks, ret, emitted>>

DropWrites ==
  /\ Running("dropWrites")
  /\ ws' = [ws EXCEPT ![top.s].pending = <<>>, ![top.s].corkedBuffer = <<>>,
                      ![top.s].length = 0]
  /\ Continue(<<>>)
  /\ UNCHANGED <<rs, listeners, ticks, ret, emitted>>

\* The subclass has answered _destroy.
Closed ==
  /\ Running("closed")
  /\ LET s == top.s
         err == top.err
     IN /\ rs' = [r \in Readers |-> IF r = s
                    THEN [rs[r] EXCEPT !.errored = @ \/ err] ELSE rs[r]]
        /\ ws' = [w \in Writers |-> IF w = s
                    THEN [ws[w] EXCEPT !.errored = @ \/ err] ELSE ws[w]]
        /\ Continue(Then(err, <<[Emit(s, "error") EXCEPT !.err = TRUE]>>)
                    \o <<Emit(s, "close")>>)
  /\ UNCHANGED <<listeners, ticks, ret, emitted>>

---------------------------------------------------------------------------
(* pipe *)

PipeListener(f, s, d) == [fn |-> f, s |-> s, d |-> d]
SourceHandler == [data |-> "ondata", end |-> "onend", error |-> "unpipe"]
DestHandler == [drain |-> "ondrain", error |-> "unpipe", close |-> "unpipe"]

\* pipe(): the handlers of s.pipe(d), after those that are there already.
Pipe ==
  /\ Running("pipe")
  /\ LET s == top.s
         d == top.d
         added(handler, ev) == Then(ev \in DOMAIN handler,
                                    <<PipeListener(handler[ev], s, d)>>)
     IN /\ listeners' = [x \in Streams |-> [ev \in Events |->
             listeners[x][ev] \o Then(x = s, added(SourceHandler, ev))
                              \o Then(x = d, added(DestHandler, ev))]]
        /\ rs' = [rs EXCEPT ![s] =
             LET st == [@ EXCEPT !.pipes = Append(@, d)]
             IN IF st.flowing THEN st ELSE Resumed(st)]
        /\ ticks' = ticks \o Then(~rs[s].flowing, ScheduleFlow(s, rs[s]))
  /\ Continue(<<>>)
  /\ UNCHANGED <<ws, ret, emitted>>

\* unpipe(d): its handlers go, and s pauses when nothing listens to it.
Unpipe ==
  /\ Running("unpipe")
  /\ LET s == top.s
         d == top.d
         kept(list) == SelectSeq(list, LAMBDA l :
                         ~("d" \in DOMAIN l /\ l.s = s /\ l.d = d))
         piped == Contains(rs[s].pipes, d)
     IN /\ listeners' = IF piped
             THEN [x \in Streams |-> [ev \in Events |-> kept(listeners[x][ev])]]
             ELSE listeners
        /\ rs' = [rs EXCEPT
             ![s].pipes = SelectSeq(@, LAMBDA x : x # d),
             ![s].flowing = @ /\ ~(piped /\ kept(listeners[s]["data"]) = <<>>)]
  /\ Continue(<<>>)
  /\ UNCHANGED <<ws, ticks, ret, emitted>>

OnData ==
  /\ Running("ondata")
  /\ Continue(IF Destroyed(top.d) THEN <<CallD("unpipe", top.s, top.d)>>
              ELSE <<WriteCall(top.d, top.c, FALSE),
                     CallD("pauseUnlessWritten", top.s, top.d)>>)
  /\ UNCHANGED <<rs, ws, listeners, ticks, ret, emitted>>

PauseUnlessWritten ==
  /\ Running("pauseUnlessWritten")
  /\ IF ret THEN UNCHANGED <<rs, ticks>> ELSE Pause(top.s)
  /\ Continue(<<>>)
  /\ UNCHANGED <<ws, listeners, ret, emitted>>

OnEnd ==
  /\ Running("onend")
  /\ Continue(Then(~Destroyed(top.d), <<Call("end", top.d)>>))
  /\ UNCHANGED <<rs, ws, listeners, ticks, ret, emitted>>

\* Defect: 'drain' is not listened to.
DrainIgnored ==
  /\ Running("ondrain")
  /\ Continue(<<>>)
  /\ UNCHANGED <<rs, ws, listeners, ticks, ret, emitted>>

\* A source that has been ended is not resumed.
OnDrain ==
  /\ Running("ondrain")
  /\ IF rs[top.s].ended \/ rs[top.s].destroyed THEN UNCHANGED <<rs, ticks>>
     ELSE Resume(top.s)
  /\ Continue(<<>>)
  /\ UNCHANGED <<ws, listeners, ret, emitted>>

---------------------------------------------------------------------------

\* The event loop takes the next tick when nothing runs.
RunTick ==
  /\ stack = <<>> /\ ticks # <<>>
  /\ stack' = <<Head(ticks)>>
  /\ ticks' = Tail(ticks)
  /\ UNCHANGED <<rs, ws, listeners, ret, emitted>>

\* A macrotask starts only when no tick is left.
Idle == stack = <<>> /\ ticks = <<>>

ReadableStep ==
  \/ Push \/ MaybeRead \/ FlowTick \/ Flow \/ FlowMore \/ ReadableTick \/ EmitEnd
ReaderCall ==
  \/ Read \/ AfterRead \/ Unshift \/ On \/ RemoveListener
  \/ PauseCall \/ ResumeCall
WritableStep ==
  \/ Write \/ Written \/ DoWrite \/ OnWrite \/ AfterWrite
  \/ End \/ MaybeFinish \/ FinalDone \/ Finish
CorkStep == Cork \/ Uncork
TransformStep ==
  \/ TransformRead \/ TransformWrite \/ TransformDone \/ FlushDone
  \/ EndOther \/ PushOther
DestroyStep == AutoDestroy \/ Destroy \/ FailNext \/ DropWrites \/ Closed
PipeStep ==
  \/ Pipe \/ Unpipe \/ OnData \/ PauseUnlessWritten \/ OnEnd \/ OnDrain

---------------------------------------------------------------------------
(* A property of every stream *)

\* The lifecycle of a stream, whatever re-enters it and in which order its
\* subclass answers: 'end', 'finish', 'error' and 'close' come at most once
\* each, nothing comes after 'close', and after 'error' only 'close'.
LifecycleOrder ==
  \A s \in Streams : \A i, j \in DOMAIN emitted[s] :
    i < j => /\ emitted[s][i] # emitted[s][j]
             /\ emitted[s][i] # "close"
             /\ emitted[s][i] = "error" => emitted[s][j] = "close"
=============================================================================
