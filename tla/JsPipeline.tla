----------------------------- MODULE JsPipeline -----------------------------
(***************************************************************************)
(* pipeline() and finished() of the stream library: a source, perhaps a    *)
(* Transform, and a destination, whose subclasses answer at once or later, *)
(* fail, or are destroyed by user code.                                    *)
(***************************************************************************)
EXTENDS JsStream

CONSTANTS
  src, mid, dst,  \* the streams
  Chain,          \* the streams given to pipeline(), the source first
  Total,          \* bound: the number of chunks of the source
  Trailer,        \* the Transform pushes one chunk more when it is flushed
  Answers,        \* the ways a subclass answers: now, later, fail
  Aborts,         \* the calls <<stream, with an error>> of destroy() by users
  Watched         \* the streams finished() may be called on

ASSUME PipelineAssumption ==
  /\ src \in Readers /\ dst \in Writers
  /\ Head(Chain) = src /\ Last(Chain) = dst
  /\ Total \in Nat
  /\ Trailer \in BOOLEAN /\ (Trailer => Transforms # {})
  /\ Answers \subseteq {"now", "later", "fail"}
  /\ Aborts \subseteq Streams \X BOOLEAN
  /\ Watched \subseteq Streams

VARIABLES
  io,        \* calls of the subclasses that are not answered yet
  settled,   \* the promise of pipeline(): "none" before it is called
  fin,       \* the promise of finished() of each stream of Watched
  produced,  \* how many chunks the source has pushed
  written,   \* the chunks the destination has written, in order
  aborted    \* a user has called destroy()

vars == <<streamVars, io, settled, fin, produced, written, aborted>>

Init ==
  /\ StreamInit(LAMBDA s, ev : <<>>)
  /\ io = <<>>
  /\ settled = "none"
  /\ fin = [s \in Watched |-> "none"]
  /\ produced = 0
  /\ written = <<>>
  /\ aborted = FALSE

---------------------------------------------------------------------------
(* pipeline() *)

\* The streams listen for errors before they are piped, and the destination
\* for its end after.
StartPipeline ==
  /\ settled = "none" /\ Idle
  /\ settled' = "pending"
  /\ listeners' = [s \in Streams |-> [listeners[s] EXCEPT
       !["error"] = @ \o Then(Contains(Chain, s), <<Call("fail", s)>>)]]
  /\ stack' = [i \in 1..Len(Chain) - 1 |->
                 CallD("pipe", Chain[i], Chain[i + 1])]
              \o <<Call("watchDest", dst)>>
  /\ UNCHANGED <<rs, ws, ticks, ret, emitted,
                 io, fin, produced, written, aborted>>

WatchDest ==
  /\ Running("watchDest")
  /\ listeners' = [listeners EXCEPT
       ![dst]["finish"] = Append(@, Call("destDone", dst)),
       ![dst]["close"] = Append(@, Call("destClosed", dst))]
  /\ Continue(<<>>)
  /\ UNCHANGED <<rs, ws, ticks, ret, emitted,
                 io, settled, fin, produced, written, aborted>>

\* Defect: only the destination is destroyed.
FailLeavesSource ==
  /\ Running("fail")
  /\ settled' = IF settled = "pending" THEN "failed" ELSE settled
  /\ Continue(Then(settled = "pending", <<CallE("destroy", dst, TRUE)>>))
  /\ UNCHANGED <<rs, ws, listeners, ticks, ret, emitted,
                 io, fin, produced, written, aborted>>

Fail ==
  /\ Running("fail")
  /\ settled' = IF settled = "pending" THEN "failed" ELSE settled
  /\ Continue(Then(settled = "pending",
                   [i \in DOMAIN Chain |-> CallE("destroy", Chain[i], TRUE)]))
  /\ UNCHANGED <<rs, ws, listeners, ticks, ret, emitted,
                 io, fin, produced, written, aborted>>

DestDone ==
  /\ Running("destDone")
  /\ settled' = IF settled = "pending" THEN "ok" ELSE settled
  /\ Continue(<<>>)
  /\ UNCHANGED <<rs, ws, listeners, ticks, ret, emitted,
                 io, fin, produced, written, aborted>>

\* A destination that closes before it has finished is a failure.
DestClosed ==
  /\ Running("destClosed")
  /\ Continue(Then(~ws[top.s].finished, <<Call("fail", top.s)>>))
  /\ UNCHANGED <<rs, ws, listeners, ticks, ret, emitted,
                 io, settled, fin, produced, written, aborted>>

---------------------------------------------------------------------------
(* finished() *)

Ended(s) == s \in Readers /\ rs[s].endEmitted
Finished(s) == s \in Writers /\ ws[s].finished

\* What finished() finds when it is called.
AtOnce(s) == IF Ended(s) \/ Finished(s) THEN "ok"
             ELSE IF Destroyed(s) THEN "failed" ELSE "pending"

CallFinished(s) ==
  /\ fin[s] = "none" /\ settled # "none" /\ Idle
  /\ fin' = [fin EXCEPT ![s] = AtOnce(s)]
  /\ listeners' = [listeners EXCEPT ![s] = [ev \in Events |->
       @[ev] \o Then(ev \in Lifecycle, <<[fn |-> "settle", s |-> s]>>)]]
  /\ UNCHANGED <<rs, ws, ticks, stack, ret, emitted,
                 io, settled, produced, written, aborted>>

Settles(s, ev) == \/ ev \in {"end", "finish"}
                  \/ ev = "close" /\ (Ended(s) \/ Finished(s))

\* The first of error, end, finish and close settles the promise.
Settle ==
  /\ Running("settle")
  /\ fin' = IF fin[top.s] # "pending" THEN fin
            ELSE [fin EXCEPT ![top.s] = IF Settles(top.s, top.ev) THEN "ok"
                                        ELSE "failed"]
  /\ Continue(<<>>)
  /\ UNCHANGED <<rs, ws, listeners, ticks, ret, emitted,
                 io, settled, produced, written, aborted>>

---------------------------------------------------------------------------
(* The subclasses, each answering now, later or with an error *)

\* What one _read of the source pushes: the next chunk, or null after the
\* last, as an iterable; or all that is left, and null.
NextRead(s, all) ==
  LET n == IF all THEN Total - produced ELSE Min({1, Total - produced})
  IN [i \in 1..n |-> CallC("push", s, produced + i)]
       \o Then(all \/ n = 0, <<CallC("push", s, Eof)>>)

\* The calls with which the subclass may answer x.
Answered(x, err) ==
  CASE x.fn = "_read" -> IF err THEN {<<CallE("destroy", x.s, TRUE)>>}
                         ELSE {NextRead(x.s, all) : all \in BOOLEAN}
    [] x.fn = "_write" -> {<<CallE("onwrite", x.s, err)>>}
    [] x.fn = "_transform" ->
         {<<[fn |-> "transformed", s |-> x.s, err |-> err,
            c |-> IF err THEN Eof ELSE x.c]>>}
    [] x.fn = "_flush" ->
         {Then(Trailer /\ ~err, <<CallC("push", x.s, Total + 1)>>)
            \o <<CallE("flushed", x.s, err)>>}
    [] x.fn = "_final" -> {<<CallE("finalDone", x.s, err)>>}

Brings(call) == call.fn = "push" /\ call.c # Eof

Record(x, err, calls) ==
  /\ produced' = IF x.fn = "_read" /\ ~Destroyed(x.s)
                 THEN produced + Len(SelectSeq(calls, Brings)) ELSE produced
  /\ written' = IF x.fn = "_write" /\ ~err THEN Append(written, x.c) ELSE written

Hooks == {"_read", "_write", "_transform", "_flush", "_final"}

CallSubclass ==
  /\ stack # <<>> /\ top.fn \in Hooks
  /\ top.fn \in {"_read", "_write"} => top.s \notin Transforms
  /\ \/ \E err \in BOOLEAN : \E calls \in Answered(top, err) :
          /\ (IF err THEN "fail" ELSE "now") \in Answers
          /\ Continue(calls)
          /\ Record(top, err, calls)
          /\ UNCHANGED io
     \/ /\ "later" \in Answers
        /\ io' = Append(io, top)
        /\ Continue(<<>>)
        /\ UNCHANGED <<produced, written>>
  /\ UNCHANGED <<rs, ws, listeners, ticks, ret, emitted, settled, fin, aborted>>

\* An answer that comes later is a task of its own, or a promise that is
\* served between two ticks.
Answer(i) ==
  /\ stack = <<>>
  /\ io' = RemoveAt(io, i)
  /\ \E err \in BOOLEAN : \E calls \in Answered(io[i], err) :
       /\ err => "fail" \in Answers
       /\ stack' = calls
       /\ Record(io[i], err, calls)
  /\ UNCHANGED <<rs, ws, listeners, ticks, ret, emitted, settled, fin, aborted>>

\* destroy() by user code or by the signal of addAbortSignal().
Abort(s, err) ==
  /\ ~aborted /\ settled # "none" /\ Idle
  /\ <<s, err>> \in Aborts
  /\ aborted' = TRUE
  /\ stack' = <<CallE("destroy", s, err)>>
  /\ UNCHANGED <<rs, ws, listeners, ticks, ret, emitted,
                 io, settled, fin, produced, written>>

Library ==
  /\ \/ EmitStep \/ ReadableStep \/ WritableStep \/ TransformStep
     \/ DestroyStep \/ PipeStep \/ RunTick
  /\ UNCHANGED <<io, settled, fin, produced, written, aborted>>

\* The running task goes on.
Proceed ==
  Library \/ WatchDest \/ Fail \/ DestDone \/ DestClosed \/ Settle \/ CallSubclass

Next ==
  \/ StartPipeline
  \/ Proceed
  \/ \E i \in DOMAIN io : Answer(i)
  \/ \E s \in Streams, err \in BOOLEAN : Abort(s, err)
  \/ \E s \in Watched : CallFinished(s)

\* The event loop runs what is due, and every subclass answers.
Fairness == /\ WF_vars(StartPipeline)
            /\ WF_vars(Proceed)
            /\ WF_vars(\E i \in DOMAIN io : Answer(i))

Spec == Init /\ [][Next]_vars /\ Fairness

---------------------------------------------------------------------------
(* Properties *)

Outcomes == {"none", "pending", "ok", "failed"}
AllChunks == [i \in 1..(Total + IF Trailer THEN 1 ELSE 0) |-> i]

\* The types of the states of the streams and of the two promises; pipe()
\* pauses its source in time, so that no destination is given a chunk beyond
\* its highWaterMark.
PipelineTypeOK ==
  /\ \A s \in Readers : /\ rs[s].buffer \in Seq(DOMAIN AllChunks)
                        /\ rs[s].pipes \in Seq(Writers)
                        /\ rs[s].endEmitted \/ rs[s].destroyed => rs[s].ended
  /\ \A s \in Writers : /\ ws[s].length \in 0..Hwm[s]
                        /\ ws[s].finished \/ ws[s].destroyed => ws[s].ended
  /\ settled \in Outcomes /\ fin \in [Watched -> Outcomes]
  /\ produced \in 0..Total

\* pipeline() resolves only when the destination has written every chunk of
\* the source, in order and once each, and what the Transform pushed when it was
\* flushed, after them: whatever order the answers of the
\* subclasses, the pauses and the drains came in.  Between two tasks, a
\* finished() on the destination that has settled too agrees with it, whenever
\* it was called.
SuccessIsComplete ==
  /\ PipelineTypeOK
  /\ settled = "ok" => written = AllChunks
  /\ \A s \in Watched \cap {dst} :
       Idle /\ {settled, fin[s]} \subseteq {"ok", "failed"} => settled = fin[s]

\* Once pipeline() has rejected and the task that did has run to its end,
\* fail() has destroyed every stream of the chain: none is left holding its
\* source open.
FailureDestroysAll ==
  settled = "failed" /\ stack = <<>> =>
    \A i \in DOMAIN Chain : Destroyed(Chain[i])

\* A stream before the destination was destroyed without an error, before its
\* 'end'.  pipeline() listens only to the errors of these, and pipe() not to
\* their 'close'.
Errored(s) == \/ s \in Readers /\ rs[s].errored
              \/ s \in Writers /\ ws[s].errored
Silenced ==
  \E s \in ToSet(Front(Chain)) : Destroyed(s) /\ ~Errored(s) /\ ~rs[s].endEmitted

\* A stream was ended while the pipe had it paused: ondrain does not resume it,
\* so that what it buffers and its 'end' never come.
Stranded ==
  \E s \in Readers :
    /\ rs[s].pipes # <<>> /\ rs[s].ended
    /\ ~rs[s].flowing /\ ~rs[s].endEmitted /\ ~rs[s].destroyed

\* pipeline() settles, but for the two kinds of streams above: a source that is
\* paused and has not ended is resumed when its destination drains, an end is
\* passed on, an error of any stream and an early close of the destination are
\* noticed.  finished() settles once its stream is closed, in every case.
PipelineSettles ==
  /\ <>[](settled \in {"ok", "failed"} \/ Silenced \/ Stranded)
  /\ \A s \in Watched :
       fin[s] = "pending" /\ Destroyed(s) ~> fin[s] \in {"ok", "failed"}
=============================================================================
