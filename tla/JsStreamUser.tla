---------------------------- MODULE JsStreamUser ----------------------------
(***************************************************************************)
(* User code and one stream: a Readable that is listened to, read or       *)
(* iterated, or a Writable.  User code runs between the tasks of the       *)
(* library and inside them, as listener and as write callback, and may     *)
(* call the stream from there; the subclass answers at once, later, with   *)
(* an error or, when it is asked for a chunk, with an empty one.           *)
(***************************************************************************)
EXTENDS JsStream

CONSTANTS
  r, w,      \* the Readable and the Writable
  Uses,      \* the uses of a stream: data, read, iterate, write
  CallsInFailure, \* user code calls the stream from the callback of a write
                  \* that failed, before the stream is destroyed
  Answers,   \* the ways a subclass answers: now, later, fail, empty
  Total,     \* bound: the number of chunks of the source
  MaxCalls   \* bound: the number of calls user code makes

ASSUME UserAssumption ==
  /\ Readers = {r} /\ Writers = {w}
  /\ Uses \subseteq {"data", "read", "iterate", "write"}
  /\ Answers \subseteq {"now", "later", "fail", "empty"}
  /\ Total \in Nat /\ MaxCalls \in Nat

VARIABLES
  use,       \* what user code does with its stream
  calls,     \* how many calls it has made
  io,        \* calls of the subclass that are not answered yet
  produced,  \* how many chunks the source has pushed
  stalled,   \* history: the source has pushed an empty chunk
  got,       \* the chunks user code has been given, in order
  it,        \* the iterator, once there is one
  accepted,  \* the chunks write() has accepted, in order
  done,      \* the chunks the subclass has answered for, in order, and how
  called     \* the callbacks of write() that have run: chunk and error

userVars == <<use, calls, io, produced, stalled, got, it, accepted, done, called>>
vars == <<streamVars, userVars>>

User(s) == Call("user", s)
NoIterator == [open |-> FALSE, queue |-> <<>>, waiters |-> 0, done |-> FALSE,
               failed |-> FALSE, returned |-> FALSE, answers |-> {}]

\* User code listens to all but data and readable from the start.
Init ==
  /\ StreamInit(LAMBDA s, ev :
       Then(ev \in Lifecycle \cup {"drain"}, <<User(s)>>))
  /\ use \in Uses
  /\ calls = 0 /\ produced = 0 /\ stalled = FALSE
  /\ io = <<>> /\ got = <<>> /\ it = NoIterator
  /\ accepted = <<>> /\ done = <<>> /\ called = <<>>

---------------------------------------------------------------------------
(* What user code calls *)

OnCall(s, ev, l) == [fn |-> "on", s |-> s, ev |-> ev, l |-> l]
OffCall(s, ev, l) == [fn |-> "off", s |-> s, ev |-> ev, l |-> l]
Listens(s, ev) == listeners[s][ev] # <<>>
Received == Call("userData", r)

\* User code does not resume a stream whose data nobody takes, puts back only
\* what it has read and not after 'end', and opens its iterator in time.
Offered ==
  CASE use = "data" ->
         (IF Listens(r, "data")
          THEN {OffCall(r, "data", Received), Call("pause", r), Call("resume", r)}
          ELSE {OnCall(r, "data", Received)})
         \cup {CallE("destroy", r, err) : err \in BOOLEAN}
    [] use = "read" ->
         (IF Listens(r, "readable") THEN {Call("read", r)}
          ELSE {OnCall(r, "readable", User(r))})
         \cup (IF got # <<>> /\ ~rs[r].endEmitted /\ ~rs[r].destroyed
               THEN {CallC("unshift", r, Last(got))} ELSE {})
         \cup {CallE("destroy", r, TRUE)}
    [] use = "iterate" ->
         (IF it.open THEN {Call("itNext", r), Call("itReturn", r)}
          ELSE IF rs[r].destroyed THEN {} ELSE {Call("iterate", r)})
         \cup {CallE("destroy", r, err) : err \in BOOLEAN}
    [] use = "write" ->
         {WriteCall(w, calls + 1, TRUE), Call("end", w), Call("cork", w),
          Call("uncork", w)}
         \cup {CallE("destroy", w, err) : err \in BOOLEAN}

UserCalls ==
  /\ stack = <<>> \/ Running("user")
  /\ calls < MaxCalls
  /\ calls' = calls + 1
  /\ \E call \in Offered : stack' = <<call>> \o stack
  /\ UNCHANGED <<rs, ws, listeners, ticks, ret, emitted,
                 use, io, produced, got, it, accepted, done, called, stalled>>

UserReturns ==
  /\ Running("user")
  /\ Continue(<<>>)
  /\ UNCHANGED <<rs, ws, listeners, ticks, ret, emitted, userVars>>

\* The data listener and the callback of a write are user code too.
DataArrives ==
  /\ Running("userData")
  /\ got' = Append(got, top.c)
  /\ Continue(<<User(r)>>)
  /\ UNCHANGED <<rs, ws, listeners, ticks, ret, emitted,
                 use, calls, io, produced, it, accepted, done, called, stalled>>

CallbackRuns ==
  /\ Running("callback")
  /\ called' = Append(called, [c |-> top.c, err |-> top.err])
  /\ Continue(Then(~top.err \/ ws[w].destroyed \/ CallsInFailure, <<User(w)>>))
  /\ UNCHANGED <<rs, ws, listeners, ticks, ret, emitted,
                 use, calls, io, produced, got, it, accepted, done, stalled>>

---------------------------------------------------------------------------
(* The async iterator *)

IteratorListens ==
  [data |-> Call("itData", r), end |-> Call("itEnd", r),
   error |-> Call("itError", r), close |-> Call("itEnd", r)]
InOrder(CallOf(_, _, _)) ==
  [i \in 1..4 |-> LET ev == <<"data", "end", "error", "close">>[i]
                  IN CallOf(r, ev, IteratorListens[ev])]

Iterate ==
  /\ Running("iterate")
  /\ it' = [it EXCEPT !.open = TRUE]
  /\ Continue(InOrder(OnCall) \o <<Call("resume", r)>>)
  /\ UNCHANGED got

ItData ==
  /\ Running("itData")
  /\ \/ /\ it.waiters > 0
        /\ it' = [it EXCEPT !.waiters = @ - 1]
        /\ got' = Append(got, top.c)
     \/ /\ it.waiters = 0
        /\ it' = [it EXCEPT !.queue = Append(@, top.c)]
        /\ UNCHANGED got
  /\ Continue(<<>>)

Answered(waiters, answer) == IF waiters > 0 THEN {answer} ELSE {}

ItEnd ==
  /\ Running("itEnd")
  /\ it' = IF it.done THEN it
           ELSE [it EXCEPT !.done = TRUE, !.waiters = 0,
                           !.answers = @ \cup Answered(it.waiters, "done")]
  /\ Continue(<<>>)
  /\ UNCHANGED got

ItError ==
  /\ Running("itError")
  /\ it' = IF it.done THEN it
           ELSE [it EXCEPT !.done = TRUE, !.failed = TRUE, !.waiters = 0,
                           !.answers = @ \cup Answered(it.waiters, "failed")]
  /\ Continue(<<>>)
  /\ UNCHANGED got

\* Defect: next() looks at the end before it looks at the queue.
ItNextEndFirst ==
  /\ Running("itNext")
  /\ \/ /\ it.done
        /\ it' = [it EXCEPT !.answers =
                    @ \cup {IF it.failed THEN "failed" ELSE "done"}]
        /\ UNCHANGED got
     \/ /\ ~it.done /\ it.queue # <<>>
        /\ got' = Append(got, Head(it.queue))
        /\ it' = [it EXCEPT !.queue = Tail(@)]
     \/ /\ ~it.done /\ it.queue = <<>>
        /\ it' = [it EXCEPT !.waiters = @ + 1]
        /\ UNCHANGED got
  /\ Continue(<<>>)

ItNext ==
  /\ Running("itNext")
  /\ \/ /\ it.queue # <<>>
        /\ got' = Append(got, Head(it.queue))
        /\ it' = [it EXCEPT !.queue = Tail(@)]
     \/ /\ it.queue = <<>> /\ it.done
        /\ it' = [it EXCEPT !.answers =
                    @ \cup {IF it.failed THEN "failed" ELSE "done"}]
        /\ UNCHANGED got
     \/ /\ it.queue = <<>> /\ ~it.done
        /\ it' = [it EXCEPT !.waiters = @ + 1]
        /\ UNCHANGED got
  /\ Continue(<<>>)

\* return() leaves the promises of earlier calls of next() as they are.
ItReturn ==
  /\ Running("itReturn")
  /\ it' = [it EXCEPT !.done = TRUE, !.returned = TRUE]
  /\ Continue(InOrder(OffCall))
  /\ UNCHANGED got

IteratorStep ==
  /\ Iterate \/ ItData \/ ItEnd \/ ItError \/ ItNext \/ ItReturn
  /\ UNCHANGED <<use, calls, io, produced, accepted, done, called, stalled>>

---------------------------------------------------------------------------
(* The subclass: Readable.from() of an iterable, or the options write, final *)
(* and destroy                                                              *)

Hooks == {"_read", "_write", "_final", "_destroy"}

NextRead == <<CallC("push", r, IF produced = Total THEN Eof ELSE produced + 1)>>

Answer(x, err) ==
  CASE x.fn = "_read" -> IF err THEN <<CallE("destroy", r, TRUE)>>
                         ELSE Then(~rs[r].destroyed, NextRead)
    [] x.fn = "_write" -> <<CallE("onwrite", w, err)>>
    [] x.fn = "_final" -> <<CallE("finalDone", w, err)>>
    [] x.fn = "_destroy" -> <<CallE("closed", x.s, x.err \/ err)>>

Produce(x, err) ==
  produced' = IF x.fn = "_read" /\ ~err /\ ~rs[r].destroyed /\ produced < Total
              THEN produced + 1 ELSE produced

SubclassCalled ==
  /\ stack # <<>> /\ top.fn \in Hooks
  /\ \/ \E err \in BOOLEAN :
          /\ (IF err THEN "fail" ELSE "now") \in Answers
          /\ Continue(Answer(top, err))
          /\ Produce(top, err)
          /\ UNCHANGED <<io, stalled>>
     \/ /\ "later" \in Answers
        /\ io' = Append(io, top)
        /\ Continue(<<>>)
        /\ UNCHANGED <<produced, stalled>>
     \/ /\ "empty" \in Answers /\ top.fn = "_read" /\ use = "data"
        /\ Continue(<<CallC("push", r, Empty)>>)
        /\ stalled' = TRUE
        /\ UNCHANGED <<io, produced>>
  /\ UNCHANGED <<rs, ws, listeners, ticks, ret, emitted,
                 use, calls, got, it, accepted, done, called>>

\* A later answer: a task of its own, or a promise between two ticks.
SubclassAnswers(i) ==
  /\ stack = <<>>
  /\ io' = RemoveAt(io, i)
  /\ \E err \in BOOLEAN :
       /\ err => "fail" \in Answers
       /\ stack' = Answer(io[i], err)
       /\ Produce(io[i], err)
  /\ UNCHANGED <<rs, ws, listeners, ticks, ret, emitted,
                 use, calls, got, it, accepted, done, called, stalled>>

---------------------------------------------------------------------------

\* What the histories record of a step of the library.
Observe ==
  /\ got' = CASE Running("read") /\ rs[r].buffer # <<>> ->
                   Append(got, Head(rs[r].buffer))
              [] Running("unshift") -> Front(got)
              [] OTHER -> got
  /\ accepted' = IF Running("write") /\ ~ws[w].ended
                 THEN Append(accepted, top.c) ELSE accepted
  /\ done' = IF Running("onwrite")
             THEN Append(done, [c |-> ws[w].current.c, err |-> top.err])
             ELSE done

Library ==
  /\ \/ EmitStep \/ ReadableStep \/ ReaderCall \/ WritableStep \/ CorkStep
     \/ DestroyStep \/ RunTick
  /\ Observe
  /\ UNCHANGED <<use, calls, io, produced, it, called, stalled>>

\* The running task goes on; user code that is called returns in the end.
Proceed ==
  \/ Library \/ SubclassCalled \/ UserReturns \/ DataArrives \/ CallbackRuns
  \/ IteratorStep /\ UNCHANGED <<rs, ws, listeners, ticks, ret, emitted>>

Next ==
  \/ Proceed
  \/ UserCalls
  \/ \E i \in DOMAIN io : SubclassAnswers(i)

Spec == /\ Init /\ [][Next]_vars
        /\ WF_vars(Proceed)
        /\ WF_vars(\E i \in DOMAIN io : SubclassAnswers(i))

---------------------------------------------------------------------------
(* Properties *)

FirstChunks(n) == [i \in 1..n |-> i]
Chunks(items) == [i \in DOMAIN items |-> items[i].c]
Current == Then(Writing(w), <<ws[w].current>>)
WasWritten(c) == Contains(done, [c |-> c, err |-> FALSE])

\* The types of the stream's state and of the histories.
UserTypeOK ==
  /\ rs[r].buffer \in Seq(1..Total) /\ ws[w].length \in 0..MaxCalls
  /\ calls \in 0..MaxCalls /\ produced \in 0..Total
  /\ it.waiters \in 0..MaxCalls /\ it.answers \subseteq {"done", "failed"}
  /\ accepted \in Seq(1..MaxCalls) /\ Len(done) <= Len(accepted)

\* Between two tasks, what user code was given, what its iterator holds and
\* what the stream buffers are the chunks of the source, in order and once
\* each: through pauses, resumptions, listeners that come and go, unshift and
\* answers that come late.  The subclass is never asked for a chunk while it
\* still owes one.
ChunksConserved ==
  /\ UserTypeOK
  /\ use # "write" /\ stack = <<>> /\ ~rs[r].destroyed =>
       got \o it.queue \o rs[r].buffer = FirstChunks(produced)
  /\ \A i, j \in DOMAIN io : io[i].fn = "_read" /\ io[j].fn = "_read" => i = j

\* At 'end' every chunk of the source has been given out.  An iterator that
\* says it is done has given every chunk too, unless the stream was destroyed
\* without an error or the iterator was returned.
EndIsComplete ==
  /\ Contains(emitted[r], "end") => got \o it.queue = FirstChunks(Total)
  /\ "done" \in it.answers /\ ~it.returned =>
       \/ got = FirstChunks(Total)
       \/ rs[r].destroyed /\ ~rs[r].errored

\* While the stream lives, each accepted chunk is answered for, being written,
\* waiting or corked, in the order of the calls of write(), and length says
\* how many are not.
WritesKeepOrder ==
  ~ws[w].destroyed =>
    /\ accepted = Chunks(done \o Current \o ws[w].pending
                          \o ws[w].corkedBuffer)
    /\ ws[w].length = Len(accepted) - Len(done)

\* The callback of a write runs at most once, and says whether the chunk was
\* written; 'finish' comes after every accepted chunk was written and its
\* callback ran.
CallbacksAreTruthful ==
  /\ \A i \in DOMAIN called :
       /\ \A j \in DOMAIN called : called[i].c = called[j].c => i = j
       /\ called[i].err <=> ~WasWritten(called[i].c)
  /\ Contains(emitted[w], "finish") =>
       \A c \in ToSet(accepted) :
         WasWritten(c) /\ Contains(called, [c |-> c, err |-> FALSE])

\* A stream that is left flowing comes to its end or is destroyed, unless its
\* source pushed an empty chunk, after which nobody asks for the next; and a
\* pending next() is answered, unless the iterator is returned.
ReaderGoesOn ==
  /\ <>[](use = "data" /\ rs[r].flowing /\ ~stalled)
       => <>(rs[r].endEmitted \/ rs[r].destroyed)
  /\ it.waiters > 0 ~> it.waiters = 0 \/ it.returned

\* The callback of an accepted chunk runs, a write() that returned false is
\* followed by 'drain' and end() by 'finish', unless the stream stays corked
\* or, for the events, is destroyed.
WriterGoesOn ==
  /\ \A c \in 1..MaxCalls :
       Contains(accepted, c)
         ~> Contains(Chunks(called), c) \/ ws[w].corked > 0
  /\ ws[w].needDrain ~> ~ws[w].needDrain \/ ws[w].destroyed \/ ws[w].corked > 0
  /\ ws[w].ended ~> ws[w].finished \/ ws[w].destroyed \/ ws[w].corked > 0
=============================================================================
