------------------------------- MODULE JsXhr -------------------------------
(***************************************************************************)
(* XMLHttpRequest (jsruntime/xhr) over fetch() and AbortController         *)
(* (jsruntime/fetch): one object that user code opens, sends and aborts,   *)
(* between tasks and from the handlers of its events; answers, failures    *)
(* and timeouts arrive in any order.                                       *)
(*                                                                         *)
(* As in JsStream, stack holds the rest of the running task: the events to *)
(* dispatch and the assignments between them.  The requests of the object  *)
(* are numbered by send(); a response is the number of its request.        *)
(***************************************************************************)
EXTENDS Integers, Sequences, SequencesExt

CONSTANTS
  MaxSends,    \* bound: calls of send()
  MaxCalls,    \* bound: calls of open() and abort()
  Modes,       \* the values of async that open() is given
  Reentrant,   \* the events whose handlers call the object again
  Timeouts     \* the values of timeout: is it positive

ASSUME XhrAssumption ==
  /\ MaxSends \in Nat /\ MaxCalls \in Nat
  /\ Modes \subseteq BOOLEAN /\ Timeouts \subseteq BOOLEAN

VARIABLES
  x,         \* the slot of the object
  gen,       \* the generation each request was sent with
  net,       \* of each request: none, fetching, answered, over
  aborted,   \* the requests whose AbortController has aborted
  timers,    \* the requests whose timeout is running
  stack,     \* the rest of the running task
  sends,     \* how many calls of send() there were
  calls,     \* how many calls of open() and abort() there were
  outcome,   \* history: the final events dispatched for each request
  replaced   \* history: the requests that open() replaced

vars == <<x, gen, net, aborted, timers, stack, sends, calls, outcome, replaced>>

Requests == 1..MaxSends
UNSENT == 0
OPENED == 1
HEADERS_RECEIVED == 2
LOADING == 3
DONE == 4
Final == {"load", "error", "abort", "timeout", "loadend"}

Init ==
  /\ x = [readyState |-> UNSENT, async |-> TRUE, sendFlag |-> FALSE,
          controller |-> 0, timer |-> 0, generation |-> 0, response |-> 0]
  /\ gen = [i \in Requests |-> 0]
  /\ net = [i \in Requests |-> "none"]
  /\ aborted = {} /\ timers = {} /\ stack = <<>> /\ sends = 0 /\ calls = 0
  /\ outcome = [i \in Requests |-> <<>>]
  /\ replaced = {}

top == Head(stack)
Running(f) == stack # <<>> /\ top.fn = f
Step(f, i) == [fn |-> f, i |-> i]
\* opened, headers, loading, done and unsent are the readystatechange events.
Event(ev, i) == [fn |-> "dispatch", ev |-> ev, i |-> i]

\* Defect: the generation is not compared.
isSent(i) == x.sendFlag

isCurrent(i) == x.sendFlag /\ gen[i] = x.generation

\* Defects: the request is not cancelled; a controller is not asked for.
NotCancelled == aborted
CancelledBlindly == aborted \cup {x.controller}

\* The AbortController of the object aborts its signal; a second time is void.
Cancelled == IF x.controller = 0 THEN aborted ELSE aborted \cup {x.controller}
ClearTimeout == timers' = timers \ {x.timer}

---------------------------------------------------------------------------
(* The calls of user code *)

\* Between two tasks, or from a handler.
UserRuns == stack = <<>> \/ Running("user")

\* A handler of loadstart does not make the object synchronous: send() would
\* take the new value for its own.
Open(async) ==
  /\ UserRuns /\ calls < MaxCalls
  /\ async \/ \A k \in DOMAIN stack : stack[k].fn # "start"
  /\ calls' = calls + 1
  /\ aborted' = Cancelled
  /\ ClearTimeout
  /\ x' = [x EXCEPT !.generation = @ + 1, !.async = async, !.sendFlag = FALSE,
                    !.controller = 0, !.timer = 0, !.response = 0,
                    !.readyState = OPENED]
  /\ replaced' = IF x.sendFlag THEN replaced \cup {x.controller} ELSE replaced
  /\ stack' = <<Event("opened", 0)>> \o stack
  /\ UNCHANGED <<gen, net, sends, outcome>>

\* Up to the events loadstart of the object and all of upload.
Send ==
  /\ UserRuns /\ sends < MaxSends
  /\ x.readyState = OPENED /\ ~x.sendFlag
  /\ sends' = sends + 1
  /\ x' = [x EXCEPT !.sendFlag = TRUE, !.response = 0, !.controller = sends',
                    !.generation = @ + 1]
  /\ gen' = [gen EXCEPT ![sends'] = x'.generation]
  /\ stack' = <<Event("loadstart", sends'), Step("start", sends')>> \o stack
  /\ UNCHANGED <<net, aborted, timers, calls, outcome, replaced>>

\* The rest of send(), and fetch(): it rejects when the signal has aborted.
Start ==
  /\ Running("start")
  /\ LET i == top.i
     IN \/ /\ x.async
           /\ \E positive \in Timeouts :
                /\ timers' = IF positive THEN timers \cup {i} ELSE timers
                /\ x' = IF positive THEN [x EXCEPT !.timer = i] ELSE x
           /\ net' = [net EXCEPT ![i] = IF i \in aborted THEN "over"
                                        ELSE "fetching"]
           /\ stack' = Tail(stack)
        \/ /\ ~x.async
           /\ \E answer \in {<<Step("headers", i), Step("body", i)>>,
                             <<Step("networkError", i)>>} :
                stack' = answer \o Tail(stack)
           /\ net' = [net EXCEPT ![i] = "over"]
           /\ UNCHANGED <<x, timers>>
  /\ UNCHANGED <<gen, aborted, sends, calls, outcome, replaced>>

Abort ==
  /\ UserRuns /\ calls < MaxCalls
  /\ calls' = calls + 1
  /\ aborted' = Cancelled
  /\ ClearTimeout
  /\ x' = [x EXCEPT !.generation = @ + 1, !.sendFlag = FALSE, !.timer = 0,
                    !.response = 0, !.readyState = UNSENT]
  /\ LET i == x.controller
     IN stack' = (IF x.sendFlag
                  THEN <<Event("unsent", i), Event("abort", i),
                         Event("loadend", i)>>
                  ELSE <<>>) \o stack
  /\ UNCHANGED <<gen, net, sends, outcome, replaced>>

---------------------------------------------------------------------------
(* The parts of a task *)

\* A handler of a synchronous request does not call the object before DONE.
Handled(ev) ==
  ev \in Reentrant /\ (ev \in {"loadstart", "headers"} => x.async)

Dispatch ==
  /\ Running("dispatch")
  /\ outcome' = IF top.ev \in Final
                THEN [outcome EXCEPT ![top.i] = Append(@, top.ev)] ELSE outcome
  /\ stack' = (IF Handled(top.ev) THEN <<Step("user", top.i)>> ELSE <<>>)
              \o Tail(stack)
  /\ UNCHANGED <<x, gen, net, aborted, timers, sends, calls, replaced>>

HandlerReturns ==
  /\ Running("user")
  /\ stack' = Tail(stack)
  /\ UNCHANGED <<x, gen, net, aborted, timers, sends, calls, outcome, replaced>>

acceptHeaders ==
  /\ Running("headers")
  /\ x' = [x EXCEPT !.response = top.i, !.readyState = HEADERS_RECEIVED]
  /\ stack' = <<Event("headers", top.i)>> \o Tail(stack)
  /\ UNCHANGED <<gen, net, aborted, timers, sends, calls, outcome, replaced>>

\* acceptBody, up to the event progress and from there.
acceptBody ==
  /\ Running("body")
  /\ x' = [x EXCEPT !.readyState = LOADING]
  /\ stack' = <<Event("loading", top.i), Event("progress", top.i),
                Step("bodyDone", top.i)>> \o Tail(stack)
  /\ UNCHANGED <<gen, net, aborted, timers, sends, calls, outcome, replaced>>

acceptBodyDone ==
  /\ Running("bodyDone")
  /\ ClearTimeout
  /\ x' = [x EXCEPT !.sendFlag = FALSE, !.timer = 0, !.readyState = DONE]
  /\ stack' = <<Event("done", top.i), Event("load", top.i),
                Event("loadend", top.i)>> \o Tail(stack)
  /\ UNCHANGED <<gen, net, aborted, sends, calls, outcome, replaced>>

networkError ==
  /\ Running("networkError")
  /\ ClearTimeout
  /\ x' = [x EXCEPT !.sendFlag = FALSE, !.timer = 0, !.response = 0,
                    !.readyState = DONE]
  /\ stack' = <<Event("done", top.i), Event("error", top.i),
                Event("loadend", top.i)>> \o Tail(stack)
  /\ UNCHANGED <<gen, net, aborted, sends, calls, outcome, replaced>>

Proceed ==
  \/ Start \/ Dispatch \/ HandlerReturns
  \/ acceptHeaders \/ acceptBody \/ acceptBodyDone \/ networkError

---------------------------------------------------------------------------
(* What arrives: each a task of its own *)

\* The promise of fetch() resolves or rejects; an aborted fetch may still do
\* either.
FetchResolves(i) ==
  /\ stack = <<>> /\ net[i] = "fetching"
  /\ net' = [net EXCEPT ![i] = IF isCurrent(i) THEN "answered" ELSE "over"]
  /\ stack' = IF isCurrent(i) THEN <<Step("headers", i)>> ELSE <<>>
  /\ UNCHANGED <<x, gen, aborted, timers, sends, calls, outcome, replaced>>

\* Defect: a failure of the network is not reported.
RejectionIgnored(i) ==
  /\ stack = <<>> /\ net[i] = "fetching"
  /\ net' = [net EXCEPT ![i] = "over"]
  /\ UNCHANGED <<x, gen, aborted, timers, stack, sends, calls, outcome, replaced>>

FetchRejects(i) ==
  /\ stack = <<>> /\ net[i] = "fetching"
  /\ net' = [net EXCEPT ![i] = "over"]
  /\ stack' = IF isCurrent(i) THEN <<Step("networkError", i)>> ELSE <<>>
  /\ UNCHANGED <<x, gen, aborted, timers, sends, calls, outcome, replaced>>

\* The promise of arrayBuffer() resolves, after the handlers of the headers.
BodyArrives(i) ==
  /\ stack = <<>> /\ net[i] = "answered"
  /\ net' = [net EXCEPT ![i] = "over"]
  /\ stack' = IF isCurrent(i) THEN <<Step("body", i)>> ELSE <<>>
  /\ UNCHANGED <<x, gen, aborted, timers, sends, calls, outcome, replaced>>

handleTimeout(i) ==
  /\ stack = <<>> /\ i \in timers
  /\ \/ /\ ~isCurrent(i)
        /\ timers' = timers \ {i}
        /\ UNCHANGED <<x, aborted, stack>>
     \/ /\ isCurrent(i)
        /\ timers' = timers \ {i, x.timer}
        /\ aborted' = Cancelled
        /\ x' = [x EXCEPT !.generation = @ + 1, !.sendFlag = FALSE, !.timer = 0,
                          !.response = 0, !.readyState = DONE]
        /\ stack' = <<Event("done", i), Event("timeout", i), Event("loadend", i)>>
  /\ UNCHANGED <<gen, net, sends, calls, outcome, replaced>>

Answer(i) == FetchResolves(i) \/ FetchRejects(i) \/ BodyArrives(i)

Next ==
  \/ \E async \in Modes : Open(async)
  \/ Send \/ Abort
  \/ Proceed
  \/ \E i \in Requests : Answer(i) \/ handleTimeout(i)

\* The event loop runs what is due, and the network answers or fails.
Spec == /\ Init /\ [][Next]_vars
        /\ WF_vars(Proceed)
        /\ \A i \in Requests : WF_vars(Answer(i))

---------------------------------------------------------------------------
(* Properties *)

\* The types of the slot and of the requests.
XhrTypeOK ==
  /\ x.readyState \in UNSENT..DONE /\ x.generation \in Nat
  /\ {x.controller, x.timer, x.response} \subseteq 0..sends
  /\ net \in [Requests -> {"none", "fetching", "answered", "over"}]
  /\ aborted \subseteq 1..sends /\ timers \subseteq 1..sends

\* A request has one outcome (load, error, abort or timeout) and loadend after
\* it, and none at all when open() replaced it: a late answer, a timeout that
\* races it and an abort never add a second.
OneOutcome ==
  /\ XhrTypeOK
  /\ \A i \in Requests :
       /\ i \in replaced => outcome[i] = <<>>
       /\ Len(outcome[i]) <= 2
       /\ outcome[i] # <<>> => outcome[i][1] # "loadend"
       /\ Len(outcome[i]) = 2 => outcome[i][2] = "loadend"

\* The response an object shows is that of its last request, never a late
\* answer to an earlier one; and a request that nobody waits for any more has
\* been cancelled.
ResponseIsOfLastRequest ==
  /\ x.response # 0 => x.response = x.controller
  /\ \A i \in Requests :
       net[i] = "fetching" => (x.sendFlag /\ x.controller = i) \/ i \in aborted

\* Every request comes to loadend, unless open() replaces it.
SendSettles ==
  \A i \in Requests :
    sends >= i ~> i \in replaced \/ Contains(outcome[i], "loadend")
=============================================================================
