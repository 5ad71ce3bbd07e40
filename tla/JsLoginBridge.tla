--------------------------- MODULE JsLoginBridge ---------------------------
(***************************************************************************)
(* The bridge for public themes that still POST /api/login                 *)
(* (web/public/native_login_bridge.js): it sends the password to the       *)
(* native ceremony instead, leaves the document when the server accepts    *)
(* it, and hides that answer from the theme, which would take it for a     *)
(* full session.  Themes use fetch() or XMLHttpRequest.  Both are the      *)
(* browser's here: external, as the bridge uses them.                      *)
(***************************************************************************)
EXTENDS Integers, Sequences, SequencesExt

CONSTANTS
  Objects,      \* the XMLHttpRequest objects of the theme
  Fetches,      \* its calls of fetch("/api/login")
  MaxOpens      \* bound: calls of open() on each object

ASSUME BridgeAssumption == MaxOpens \in Nat

VARIABLES
  xhr,     \* the objects
  fetch,   \* the promises of fetch(): none, sent, error, aborted, forever
  nav,     \* where window.location was assigned to, in order, and by whom
  granted, \* history: the attempts to log in that the server accepted
  seen     \* what the theme's listeners were shown of the last event

vars == <<xhr, fetch, nav, granted, seen>>

\* What the server answers: a session, second factors, an empty list of them,
\* a body that is not JSON, a refusal, a refusal that is not JSON, nothing.
Answers == {"session", "factors", "nofactors", "garbled", "refused",
            "badgateway", "network"}
StatusOf(answer) == CASE answer = "refused" -> 401
                      [] answer = "badgateway" -> 502
                      [] answer = "network" -> 0
                      [] OTHER -> 200
Parses(answer) == answer \notin {"garbled", "badgateway", "network"}
Success(status) == status >= 200 /\ status < 300

\* responseType: text, which is the default, json, or one without responseText.
Types == {"text", "json", "blob"}

\* finish(): where it navigates to; it throws without a second factor.
Target == [session |-> "/admin/dashboard", factors |-> "/login/verify"]
Finishes(answer) == answer \in DOMAIN Target

\* An attempt is a request of an object, the n-th since it was created, or a
\* call of fetch().
Attempt(o, n) == <<o, n>>
FetchAttempt(f) == <<f, 0>>

\* What the server grants the attempt with this answer.
Grants(by, answer) == {[by |-> by, what |-> a] : a \in {answer} \cap {"session", "factors"}}

\* The listeners of an object are the theme's, and the bridge's of each open()
\* that it took over, named by its number.
Theme == 0

NewObject == [phase |-> "unsent", opens |-> 0, login |-> FALSE,
              handled |-> FALSE, navigating |-> FALSE, overridden |-> FALSE,
              type |-> "text", answer |-> "network", events |-> <<>>,
              listeners |-> <<>>]

\* The theme may listen to an object before it calls open().
Init ==
  /\ xhr \in [Objects -> {[NewObject EXCEPT !.listeners = early] :
                            early \in {<<>>, <<Theme>>}}]
  /\ fetch = [f \in Fetches |-> "none"]
  /\ nav = <<>>
  /\ granted = {}
  /\ seen = {}

---------------------------------------------------------------------------
(* XMLHttpRequest *)

\* What the bridge knows of the object's last request is forgotten.
Forgotten(st) == [st EXCEPT !.handled = FALSE, !.navigating = FALSE,
                            !.overridden = FALSE]

\* The overridden open(): it forgets the last request, which the browser
\* terminates, and, for a login, adds its listeners to those that are there.
\* The theme adds its own, or relies on those it added for an earlier request.
\* Called from a handler of the theme, it leaves the rest of the events of the
\* last request to be dispatched, or not, as the browser has it.
Open(o, login, again) ==
  LET old == xhr[o]
      n == old.opens + 1
  IN /\ n <= MaxOpens
     /\ again \/ Contains(old.listeners, Theme)
     /\ \E left \in {<<>>, old.events} :
          xhr' = [xhr EXCEPT ![o] =
            [Forgotten(old) EXCEPT !.phase = "opened", !.opens = n,
               !.login = login, !.type = "text", !.answer = "network",
               !.events = left,
               !.listeners = @ \o (IF login THEN <<n>> ELSE <<>>)
                               \o (IF again THEN <<Theme>> ELSE <<>>)]]
     /\ UNCHANGED <<fetch, nav, granted, seen>>

\* The overridden send(); without credentials it throws and nothing is sent.
\* responseType has been set by then.
Send(o, type) ==
  /\ xhr[o].phase = "opened"
  /\ xhr' = [xhr EXCEPT ![o].phase = "sent", ![o].type = type]
  /\ UNCHANGED <<fetch, nav, granted, seen>>

\* The status line and the headers have come: readyState is 2.
Headers(o, answer) ==
  /\ xhr[o].phase = "sent" /\ xhr[o].events = <<>>
  /\ answer # "network"
  /\ xhr' = [xhr EXCEPT ![o].phase = "headers", ![o].answer = answer,
                        ![o].events = <<"readystatechange">>]
  /\ UNCHANGED <<fetch, nav, granted, seen>>

\* Some of the body has come: readyState is 3.
Load(o) ==
  /\ xhr[o].phase = "headers" /\ xhr[o].events = <<>>
  /\ xhr' = [xhr EXCEPT ![o].phase = "loading",
                        ![o].events = <<"readystatechange", "progress">>]
  /\ UNCHANGED <<fetch, nav, granted, seen>>

\* The request is over: readyState is 4.
Over(o, answer, events) ==
  /\ xhr' = [xhr EXCEPT ![o].phase = "done", ![o].answer = answer,
                        ![o].events = events]
  /\ granted' = IF ~xhr[o].login THEN granted
                ELSE granted \cup Grants(Attempt(o, xhr[o].opens), answer)
  /\ UNCHANGED <<fetch, nav, seen>>

Finish(o) ==
  /\ xhr[o].phase \in {"headers", "loading"} /\ xhr[o].events = <<>>
  /\ Over(o, xhr[o].answer, <<"readystatechange", "load", "loadend">>)

\* A network error, abort() of the theme or a timeout.
Fail(o) ==
  /\ xhr[o].phase \in {"sent", "headers", "loading"} /\ xhr[o].events = <<>>
  /\ Over(o, "network", <<"readystatechange", "error", "loadend">>)

\* What the object's status reads.
Status(st) == IF st.overridden THEN 409
              ELSE IF st.phase \in {"headers", "loading", "done"}
                   THEN StatusOf(st.answer) ELSE 0

BridgeEvents == {"readystatechange", "load", "loadend"}

\* Defect: the listener of an earlier login acts on a later request too.
AnyRequest(st, n) == TRUE

\* requests.get(this) === state
Current(st, n) == st.login /\ n = st.opens

\* Where the bridge's listener of this request stands among the listeners.
Own(st) == {k \in DOMAIN st.listeners :
              st.listeners[k] # Theme /\ Current(st, st.listeners[k])}

\* A listener of the bridge returns unless the request is its own and is over.
Acts(st, event) == event \in BridgeEvents /\ st.phase = "done" /\ Own(st) # {}

Accepted(st) == /\ Success(StatusOf(st.answer)) /\ Finishes(st.answer)
                /\ st.type # "blob"

\* Defect: a body that says nothing is left as it is.
HandleAsIs(st) == [st EXCEPT !.handled = TRUE, !.navigating = Accepted(st)]

\* The listener of the bridge, the first time it acts on a request.  A body
\* that is read as json and is none is null, and only a success looks into it.
Handle(st) ==
  LET throws == \/ st.type = "blob"
                \/ st.type = "text" /\ ~Parses(st.answer)
                \/ Success(StatusOf(st.answer)) /\ ~Finishes(st.answer)
  IN [st EXCEPT !.handled = TRUE, !.navigating = Accepted(st),
                !.overridden = throws]

After(st, event) == IF Acts(st, event) /\ ~st.handled THEN Handle(st) ELSE st

\* One event: the listeners in order, until the bridge stops the event.
Dispatch(o) ==
  LET st == xhr[o]
      event == Head(st.events)
      after == After(st, event)
      Earlier(k) == \E b \in Own(st) : k < b
      told == {k \in DOMAIN st.listeners :
                 /\ st.listeners[k] = Theme
                 /\ Acts(st, event) /\ after.navigating => Earlier(k)}
      by == Attempt(o, st.opens)
  IN /\ st.events # <<>>
     /\ xhr' = [xhr EXCEPT ![o] = [after EXCEPT !.events = Tail(@)]]
     /\ nav' = IF after.navigating /\ ~st.navigating
               THEN Append(nav, [to |-> Target[st.answer], by |-> by]) ELSE nav
     /\ seen' =
          {[by |-> by, login |-> st.login, finished |-> st.phase = "done",
            earlier |-> Earlier(k), sent |-> StatusOf(st.answer),
            status |-> Status(IF Earlier(k) THEN st ELSE after)] : k \in told}
     /\ UNCHANGED <<fetch, granted>>

---------------------------------------------------------------------------
(* fetch *)

FetchLogin(f) ==
  /\ fetch[f] = "none"
  /\ fetch' = [fetch EXCEPT ![f] = "sent"]
  /\ UNCHANGED <<xhr, nav, granted, seen>>

\* Defect: a failure is kept back like a success.
FetchKeepsBack(f, answer) ==
  /\ fetch[f] = "sent"
  /\ LET finishes == Success(StatusOf(answer)) /\ Finishes(answer)
     IN nav' = IF finishes
               THEN Append(nav, [to |-> Target[answer], by |-> FetchAttempt(f)]) ELSE nav
  /\ fetch' = [fetch EXCEPT ![f] = "forever"]
  /\ granted' = granted \cup Grants(FetchAttempt(f), answer)
  /\ UNCHANGED <<xhr, seen>>

\* After a success the promise never settles; whatever throws becomes a
\* failure, but for an abort.
FetchAnswered(f, answer) ==
  /\ fetch[f] = "sent"
  /\ LET finishes == Success(StatusOf(answer)) /\ Finishes(answer)
     IN /\ fetch' = [fetch EXCEPT ![f] = IF finishes THEN "forever" ELSE "error"]
        /\ nav' = IF finishes
                  THEN Append(nav, [to |-> Target[answer], by |-> FetchAttempt(f)]) ELSE nav
  /\ granted' = granted \cup Grants(FetchAttempt(f), answer)
  /\ UNCHANGED <<xhr, seen>>

FetchAborted(f) ==
  /\ fetch[f] = "sent"
  /\ fetch' = [fetch EXCEPT ![f] = "aborted"]
  /\ UNCHANGED <<xhr, nav, granted, seen>>

---------------------------------------------------------------------------

Network(o) ==
  (\E answer \in Answers : Headers(o, answer)) \/ Load(o) \/ Finish(o) \/ Fail(o)

Next ==
  \/ \E o \in Objects :
       \/ \E login, again \in BOOLEAN : Open(o, login, again)
       \/ \E type \in Types : Send(o, type)
       \/ Network(o)
       \/ Dispatch(o)
  \/ \E f \in Fetches :
       \/ FetchLogin(f)
       \/ \E answer \in Answers : FetchAnswered(f, answer)
       \/ FetchAborted(f)

\* The browser dispatches the events of an answer; the server answers or the
\* request fails.
Spec ==
  /\ Init /\ [][Next]_vars
  /\ \A o \in Objects : WF_vars(Network(o)) /\ WF_vars(Dispatch(o))
  /\ \A f \in Fetches : WF_vars(\E answer \in Answers : FetchAnswered(f, answer))

---------------------------------------------------------------------------
(* Properties *)

\* An attempt to log in leaves the document only for where the server's answer
\* to this attempt allows, the dashboard with a session, the second factor
\* with one, and only once: whatever other attempts, of the same object or of
\* others, are answered before, between or after.
NavigationIsEarned ==
  /\ \A k \in DOMAIN nav : \E g \in granted :
       /\ g.by = nav[k].by
       /\ nav[k].to = "/admin/dashboard" => g.what = "session"
       /\ nav[k].to = "/login/verify" => g.what = "factors"
  /\ \A j, k \in DOMAIN nav : nav[j].by = nav[k].by => j = k

\* Once an attempt to log in is over (readyState 4), no listener that the
\* theme added after the attempt's open() reads a status of success, before
\* the document is left or after: neither of a preauthentication nor of a body
\* that does not say what it is.  Nothing is hidden of the request while it is
\* under way: readystatechange 2 and 3 and progress show the server's status.
\* Nor from a listener that stands before the bridge's, because the theme
\* added it before open() or for an earlier request of the same object.
SuccessIsHidden ==
  \A s \in seen :
    s.login /\ s.finished /\ ~s.earlier => ~Success(s.status)

\* What the bridge made of a failed attempt does not outlive it: a later
\* request of the same object shows the status that was sent for it, and so
\* does a later attempt to log in until it is over.
OverrideEndsWithRequest ==
  \A s \in seen : ~s.login \/ ~s.finished => s.status = s.sent

\* Every attempt ends: the document is left for it, the theme is told that it
\* is over, or the theme opens the object for another request.
AttemptEnds ==
  /\ \A o \in Objects, n \in 1..MaxOpens :
       xhr[o].phase = "sent" /\ xhr[o].opens = n /\ xhr[o].login
         ~> \/ \E k \in DOMAIN nav : nav[k].by = Attempt(o, n)
            \/ \E s \in seen : s.by = Attempt(o, n) /\ s.finished
            \/ xhr[o].opens # n
  /\ \A f \in Fetches :
       fetch[f] = "sent"
         ~> \/ \E k \in DOMAIN nav : nav[k].by = FetchAttempt(f)
            \/ fetch[f] \in {"error", "aborted"}
=============================================================================
