---------------------------- MODULE JsXhrProofs ----------------------------
(***************************************************************************)
(* Theorems about JsXhr for every number of requests and of calls, every   *)
(* choice of modes and timeouts, and every set of handlers that leaves the *)
(* object alone while a body is accepted.                                  *)
(***************************************************************************)
EXTENDS JsXhr, SequenceTheorems, TLAPS

\* acceptBody does not look at the request again after it has dispatched the
\* events of LOADING: the handlers of these must not call the object.
QuietBody == "loading" \notin Reentrant /\ "progress" \notin Reentrant

-----------------------------------------------------------------------------
(* The inductive invariant. *)

Outcomes == {"load", "error", "abort", "timeout"}
Pieces == {"headers", "body", "bodyDone", "networkError"}
Events == Final \cup {"opened", "unsent", "loadstart", "headers", "loading",
                      "progress", "done"}
Frame == [fn: {"start", "user"} \cup Pieces, i: 0..MaxSends]
         \cup [fn: {"dispatch"}, ev: Events, i: 0..MaxSends]

\* The types, those of the slot's fields included.
Types ==
  /\ x \in [readyState: UNSENT..DONE, async: BOOLEAN, sendFlag: BOOLEAN,
            controller: 0..sends, timer: 0..sends, generation: Nat,
            response: 0..sends]
  /\ sends \in 0..MaxSends
  /\ gen \in [Requests -> Nat]
  /\ net \in [Requests -> {"none", "fetching", "answered", "over"}]
  /\ aborted \subseteq 1..sends /\ timers \subseteq 1..sends
  /\ stack \in Seq(Frame)
  /\ outcome \in [Requests -> Seq(Final)]
  /\ replaced \subseteq 1..sends
  /\ \A i \in Requests : net[i] # "none" => i <= sends

\* The request the object waits for.
Live(i) == x.sendFlag /\ x.controller = i

\* Each request was sent with a generation of its own, and the object waits
\* for the last one only.
Generations ==
  /\ \A i, j \in 1..sends : i < j => gen[i] < gen[j]
  /\ \A i \in 1..sends : gen[i] <= x.generation
  /\ x.sendFlag => /\ sends > 0 /\ x.controller = sends
                   /\ gen[sends] = x.generation

\* The final events of request i that the running task has yet to dispatch.
FinalFor(f, i) == f.fn = "dispatch" /\ f.ev \in Final /\ f.i = i
IsFinal(k, i) == FinalFor(stack[k], i)

\* Nothing final was, or will be, dispatched for request i by this task.
Idle(i) == outcome[i] = <<>> /\ \A k \in DOMAIN stack : ~IsFinal(k, i)

\* An outcome of request i and its loadend are dispatched one after the other.
Paired(i) ==
  /\ \/ outcome[i] = <<>>
     \/ \E o \in Outcomes : outcome[i] = <<o>>
     \/ \E o \in Outcomes : outcome[i] = <<o, "loadend">>
  /\ \A k \in DOMAIN stack : IsFinal(k, i) =>
       IF stack[k].ev = "loadend"
         THEN /\ Len(outcome[i]) <= 1
              /\ outcome[i] = <<>> =>
                   k > 1 /\ IsFinal(k - 1, i) /\ stack[k - 1].ev # "loadend"
         ELSE /\ outcome[i] = <<>>
              /\ k + 1 \in DOMAIN stack
              /\ IsFinal(k + 1, i) /\ stack[k + 1].ev = "loadend"
  /\ \A k, l \in DOMAIN stack :
       /\ IsFinal(k, i) /\ stack[k].ev = "loadend"
       /\ IsFinal(l, i) /\ stack[l].ev = "loadend"
       => k = l

\* A request that nobody waits for any more has been settled once, or not at
\* all because open() replaced it.
Settled(i) ==
  /\ Paired(i)
  /\ Live(i) \/ i \in replaced \/ i > sends => Idle(i)
  /\ Live(i) => i \notin replaced

Settlement ==
  /\ \A i \in Requests : Settled(i)
  /\ \A k \in DOMAIN stack :
       stack[k].fn = "dispatch" /\ stack[k].ev \in Final => stack[k].i \in 1..sends

\* Frame f does not run a handler that calls the object.
Quiet(f, async) ==
  \/ f.fn = "headers" /\ ~async
  \/ /\ f.fn = "dispatch"
     /\ ~(f.ev \in Reentrant /\ (f.ev \in {"loadstart", "headers"} => async))

\* A part of send() or of an answer runs for the request that the object waits
\* for, and nothing that is still above it on the stack calls the object.
Work ==
  \A k \in DOMAIN stack : stack[k].fn \in Pieces =>
    /\ Live(stack[k].i)
    /\ net[stack[k].i] # "fetching"
    /\ \A l \in DOMAIN stack : stack[l].fn = "start" => stack[l].i # stack[k].i
    /\ \A l \in 1..(k - 1) : Quiet(stack[l], x.async)

\* A request that send() has yet to start is waited for or cancelled; when it
\* is synchronous, no handler has run since send() was called.
Starts ==
  \A k \in DOMAIN stack : stack[k].fn = "start" =>
    /\ stack[k].i \in 1..sends
    /\ Live(stack[k].i) \/ stack[k].i \in aborted
    /\ x.async \/ /\ Live(stack[k].i)
                  /\ \A l \in 1..(k - 1) : /\ stack[l].fn = "dispatch"
                                           /\ stack[l].ev = "loadstart"

Inv ==
  /\ Types /\ Generations /\ Settlement /\ Work /\ Starts
  /\ ResponseIsOfLastRequest

-----------------------------------------------------------------------------
(* The stack. *)

\* The frames P replace the first d frames.
Shifted(P, d) ==
  /\ stack \in Seq(Frame) /\ stack' \in Seq(Frame) /\ P \in Seq(Frame)
  /\ d \in 0..1 /\ d <= Len(stack)
  /\ Len(stack') = Len(P) + Len(stack) - d
  /\ \A k \in 1..Len(P) : stack'[k] = P[k]
  /\ \A k \in (d + 1)..Len(stack) : stack'[k + Len(P) - d] = stack[k]

LEMMA Pushed ==
  ASSUME stack \in Seq(Frame), NEW P \in Seq(Frame), stack' = P \o stack
  PROVE  Shifted(P, 0)
BY DEF Shifted

LEMMA Replaced ==
  ASSUME stack \in Seq(Frame), stack # <<>>, NEW P \in Seq(Frame),
         stack' = P \o Tail(stack)
  PROVE  Shifted(P, 1)
<1>1. /\ Tail(stack) \in Seq(Frame) /\ Len(Tail(stack)) = Len(stack) - 1
      /\ \A k \in 1..(Len(stack) - 1) : Tail(stack)[k] = stack[k + 1]
      /\ Len(stack) \in Nat \ {0}
  OBVIOUS
<1>2. PICK t : t = Tail(stack)
  OBVIOUS
<1>3. /\ t \in Seq(Frame) /\ Len(t) = Len(stack) - 1
      /\ \A k \in 1..(Len(stack) - 1) : t[k] = stack[k + 1]
      /\ stack' = P \o t
  BY <1>1, <1>2
<1>4. /\ Len(stack') = Len(P) + Len(t)
      /\ \A k \in 1..Len(P) : stack'[k] = P[k]
      /\ \A k \in 1..Len(t) : stack'[k + Len(P)] = t[k]
      /\ Len(P) \in Nat /\ stack' \in Seq(Frame)
  BY <1>3
<1>5. ASSUME NEW k \in 2..Len(stack) PROVE stack'[k + Len(P) - 1] = stack[k]
  <2>1. k - 1 \in 1..Len(t)
    BY <1>1, <1>3
  <2>2. stack'[(k - 1) + Len(P)] = t[k - 1] /\ t[k - 1] = stack[(k - 1) + 1]
    BY <1>1, <1>3, <1>4, <2>1
  <2>3. (k - 1) + Len(P) = k + Len(P) - 1 /\ (k - 1) + 1 = k
    BY <1>1, <1>4
  <2> QED BY <2>2, <2>3
<1> QED BY <1>1, <1>3, <1>4, <1>5 DEF Shifted

\* Where a frame of the new stack comes from.
LEMMA Origin ==
  ASSUME NEW P, NEW d, Shifted(P, d), NEW k \in DOMAIN stack'
  PROVE  \/ k \in 1..Len(P) /\ stack'[k] = P[k]
         \/ \E m \in (d + 1)..Len(stack) :
              m \in DOMAIN stack /\ k = m + Len(P) - d /\ stack'[k] = stack[m]
<1>1. /\ Len(stack) \in Nat /\ Len(P) \in Nat /\ Len(stack') \in Nat /\ d \in 0..1
      /\ DOMAIN stack = 1..Len(stack) /\ DOMAIN stack' = 1..Len(stack')
  BY DEF Shifted
<1>2. CASE k <= Len(P)
  BY <1>1, <1>2 DEF Shifted
<1>3. CASE k > Len(P)
  <2> DEFINE m == k - Len(P) + d
  <2>1. m \in (d + 1)..Len(stack) /\ k = m + Len(P) - d
    BY <1>1, <1>3, SMTT(30) DEF Shifted
  <2>2. stack'[m + Len(P) - d] = stack[m]
    <3> HIDE DEF m
    <3> QED BY <2>1 DEF Shifted
  <2> QED BY <1>1, <2>1, <2>2
<1> QED BY <1>1, <1>2, <1>3

-----------------------------------------------------------------------------
(* The outcomes of a request. *)

\* No frame that comes or goes is a final event of request i.
Apart(P, d, i) ==
  /\ \A k \in 1..Len(P) : ~FinalFor(P[k], i)
  /\ d = 1 => ~FinalFor(stack[1], i)

LEMMA FinalOrigin ==
  ASSUME NEW P, NEW d, Shifted(P, d), NEW i, Apart(P, d, i),
         NEW k \in DOMAIN stack', IsFinal(k, i)'
  PROVE  \E m \in DOMAIN stack :
           /\ m > d /\ k = m + Len(P) - d
           /\ IsFinal(m, i) /\ stack'[k] = stack[m]
<1>1. /\ Len(stack) \in Nat /\ d \in 0..1
      /\ DOMAIN stack = 1..Len(stack)
  BY DEF Shifted
<1>2. FinalFor(stack'[k], i)
  BY DEF IsFinal
<1>3. PICK m \in (d + 1)..Len(stack) :
        m \in DOMAIN stack /\ k = m + Len(P) - d /\ stack'[k] = stack[m]
  BY <1>2, Origin DEF Apart
<1> QED BY <1>1, <1>2, <1>3 DEF IsFinal

LEMMA IdleKept ==
  ASSUME NEW P, NEW d, Shifted(P, d), NEW i, Apart(P, d, i),
         outcome'[i] = outcome[i], Idle(i)
  PROVE  Idle(i)'
BY FinalOrigin DEF Idle

LEMMA PairedKept ==
  ASSUME NEW P, NEW d, Shifted(P, d), NEW i, Apart(P, d, i),
         outcome'[i] = outcome[i], Paired(i)
  PROVE  Paired(i)'
<1>types. /\ Len(stack) \in Nat /\ Len(P) \in Nat /\ Len(stack') \in Nat /\ d \in 0..1
          /\ DOMAIN stack = 1..Len(stack) /\ DOMAIN stack' = 1..Len(stack')
          /\ Len(stack') = Len(P) + Len(stack) - d /\ d <= Len(stack)
  BY DEF Shifted
<1>old. ASSUME NEW m \in DOMAIN stack, IsFinal(m, i)
        PROVE  /\ m > d /\ m + Len(P) - d \in DOMAIN stack'
               /\ stack'[m + Len(P) - d] = stack[m]
               /\ IsFinal(m + Len(P) - d, i)'
  <2>1. m > d
    BY <1>types, <1>old DEF Apart, IsFinal
  <2>2. m \in (d + 1)..Len(stack) /\ m + Len(P) - d \in DOMAIN stack'
    BY <2>1, <1>types
  <2>3. stack'[m + Len(P) - d] = stack[m]
    BY <2>2 DEF Shifted
  <2> QED BY <1>old, <2>1, <2>2, <2>3 DEF IsFinal
<1>1. ASSUME NEW k \in DOMAIN stack', IsFinal(k, i)'
      PROVE  IF stack'[k].ev = "loadend"
               THEN /\ Len(outcome'[i]) <= 1
                    /\ outcome'[i] = <<>> =>
                         k > 1 /\ IsFinal(k - 1, i)' /\ stack'[k - 1].ev # "loadend"
               ELSE /\ outcome'[i] = <<>>
                    /\ k + 1 \in DOMAIN stack'
                    /\ IsFinal(k + 1, i)' /\ stack'[k + 1].ev = "loadend"
  <2>1. PICK m \in DOMAIN stack : /\ m > d /\ k = m + Len(P) - d
                                  /\ IsFinal(m, i) /\ stack'[k] = stack[m]
    BY <1>1, FinalOrigin
  <2>2. CASE stack[m].ev = "loadend"
    <3>1. Len(outcome[i]) <= 1
      BY <2>1, <2>2 DEF Paired
    <3>2. ASSUME outcome[i] = <<>>
          PROVE  k > 1 /\ IsFinal(k - 1, i)' /\ stack'[k - 1].ev # "loadend"
      <4>1. m > 1 /\ IsFinal(m - 1, i) /\ stack[m - 1].ev # "loadend"
        BY <2>1, <2>2, <3>2 DEF Paired
      <4>2. m - 1 \in DOMAIN stack
        BY <4>1, <1>types
      <4>3. PICK n : n = m - 1
        OBVIOUS
      <4>4. n > d /\ stack'[n + Len(P) - d] = stack[n] /\ IsFinal(n + Len(P) - d, i)'
        BY <1>old, <4>1, <4>2, <4>3
      <4>5. n + Len(P) - d = k - 1 /\ k > 1
        BY <2>1, <4>2, <4>3, <4>4, <1>types, SMTT(30)
      <4> QED BY <4>1, <4>3, <4>4, <4>5
    <3> QED BY <2>1, <2>2, <3>1, <3>2
  <2>3. CASE stack[m].ev # "loadend"
    <3>1. /\ outcome[i] = <<>> /\ m + 1 \in DOMAIN stack
          /\ IsFinal(m + 1, i) /\ stack[m + 1].ev = "loadend"
      BY <2>1, <2>3 DEF Paired
    <3>2. PICK n : n = m + 1
      OBVIOUS
    <3>3. /\ n + Len(P) - d \in DOMAIN stack'
          /\ stack'[n + Len(P) - d] = stack[n] /\ IsFinal(n + Len(P) - d, i)'
      BY <1>old, <3>1, <3>2
    <3>4. n + Len(P) - d = k + 1
      BY <2>1, <3>2, <1>types
    <3> QED BY <2>1, <2>3, <3>1, <3>2, <3>3, <3>4
  <2> QED BY <2>2, <2>3
<1>2. ASSUME NEW k \in DOMAIN stack', NEW l \in DOMAIN stack',
             IsFinal(k, i)', stack'[k].ev = "loadend",
             IsFinal(l, i)', stack'[l].ev = "loadend"
      PROVE  k = l
  <2>1. PICK m \in DOMAIN stack : /\ m > d /\ k = m + Len(P) - d
                                  /\ IsFinal(m, i) /\ stack'[k] = stack[m]
    BY <1>2, FinalOrigin
  <2>2. PICK n \in DOMAIN stack : /\ n > d /\ l = n + Len(P) - d
                                  /\ IsFinal(n, i) /\ stack'[l] = stack[n]
    BY <1>2, FinalOrigin
  <2>3. m = n
    BY <1>2, <2>1, <2>2 DEF Paired
  <2> QED BY <2>1, <2>2, <2>3
<1>3. \/ outcome'[i] = <<>>
      \/ \E o \in Outcomes : outcome'[i] = <<o>>
      \/ \E o \in Outcomes : outcome'[i] = <<o, "loadend">>
  BY DEF Paired
<1> QED BY <1>1, <1>2, <1>3 DEF Paired

\* A step that leaves the final events of request i alone, and makes it
\* neither awaited nor replaced.
LEMMA SettledKept ==
  ASSUME NEW P, NEW d, Shifted(P, d), NEW i, Apart(P, d, i), Settled(i),
         outcome'[i] = outcome[i],
         (Live(i) \/ i \in replaced \/ i > sends)'
           => Live(i) \/ i \in replaced \/ i > sends,
         Live(i)' => i \notin replaced'
  PROVE  Settled(i)'
<1>1. Paired(i)'
  BY PairedKept DEF Settled
<1>2. (Live(i) \/ i \in replaced \/ i > sends)' => Idle(i)'
  BY IdleKept DEF Settled
<1> QED BY <1>1, <1>2 DEF Settled

\* The awaited request gets its outcome, and is not awaited any more.
LEMMA SettledFinished ==
  ASSUME NEW i, NEW e, e \notin Final, NEW o \in Outcomes, NEW d,
         Shifted(<<Event(e, i), Event(o, i), Event("loadend", i)>>, d),
         Settled(i), Live(i), outcome'[i] = outcome[i],
         ~(Live(i) \/ i \in replaced \/ i > sends)'
  PROVE  Settled(i)'
<1> DEFINE P == <<Event(e, i), Event(o, i), Event("loadend", i)>>
<1>1. Idle(i)
  BY DEF Settled
<1>2. /\ Len(P) = 3 /\ P[1] = Event(e, i) /\ P[2] = Event(o, i)
      /\ P[3] = Event("loadend", i)
  OBVIOUS
<1> HIDE DEF P
<1>s. Shifted(P, d)
  BY DEF P
<1>3. /\ ~FinalFor(P[1], i)
      /\ FinalFor(P[2], i) /\ P[2].ev # "loadend"
      /\ FinalFor(P[3], i) /\ P[3].ev = "loadend"
  BY <1>2 DEF FinalFor, Event, Final, Outcomes
<1>4. /\ DOMAIN stack' = 1..Len(stack') /\ Len(stack') \in Nat /\ Len(stack') >= 3
      /\ \A k \in 1..3 : stack'[k] = P[k]
  BY <1>s, <1>2 DEF Shifted
<1>5. ASSUME NEW k \in DOMAIN stack', IsFinal(k, i)' PROVE k \in {2, 3}
  <2>1. FinalFor(stack'[k], i)
    BY <1>5 DEF IsFinal
  <2>2. \A m \in DOMAIN stack : stack'[k] # stack[m]
    BY <1>1, <2>1 DEF Idle, IsFinal
  <2>3. k \in 1..3 /\ stack'[k] = P[k]
    BY <1>s, <1>2, <2>2, Origin
  <2> QED BY <2>1, <2>3, <1>3
<1>6. /\ 2 \in DOMAIN stack' /\ 3 \in DOMAIN stack'
      /\ IsFinal(2, i)' /\ stack'[2].ev # "loadend"
      /\ IsFinal(3, i)' /\ stack'[3].ev = "loadend"
  BY <1>3, <1>4 DEF IsFinal
<1>7. outcome'[i] = <<>> /\ Len(outcome'[i]) = 0
  BY <1>1 DEF Idle
<1>8. Paired(i)'
  <2>1. ASSUME NEW k \in DOMAIN stack', IsFinal(k, i)'
        PROVE  IF stack'[k].ev = "loadend"
                 THEN /\ Len(outcome'[i]) <= 1
                      /\ outcome'[i] = <<>> =>
                           k > 1 /\ IsFinal(k - 1, i)' /\ stack'[k - 1].ev # "loadend"
                 ELSE /\ outcome'[i] = <<>>
                      /\ k + 1 \in DOMAIN stack'
                      /\ IsFinal(k + 1, i)' /\ stack'[k + 1].ev = "loadend"
    <3>1. CASE k = 2
      BY <3>1, <1>6, <1>7
    <3>2. CASE k = 3
      BY <3>2, <1>6, <1>7
    <3> QED BY <2>1, <1>5, <3>1, <3>2
  <2>2. ASSUME NEW k \in DOMAIN stack', IsFinal(k, i)', stack'[k].ev = "loadend"
        PROVE  k = 3
    BY <2>2, <1>5, <1>6
  <2> QED BY <1>7, <2>1, <2>2 DEF Paired
<1> QED BY <1>8 DEF Settled

\* Event ev was added to the sequence a of at most one event.
Appended(a, b, ev) ==
  /\ a = <<>> => b = <<ev>>
  /\ \A o \in Outcomes : a = <<o>> => b = <<o, ev>>

\* The final events of a request are dispatched: first the outcome, then
\* loadend, and nothing more.
LEMMA PairedDispatch ==
  ASSUME NEW P, Shifted(P, 1), NEW i, \A k \in 1..Len(P) : ~FinalFor(P[k], i),
         IsFinal(1, i), Paired(i), Appended(outcome[i], outcome'[i], stack[1].ev)
  PROVE  Paired(i)'
<1>types. 1 \in DOMAIN stack /\ DOMAIN stack = 1..Len(stack) /\ Len(stack) \in Nat
  BY DEF Shifted
<1>1. ASSUME NEW k \in DOMAIN stack', IsFinal(k, i)'
      PROVE  \E m \in DOMAIN stack :
               /\ m > 1 /\ k = m + Len(P) - 1
               /\ IsFinal(m, i) /\ stack'[k] = stack[m]
  <2>1. FinalFor(stack'[k], i)
    BY <1>1 DEF IsFinal
  <2>2. PICK m \in (1 + 1)..Len(stack) :
          m \in DOMAIN stack /\ k = m + Len(P) - 1 /\ stack'[k] = stack[m]
    BY <2>1, Origin
  <2> QED BY <2>1, <2>2, <1>types DEF IsFinal
<1>2. CASE stack[1].ev = "loadend"
  <2>1. PICK o \in Outcomes : outcome[i] = <<o>>
    <3>0. \A k \in DOMAIN stack : IsFinal(k, i) /\ stack[k].ev = "loadend" =>
            Len(outcome[i]) <= 1 /\ (outcome[i] = <<>> => k > 1)
      BY DEF Paired
    <3>1. Len(outcome[i]) <= 1 /\ outcome[i] # <<>>
      BY <1>2, <1>types, <3>0
    <3>2. ASSUME NEW o \in Outcomes, outcome[i] = <<o, "loadend">> PROVE FALSE
      BY <3>1, <3>2
    <3> QED BY <3>1, <3>2 DEF Paired
  <2>2. outcome'[i] = <<o, "loadend">>
    BY <1>2, <2>1 DEF Appended
  <2>3. \A k \in DOMAIN stack' : ~IsFinal(k, i)'
    <3> SUFFICES ASSUME NEW k \in DOMAIN stack', IsFinal(k, i)' PROVE FALSE
      OBVIOUS
    <3>1. PICK m \in DOMAIN stack : m > 1 /\ IsFinal(m, i)
      BY <1>1
    <3>2. stack[m].ev # "loadend"
      BY <1>2, <1>types, <3>1 DEF Paired
    <3>3. outcome[i] = <<>>
      BY <3>1, <3>2 DEF Paired
    <3> QED BY <2>1, <3>3
  <2> QED BY <2>2, <2>3 DEF Paired
<1>3. CASE stack[1].ev # "loadend"
  <2>1. /\ outcome[i] = <<>> /\ 2 \in DOMAIN stack
        /\ IsFinal(2, i) /\ stack[2].ev = "loadend"
    BY <1>3, <1>types DEF Paired
  <2>2. PICK o \in Outcomes : o = stack[1].ev
    BY <1>3 DEF IsFinal, FinalFor, Final, Outcomes
  <2>3. outcome'[i] = <<o>> /\ Len(outcome'[i]) = 1 /\ outcome'[i] # <<>>
    <3>1. outcome'[i] = <<stack[1].ev>>
      BY <2>1 DEF Appended
    <3>2. outcome'[i] = <<o>>
      BY <2>2, <3>1
    <3> QED BY <3>2
  <2>4. ASSUME NEW k \in DOMAIN stack', IsFinal(k, i)'
        PROVE  k = 2 + Len(P) - 1 /\ stack'[k].ev = "loadend"
    <3>1. PICK m \in DOMAIN stack : /\ m > 1 /\ k = m + Len(P) - 1
                                    /\ IsFinal(m, i) /\ stack'[k] = stack[m]
      BY <1>1, <2>4
    <3>2. stack[m].ev = "loadend"
      <4> SUFFICES ASSUME stack[m].ev # "loadend" PROVE FALSE
        OBVIOUS
      <4>1. PICK n : n = m + 1
        OBVIOUS
      <4>2. n \in DOMAIN stack /\ IsFinal(n, i) /\ stack[n].ev = "loadend"
        BY <3>1, <4>1 DEF Paired
      <4>3. n = 2
        BY <2>1, <4>2 DEF Paired
      <4> QED BY <3>1, <4>1, <4>3, <1>types
    <3>3. m = 2
      BY <2>1, <3>1, <3>2 DEF Paired
    <3> QED BY <3>1, <3>2, <3>3
  <2> QED BY <2>3, <2>4 DEF Paired
<1> QED BY <1>2, <1>3

-----------------------------------------------------------------------------
(* What the parts of the invariant need of a step. *)

LEMMA EventFrame ==
  ASSUME NEW ev \in Events, NEW i \in 0..MaxSends
  PROVE  Event(ev, i) \in Frame
BY DEF Event, Frame

LEMMA StepFrame ==
  ASSUME NEW f \in {"start", "user"} \cup Pieces, NEW i \in 0..MaxSends
  PROVE  Step(f, i) \in Frame
BY DEF Step, Frame

LEMMA Top ==
  ASSUME Types, NEW f, Running(f)
  PROVE  /\ stack \in Seq(Frame) /\ stack # <<>> /\ 1 \in DOMAIN stack
         /\ top = stack[1] /\ stack[1].fn = f /\ stack[1].i \in 0..MaxSends
<1>1. stack \in Seq(Frame) /\ stack # <<>> /\ top.fn = f
  BY DEF Types, Running
<1>2. 1 \in DOMAIN stack /\ top = stack[1] /\ stack[1] \in Frame
  BY <1>1 DEF top
<1>3. stack[1].i \in 0..MaxSends
  BY <1>2 DEF Frame
<1> QED BY <1>1, <1>2, <1>3

\* Only the end of a request, or another call, changes the generation.
LEMMA GenerationsKept ==
  ASSUME Types, Generations, gen' = gen, sends' = sends,
         x'.generation \in Nat, x'.generation >= x.generation,
         x'.sendFlag => /\ x.sendFlag /\ x'.controller = x.controller
                        /\ x'.generation = x.generation
  PROVE  Generations'
<1>1. sends \in Nat /\ x.generation \in Nat
  BY XhrAssumption DEF Types
<1>2. \A i \in 1..sends : gen[i] \in Nat
  BY <1>1, XhrAssumption DEF Types, Requests
<1> QED BY <1>1, <1>2 DEF Generations

LEMMA SettlementKept ==
  ASSUME Settlement, sends \in Nat, sends' \in Nat, sends' >= sends,
         NEW P, NEW d, Shifted(P, d),
         \A k \in 1..Len(P) :
           P[k].fn = "dispatch" /\ P[k].ev \in Final => P[k].i \in 1..sends',
         \A i \in Requests : Settled(i)'
  PROVE  Settlement'
<1>1. ASSUME NEW k \in DOMAIN stack', stack'[k].fn = "dispatch", stack'[k].ev \in Final
      PROVE  stack'[k].i \in 1..sends'
  <2>1. \A m \in DOMAIN stack : stack[m].fn = "dispatch" /\ stack[m].ev \in Final
          => stack[m].i \in 1..sends'
    BY DEF Settlement
  <2> QED BY <1>1, <2>1, Origin
<1> QED BY <1>1 DEF Settlement

\* No part of a request is left to run.
LEMMA WorkGone ==
  ASSUME NEW P, NEW d, Shifted(P, d),
         \A k \in 1..Len(P) : P[k].fn \notin Pieces,
         \A m \in DOMAIN stack : m > d => stack[m].fn \notin Pieces
  PROVE  Work'
<1> SUFFICES ASSUME NEW k \in DOMAIN stack' PROVE stack'[k].fn \notin Pieces
  BY DEF Work
<1>1. d \in 0..1 /\ Len(stack) \in Nat
  BY DEF Shifted
<1> QED BY <1>1, Origin

LEMMA StartsKept ==
  ASSUME Starts, sends \in Nat, sends' \in Nat, sends' >= sends,
         NEW P, NEW d, Shifted(P, d),
         \A k \in 1..Len(P) : P[k].fn # "start",
         \A m \in DOMAIN stack : m > d /\ stack[m].fn = "start" =>
           /\ x'.async
           /\ (x'.sendFlag /\ x'.controller = stack[m].i) \/ stack[m].i \in aborted'
  PROVE  Starts'
<1> SUFFICES ASSUME NEW k \in DOMAIN stack', stack'[k].fn = "start"
             PROVE  /\ stack'[k].i \in 1..sends' /\ x'.async
                    /\ \/ x'.sendFlag /\ x'.controller = stack'[k].i
                       \/ stack'[k].i \in aborted'
  BY DEF Starts, Live
<1>1. d \in 0..1 /\ Len(stack) \in Nat
  BY DEF Shifted
<1>2. PICK m \in DOMAIN stack : m > d /\ stack'[k] = stack[m]
  BY <1>1, Origin
<1>3. stack[m].i \in 1..sends
  BY <1>2 DEF Starts
<1> QED BY <1>2, <1>3

\* While user code runs no part of a request does, and no synchronous request
\* is about to start.
LEMMA WhileUserRuns ==
  ASSUME Inv, UserRuns
  PROVE  \A k \in DOMAIN stack :
           /\ stack[k].fn \notin Pieces
           /\ stack[k].fn = "start" => /\ x.async
                                       /\ Live(stack[k].i) \/ stack[k].i \in aborted
<1>1. CASE stack = <<>>
  BY <1>1
<1>2. CASE Running("user")
  <2>1. stack[1].fn = "user" /\ 1 \in DOMAIN stack /\ stack \in Seq(Frame)
    BY <1>2, Top DEF Inv
  <2>2. \A k \in DOMAIN stack : k = 1 \/ 1 \in 1..(k - 1)
    BY <2>1
  <2> QED BY <2>1, <2>2 DEF Inv, Work, Starts, Pieces, Quiet
<1> QED BY <1>1, <1>2 DEF UserRuns

-----------------------------------------------------------------------------
(* The calls of user code. *)

LEMMA OpenStep ==
  ASSUME Inv, NEW async \in Modes, Open(async)
  PROVE  Inv'
<1> USE XhrAssumption
<1> DEFINE P == <<Event("opened", 0)>>
<1>types. /\ Types /\ sends \in Nat /\ sends' = sends /\ stack \in Seq(Frame)
          /\ x.generation \in Nat /\ async \in BOOLEAN
  BY DEF Inv, Types, Open
<1>x. x' = [x EXCEPT !.generation = @ + 1, !.async = async, !.sendFlag = FALSE,
                     !.controller = 0, !.timer = 0, !.response = 0,
                     !.readyState = OPENED]
  BY DEF Open
<1>fields. /\ x'.generation = x.generation + 1 /\ x'.async = async
           /\ x'.sendFlag = FALSE /\ x'.controller = 0 /\ x'.timer = 0
           /\ x'.response = 0 /\ x'.readyState = OPENED
           /\ x' = [readyState |-> OPENED, async |-> async, sendFlag |-> FALSE,
                    controller |-> 0, timer |-> 0, generation |-> x.generation + 1,
                    response |-> 0]
  BY <1>x, <1>types DEF Types
<1>P. /\ P \in Seq(Frame) /\ Len(P) = 1 /\ P[1] = Event("opened", 0)
      /\ stack' = P \o stack
  <2>1. Event("opened", 0) \in Frame
    BY EventFrame DEF Events
  <2>2. stack' = P \o stack
    BY DEF Open
  <2> QED BY <2>1, <2>2
<1>e. Event("opened", 0).fn = "dispatch" /\ Event("opened", 0).ev = "opened"
  BY DEF Event
<1> HIDE DEF P
<1>s. Shifted(P, 0)
  BY <1>P, <1>types, Pushed
<1>a. /\ aborted' = IF x.controller = 0 THEN aborted ELSE aborted \cup {x.controller}
      /\ \A i \in 1..sends : Live(i) => i \in aborted'
      /\ aborted \subseteq aborted'
  BY <1>types DEF Open, Cancelled, Live
<1>1. Types'
  <2>1. x' \in [readyState: UNSENT..DONE, async: BOOLEAN, sendFlag: BOOLEAN,
                controller: 0..sends', timer: 0..sends', generation: Nat,
                response: 0..sends']
    BY <1>fields, <1>types DEF OPENED, UNSENT, DONE
  <2>2. stack' \in Seq(Frame)
    BY <1>s DEF Shifted
  <2>3. aborted' \subseteq 1..sends /\ timers' \subseteq 1..sends
        /\ replaced' \subseteq 1..sends
    BY <1>a, <1>types DEF Types, Open, ClearTimeout, Inv, Generations
  <2> QED BY <2>1, <2>2, <2>3, <1>types DEF Types, Open
<1>2. Generations'
  BY <1>types, <1>fields, GenerationsKept DEF Inv, Open
<1>3. Settlement'
  <2>1. ASSUME NEW i \in Requests PROVE Settled(i)'
    <3>1. Apart(P, 0, i)
      BY <1>P, <1>e DEF Apart, FinalFor, Final
    <3>2. ~Live(i)' /\ outcome'[i] = outcome[i]
      BY <1>fields DEF Live, Open
    <3>3. i \in replaced' => i \in replaced \/ Live(i)
      BY DEF Open, Live
    <3> QED BY <1>s, <1>types, <3>1, <3>2, <3>3, SettledKept DEF Inv, Settlement
  <2> QED BY <2>1, <1>types, <1>s, <1>P, <1>e, SettlementKept DEF Inv, Final
<1>4. Work'
  BY <1>s, <1>P, <1>e, WorkGone, WhileUserRuns DEF Open, Pieces
<1>5. Starts'
  <2>1. \A m \in DOMAIN stack : stack[m].fn = "start" =>
          x'.async /\ stack[m].i \in aborted'
    BY <1>a, <1>fields, WhileUserRuns DEF Open, Inv, Starts
  <2>2. \A k \in 1..Len(P) : P[k].fn # "start"
    BY <1>P, <1>e
  <2>3. Starts /\ sends' >= sends
    BY <1>types DEF Inv
  <2> QED BY <2>1, <2>2, <2>3, <1>s, <1>types, StartsKept
<1>6. ResponseIsOfLastRequest'
  <2>1. ASSUME NEW i \in Requests, net[i] = "fetching" PROVE i \in aborted'
    <3>1. i \in 1..sends
      BY <2>1, <1>types DEF Types, Requests
    <3> QED BY <2>1, <3>1, <1>a DEF Inv, ResponseIsOfLastRequest, Live
  <2> QED BY <2>1, <1>fields DEF ResponseIsOfLastRequest, Open
<1> QED BY <1>1, <1>2, <1>3, <1>4, <1>5, <1>6 DEF Inv

LEMMA SendStep ==
  ASSUME Inv, Send
  PROVE  Inv'
<1> USE XhrAssumption
<1>n. PICK n : n = sends + 1
  OBVIOUS
<1> DEFINE P == <<Event("loadstart", n), Step("start", n)>>
<1>types. /\ Types /\ sends \in Nat /\ sends' = n /\ stack \in Seq(Frame)
          /\ x.generation \in Nat /\ n \in 1..MaxSends /\ n \in Nat /\ ~x.sendFlag
          /\ n > sends /\ gen \in [Requests -> Nat] /\ n \in Requests
  <2>1. Types /\ sends < MaxSends /\ ~x.sendFlag /\ sends' = sends + 1
    BY DEF Inv, Send
  <2>2. sends \in Nat /\ stack \in Seq(Frame) /\ gen \in [Requests -> Nat]
    BY <2>1 DEF Types
  <2>3. x.generation \in Nat
    BY <2>1 DEF Types
  <2> QED BY <1>n, <2>1, <2>2, <2>3 DEF Requests
<1>x. x' = [x EXCEPT !.sendFlag = TRUE, !.response = 0, !.controller = n,
                     !.generation = @ + 1]
  BY <1>types DEF Send
<1>fields. /\ x'.generation = x.generation + 1 /\ x'.async = x.async
           /\ x'.sendFlag = TRUE /\ x'.controller = n /\ x'.response = 0
           /\ x' = [readyState |-> x.readyState, async |-> x.async, sendFlag |-> TRUE,
                    controller |-> n, timer |-> x.timer,
                    generation |-> x.generation + 1, response |-> 0]
  BY <1>x, <1>types DEF Types
<1>gen. gen' = [gen EXCEPT ![n] = x.generation + 1]
  BY <1>types, <1>fields DEF Send
<1>P. /\ P \in Seq(Frame) /\ Len(P) = 2 /\ P[1] = Event("loadstart", n)
      /\ P[2] = Step("start", n) /\ stack' = P \o stack
  <2>0. n \in 0..MaxSends
    BY <1>types
  <2>1. Event("loadstart", n) \in Frame /\ Step("start", n) \in Frame
    <3>1. Event("loadstart", n) \in Frame
      BY <2>0, EventFrame DEF Events
    <3> QED BY <2>0, <3>1, StepFrame
  <2>2. stack' = P \o stack
    BY <1>types DEF Send
  <2> QED BY <2>1, <2>2
<1>e. /\ P[1].fn = "dispatch" /\ P[1].ev = "loadstart"
      /\ P[2].fn = "start" /\ P[2].i = n
  BY <1>P DEF Event, Step
<1> HIDE DEF P
<1>s. Shifted(P, 0)
  BY <1>P, <1>types, Pushed
<1>1. Types'
  <2>1. x' \in [readyState: UNSENT..DONE, async: BOOLEAN, sendFlag: BOOLEAN,
                controller: 0..n, timer: 0..n, generation: Nat, response: 0..n]
    <3>1. x.readyState \in UNSENT..DONE /\ x.async \in BOOLEAN /\ x.timer \in 0..n
      BY <1>types DEF Types
    <3>2. ASSUME NEW b \in BOOLEAN
          PROVE  [readyState |-> x.readyState, async |-> x.async, sendFlag |-> b,
                  controller |-> n, timer |-> x.timer,
                  generation |-> x.generation + 1, response |-> 0]
                 \in [readyState: UNSENT..DONE, async: BOOLEAN, sendFlag: BOOLEAN,
                      controller: 0..n, timer: 0..n, generation: Nat,
                      response: 0..n]
      BY <1>types, <3>1
    <3> QED BY <1>fields, <3>2
  <2>2. stack' \in Seq(Frame)
    BY <1>s DEF Shifted
  <2>3. aborted' \subseteq 1..n /\ timers' \subseteq 1..n /\ replaced' \subseteq 1..n
    <3>1. 1..sends \subseteq 1..n
      BY <1>types
    <3>2. UNCHANGED <<aborted, timers, replaced>>
      BY DEF Send
    <3> QED BY <1>types, <3>1, <3>2 DEF Types
  <2>4. gen' \in [Requests -> Nat]
    BY <1>gen, <1>types
  <2>5. /\ net' \in [Requests -> {"none", "fetching", "answered", "over"}]
        /\ outcome' \in [Requests -> Seq(Final)]
        /\ \A i \in Requests : net'[i] # "none" => i <= n
    <3>1. \A i \in Requests : net[i] # "none" => i <= sends
      BY <1>types DEF Types
    <3>2. \A i \in Requests : i \in Nat
      BY DEF Requests
    <3>3. net' = net /\ outcome' = outcome
      BY DEF Send
    <3>4. \A i \in Requests : net[i] # "none" => i <= n
      BY <3>1, <3>2, <1>types
    <3> QED BY <1>types, <3>3, <3>4 DEF Types
  <2>6. sends' = n /\ n \in 0..MaxSends
    BY <1>types
  <2> HIDE DEF P
  <2> QED BY <2>1, <2>2, <2>3, <2>4, <2>5, <2>6 DEF Types
<1>2. Generations'
  <2>1. \A i \in 1..sends : gen[i] \in Nat /\ gen'[i] = gen[i] /\ i # n
    BY <1>types, <1>gen DEF Requests
  <2>2. gen'[n] = x.generation + 1
    BY <1>types, <1>gen
  <2>3. \A i \in 1..n : i = n \/ i \in 1..sends
    BY <1>types, <1>n
  <2>4. \A i \in 1..sends : gen[i] <= x.generation
    BY DEF Inv, Generations
  <2>5. \A i, j \in 1..sends : i < j => gen[i] < gen[j]
    BY DEF Inv, Generations
  <2>6. \A i, j \in 1..n : i < j => gen'[i] < gen'[j]
    <3> SUFFICES ASSUME NEW i \in 1..n, NEW j \in 1..n, i < j
                 PROVE  gen'[i] < gen'[j]
      OBVIOUS
    <3>1. i \in 1..sends
      BY <1>n, <1>types
    <3>2. CASE j = n
      BY <2>1, <2>2, <2>4, <3>1, <3>2, <1>types
    <3>3. CASE j \in 1..sends
      BY <2>1, <2>5, <3>1, <3>3
    <3> QED BY <2>3, <3>2, <3>3
  <2>7. \A i \in 1..n : gen'[i] <= x.generation + 1
    BY <2>1, <2>2, <2>3, <2>4, <1>types, SMTT(30)
  <2> QED BY <2>2, <2>6, <2>7, <1>types, <1>fields DEF Generations
<1>3. Settlement'
  <2>1. ASSUME NEW i \in Requests PROVE Settled(i)'
    <3>1. Apart(P, 0, i)
      BY <1>P, <1>e DEF Apart, FinalFor, Final
    <3>2. (Live(i)' => i = n) /\ outcome'[i] = outcome[i] /\ replaced' = replaced
      BY <1>fields DEF Live, Send
    <3>3. n \notin replaced /\ i \in Nat
      BY <1>types DEF Types, Requests
    <3>4. (Live(i) \/ i \in replaced \/ i > sends)' => i \in replaced \/ i > sends
      BY <3>2, <3>3, <1>types
    <3> QED BY <1>s, <3>1, <3>2, <3>3, <3>4, SettledKept DEF Inv, Settlement
  <2>2. \A k \in 1..Len(P) : ~(P[k].fn = "dispatch" /\ P[k].ev \in Final)
    BY <1>P, <1>e DEF Final
  <2>3. Settlement /\ sends' \in Nat /\ sends' >= sends
    BY <1>types DEF Inv
  <2> QED BY <2>1, <2>2, <2>3, <1>types, <1>s, SettlementKept
<1>4. Work'
  <2>1. \A k \in 1..Len(P) : P[k].fn \notin Pieces
    BY <1>P, <1>e DEF Pieces
  <2>2. \A k \in DOMAIN stack : stack[k].fn \notin Pieces
    BY WhileUserRuns DEF Send
  <2> QED BY <2>1, <2>2, <1>s, WorkGone
<1>5. Starts'
  <2> SUFFICES ASSUME NEW k \in DOMAIN stack', stack'[k].fn = "start"
               PROVE  /\ stack'[k].i \in 1..n
                      /\ \/ x'.sendFlag /\ x'.controller = stack'[k].i
                         \/ stack'[k].i \in aborted'
                      /\ x'.async \/ /\ x'.sendFlag /\ x'.controller = stack'[k].i
                                     /\ \A l \in 1..(k - 1) :
                                          /\ stack'[l].fn = "dispatch"
                                          /\ stack'[l].ev = "loadstart"
    BY <1>types DEF Starts, Live
  <2>1. CASE k \in 1..Len(P) /\ stack'[k] = P[k]
    <3>1. k = 2 /\ stack'[1] = P[1]
      BY <2>1, <1>P, <1>e, <1>s DEF Shifted
    <3>2. \A l \in 1..(k - 1) : l = 1
      BY <3>1
    <3> QED BY <2>1, <3>1, <3>2, <1>e, <1>fields, <1>types
  <2>2. ASSUME NEW m \in DOMAIN stack, stack'[k] = stack[m]
        PROVE  stack'[k].i \in 1..n /\ stack'[k].i \in aborted' /\ x'.async
    <3>1. x.async /\ stack[m].i \in aborted
      <4>1. UserRuns
        BY DEF Send
      <4>2. x.async /\ (Live(stack[m].i) \/ stack[m].i \in aborted)
        <5>1. \A q \in DOMAIN stack : stack[q].fn = "start" =>
                x.async /\ (Live(stack[q].i) \/ stack[q].i \in aborted)
          BY <4>1, WhileUserRuns
        <5>2. stack[m].fn = "start"
          BY <2>2
        <5> QED BY <5>1, <5>2
      <4> QED BY <4>2, <1>types DEF Live
    <3>2. stack[m].i \in 1..sends /\ aborted' = aborted
      BY <2>2 DEF Inv, Starts, Send
    <3>3. stack'[k].i \in 1..n
      BY <2>2, <3>2, <1>types
    <3> QED BY <2>2, <3>1, <3>2, <3>3, <1>fields DEF Send
  <2> QED BY <2>1, <2>2, <1>s, Origin
<1>6. ResponseIsOfLastRequest'
  BY <1>types, <1>fields DEF Inv, ResponseIsOfLastRequest, Send
<1> QED BY <1>1, <1>2, <1>3, <1>4, <1>5, <1>6 DEF Inv

-----------------------------------------------------------------------------
(* The end of a request. *)

LEMMA FinalFrames ==
  ASSUME NEW e \in Events \ Final, NEW o \in Outcomes, NEW i \in 1..MaxSends,
         NEW P, P = <<Event(e, i), Event(o, i), Event("loadend", i)>>
  PROVE  /\ P \in Seq(Frame) /\ Len(P) = 3
         /\ \A k \in 1..Len(P) : P[k].fn = "dispatch" /\ P[k].i = i
<1>1. i \in 0..MaxSends /\ e \in Events /\ o \in Events /\ "loadend" \in Events
  BY XhrAssumption DEF Events, Final, Outcomes
<1>2. /\ Event(e, i) \in Frame /\ Event(o, i) \in Frame
      /\ Event("loadend", i) \in Frame
  BY <1>1, EventFrame
<1>3. \A ev : Event(ev, i).fn = "dispatch" /\ Event(ev, i).i = i
  BY DEF Event
<1>4. /\ P \in Seq(Frame) /\ Len(P) = 3
      /\ P[1] = Event(e, i) /\ P[2] = Event(o, i) /\ P[3] = Event("loadend", i)
  BY <1>2
<1> QED BY <1>3, <1>4

\* The awaited request i gets its outcome o, and what is left of the task does
\* nothing more with it: abort(), a body, a failure or a timeout.
LEMMA FinishStep ==
  ASSUME Inv, NEW i \in 1..sends, Live(i),
         NEW e \in Events \ Final, NEW o \in Outcomes, NEW d,
         Shifted(<<Event(e, i), Event(o, i), Event("loadend", i)>>, d),
         d = 1 => stack[1].fn # "dispatch",
         UNCHANGED <<gen, net, sends, outcome, replaced>>,
         Types', ~x'.sendFlag, x'.controller = x.controller, x'.async = x.async,
         x'.generation >= x.generation, x'.response \in {0, x.response},
         \A m \in DOMAIN stack : m > d => stack[m].fn \notin Pieces,
         \A m \in DOMAIN stack : m > d /\ stack[m].fn = "start" =>
           x.async /\ stack[m].i \in aborted',
         \A j \in Requests : net[j] = "fetching" => j \in aborted'
  PROVE  Inv'
<1> USE XhrAssumption
<1> DEFINE P == <<Event(e, i), Event(o, i), Event("loadend", i)>>
<1>types. Types /\ sends \in Nat /\ sends' = sends /\ i \in 1..MaxSends /\ i \in Requests
  <2>1. Types
    BY DEF Inv
  <2>2. sends \in 0..MaxSends
    BY <2>1 DEF Types
  <2> QED BY <2>1, <2>2 DEF Requests
<1>P. /\ Len(P) = 3 /\ Shifted(P, d)
      /\ \A k \in 1..Len(P) : P[k].fn = "dispatch" /\ P[k].i = i
  BY <1>types, FinalFrames
<1> HIDE DEF P
<1>2. Generations'
  <2>1. x'.generation \in Nat
    BY DEF Types
  <2> QED BY <2>1, <1>types, GenerationsKept DEF Inv
<1>3. Settlement'
  <2>live. \A j : ~Live(j)'
    BY DEF Live
  <2>1. ASSUME NEW j \in Requests, j # i PROVE Settled(j)'
    <3>1. Apart(P, d, j)
      BY <1>P, <2>1 DEF Apart, FinalFor
    <3>2. outcome'[j] = outcome[j] /\ replaced' = replaced
      OBVIOUS
    <3>3. Settled(j)
      BY <2>1 DEF Inv, Settlement
    <3> QED BY <1>P, <1>types, <2>live, <3>1, <3>2, <3>3, SettledKept
  <2>2. Settled(i)'
    <3>1. Settled(i) /\ i \notin replaced
      BY <1>types DEF Inv, Settlement, Settled
    <3>2. ~(Live(i) \/ i \in replaced \/ i > sends)'
      BY <2>live, <3>1, <1>types
    <3>3. e \notin Final /\ outcome'[i] = outcome[i]
      OBVIOUS
    <3> QED BY <3>1, <3>2, <3>3, SettledFinished
  <2>3. Settlement /\ sends' >= sends
    BY <1>types DEF Inv
  <2>4. \A k \in 1..Len(P) : P[k].i \in 1..sends'
    BY <1>P, <1>types
  <2> QED BY <2>1, <2>2, <2>3, <2>4, <1>P, <1>types, SettlementKept
<1>4. Work'
  BY <1>P, WorkGone DEF Pieces
<1>5. Starts'
  <2>1. \A k \in 1..Len(P) : P[k].fn # "start"
    BY <1>P
  <2>2. Starts /\ sends' >= sends
    BY <1>types DEF Inv
  <2> QED BY <2>1, <2>2, <1>P, <1>types, StartsKept
<1>6. ResponseIsOfLastRequest'
  BY DEF Inv, ResponseIsOfLastRequest
<1> QED BY <1>2, <1>3, <1>4, <1>5, <1>6 DEF Inv

\* The AbortController cancels the request the object waits for.
LEMMA CancelledLive ==
  ASSUME Inv, aborted' = Cancelled
  PROVE  /\ aborted' \subseteq 1..sends /\ aborted \subseteq aborted'
         /\ \A i \in 1..sends : Live(i) => i \in aborted'
         /\ \A j \in Requests : net[j] = "fetching" => j \in aborted'
<1>1. Types /\ x.controller \in 0..sends /\ aborted \subseteq 1..sends /\ sends \in Nat
  BY DEF Inv, Types
<1>2. aborted' = IF x.controller = 0 THEN aborted ELSE aborted \cup {x.controller}
  BY DEF Cancelled
<1>3. aborted' \subseteq 1..sends /\ aborted \subseteq aborted'
  <2>1. x.controller # 0 => x.controller \in 1..sends
    BY <1>1
  <2> QED BY <1>1, <1>2, <2>1
<1>4. \A i \in 1..sends : Live(i) => i \in aborted'
  BY <1>1, <1>2 DEF Live
<1>5. ASSUME NEW j \in Requests, net[j] = "fetching" PROVE j \in aborted'
  <2>1. j \in 1..sends
    BY <1>1, <1>5 DEF Types, Requests
  <2>2. Live(j) \/ j \in aborted
    BY <1>5 DEF Inv, ResponseIsOfLastRequest, Live
  <2> QED BY <2>1, <2>2, <1>3, <1>4
<1> QED BY <1>3, <1>4, <1>5

LEMMA AbortStep ==
  ASSUME Inv, Abort
  PROVE  Inv'
<1> USE XhrAssumption
<1>user. /\ UserRuns /\ aborted' = Cancelled
         /\ UNCHANGED <<gen, net, sends, outcome, replaced>>
  BY DEF Abort
<1>types. /\ Types /\ sends \in Nat /\ stack \in Seq(Frame)
          /\ x.generation \in Nat /\ x.async \in BOOLEAN /\ x.controller \in 0..sends
  <2>1. Types
    BY DEF Inv
  <2>2. x.generation \in Nat /\ x.async \in BOOLEAN /\ x.controller \in 0..sends
    BY <2>1 DEF Types
  <2> QED BY <2>1, <2>2 DEF Types
<1>x. x' = [x EXCEPT !.generation = @ + 1, !.sendFlag = FALSE, !.timer = 0,
                     !.response = 0, !.readyState = UNSENT]
  BY DEF Abort
<1>fields. /\ x'.generation = x.generation + 1 /\ x'.async = x.async
           /\ x'.sendFlag = FALSE /\ x'.controller = x.controller
           /\ x'.response = 0
           /\ x' = [readyState |-> UNSENT, async |-> x.async, sendFlag |-> FALSE,
                    controller |-> x.controller, timer |-> 0,
                    generation |-> x.generation + 1, response |-> 0]
  BY <1>x, <1>types DEF Types
<1>a. /\ aborted' \subseteq 1..sends /\ aborted \subseteq aborted'
      /\ \A i \in 1..sends : Live(i) => i \in aborted'
      /\ \A j \in Requests : net[j] = "fetching" => j \in aborted'
  BY <1>user, CancelledLive
<1>old. \A m \in DOMAIN stack :
          /\ stack[m].fn \notin Pieces
          /\ stack[m].fn = "start" => x.async /\ stack[m].i \in aborted'
  <2>1. \A m \in DOMAIN stack : stack[m].fn = "start" => stack[m].i \in 1..sends
    BY DEF Inv, Starts
  <2> QED BY <2>1, <1>a, <1>user, WhileUserRuns
<1>1. ASSUME stack' \in Seq(Frame) PROVE Types'
  <2>1. x' \in [readyState: UNSENT..DONE, async: BOOLEAN, sendFlag: BOOLEAN,
                controller: 0..sends, timer: 0..sends, generation: Nat,
                response: 0..sends]
    BY <1>fields, <1>types DEF UNSENT, DONE
  <2>2. timers' \subseteq 1..sends
    BY <1>types DEF Types, Abort, ClearTimeout
  <2> QED BY <1>1, <2>1, <2>2, <1>a, <1>types, <1>user DEF Types
<1>2. CASE x.sendFlag
  <2>1. PICK i : i = x.controller
    OBVIOUS
  <2>2. i \in 1..sends /\ i \in 1..MaxSends /\ Live(i)
    <3>1. i = sends /\ sends > 0
      BY <1>2, <2>1 DEF Inv, Generations
    <3> QED BY <1>2, <1>types, <2>1, <3>1 DEF Live, Types
  <2>3. "unsent" \in Events \ Final /\ "abort" \in Outcomes
    BY DEF Events, Final, Outcomes
  <2>4. PICK P : P = <<Event("unsent", i), Event("abort", i), Event("loadend", i)>>
    OBVIOUS
  <2>5. P \in Seq(Frame)
    BY <2>2, <2>3, <2>4, FinalFrames
  <2>6. stack' = P \o stack
    BY <1>2, <2>1, <2>4 DEF Abort
  <2>7. Shifted(P, 0)
    BY <2>5, <2>6, <1>types, Pushed
  <2>8. stack' \in Seq(Frame)
    BY <2>7 DEF Shifted
  <2>9. Shifted(<<Event("unsent", i), Event("abort", i), Event("loadend", i)>>, 0)
    BY <2>4, <2>7
  <2> QED BY <2>2, <2>3, <2>8, <2>9, <1>1, <1>fields, <1>types, <1>user, <1>a, <1>old,
             FinishStep, SMTT(30)
<1>3. CASE ~x.sendFlag
  <2>1. stack' = stack
    BY <1>3, <1>types DEF Abort
  <2>2. Types'
    BY <2>1, <1>1, <1>types
  <2>3. Generations'
    BY <1>types, <1>fields, <1>user, GenerationsKept DEF Inv
  <2>4. Settlement'
    BY <1>3, <1>fields, <1>user, <2>1
       DEF Inv, Settlement, Settled, Paired, Idle, IsFinal, Live
  <2>5. Work' /\ Starts'
    BY <1>old, <1>fields, <1>user, <2>1 DEF Work, Starts, Inv
  <2>6. ResponseIsOfLastRequest'
    BY <1>fields, <1>user, <1>a DEF ResponseIsOfLastRequest
  <2> QED BY <2>2, <2>3, <2>4, <2>5, <2>6 DEF Inv
<1> QED BY <1>2, <1>3

-----------------------------------------------------------------------------
(* The parts of a task. *)

LEMMA Popped ==
  ASSUME stack \in Seq(Frame), stack # <<>>, stack' = Tail(stack)
  PROVE  Shifted(<<>>, 1)
<1>1. <<>> \in Seq(Frame) /\ stack' = <<>> \o Tail(stack)
  OBVIOUS
<1> QED BY <1>1, Replaced

\* The parts below a frame that is neither an event nor the headers of a
\* synchronous answer: none; and no synchronous request is below it.
LEMMA Below ==
  ASSUME Inv, NEW f, Running(f), f # "dispatch"
  PROVE  \A m \in DOMAIN stack : m > 1 =>
           /\ stack[m].fn \in Pieces => f = "headers" /\ ~x.async
           /\ stack[m].fn = "start" => x.async
<1>1. /\ Types /\ stack \in Seq(Frame) /\ 1 \in DOMAIN stack /\ stack[1].fn = f
  BY Top DEF Inv
<1>2. \A m \in DOMAIN stack : m > 1 => 1 \in 1..(m - 1)
  BY <1>1
<1> QED BY <1>1, <1>2 DEF Inv, Work, Starts, Quiet

\* A step of the task that leaves the object, its requests and their outcomes
\* alone, apart from what is shown of the answer.
LEMMA InnerStep ==
  ASSUME Inv, NEW f, Running(f), f # "dispatch",
         NEW P, Shifted(P, 1), \A k \in 1..Len(P) : ~(P[k].fn = "dispatch"
                                                      /\ P[k].ev \in Final),
         UNCHANGED <<gen, sends, outcome, replaced>>,
         x'.sendFlag = x.sendFlag, x'.controller = x.controller,
         x'.generation = x.generation
  PROVE  Generations' /\ Settlement'
<1>types. /\ Types /\ sends \in Nat /\ sends' = sends /\ x.generation \in Nat
          /\ stack[1].fn # "dispatch"
  <2>1. Types
    BY DEF Inv
  <2>2. x.generation \in Nat
    BY <2>1 DEF Types
  <2> QED BY <2>1, <2>2, Top DEF Types
<1>1. Generations'
  BY <1>types, GenerationsKept DEF Inv
<1>2. ASSUME NEW i \in Requests PROVE Settled(i)'
  <2>1. Apart(P, 1, i)
    BY <1>types DEF Apart, FinalFor
  <2>2. Settled(i) /\ (Live(i)' => Live(i))
    BY DEF Inv, Settlement, Live
  <2> QED BY <2>1, <2>2, SettledKept DEF Settled
<1>3. Settlement /\ sends' >= sends
  BY <1>types DEF Inv
<1> QED BY <1>1, <1>2, <1>3, <1>types, SettlementKept

LEMMA HandlerReturnsStep ==
  ASSUME Inv, HandlerReturns
  PROVE  Inv'
<1>1. /\ Running("user") /\ stack' = Tail(stack)
      /\ UNCHANGED <<x, gen, net, aborted, timers, sends, outcome, replaced>>
  BY DEF HandlerReturns
<1>2. Types /\ stack \in Seq(Frame) /\ stack # <<>> /\ sends \in Nat
  BY <1>1, Top, SMTT(30) DEF Inv, Types
<1>s. Shifted(<<>>, 1)
  BY <1>1, <1>2, Popped
<1>3. Types'
  <2>1. stack' \in Seq(Frame)
    BY <1>s DEF Shifted
  <2> QED BY <1>1, <1>2, <2>1 DEF Types
<1>4. Generations' /\ Settlement'
  BY <1>1, <1>s, InnerStep
<1>5. UserRuns
  BY <1>1 DEF UserRuns
<1>6. Work'
  BY <1>s, <1>5, WhileUserRuns, WorkGone
<1>7. Starts'
  <2>1. \A m \in DOMAIN stack : m > 1 /\ stack[m].fn = "start" =>
          /\ x'.async
          /\ (x'.sendFlag /\ x'.controller = stack[m].i) \/ stack[m].i \in aborted'
    BY <1>1, <1>5, WhileUserRuns DEF Live
  <2>2. Starts /\ sends' >= sends
    BY <1>1, <1>2 DEF Inv
  <2> QED BY <2>1, <2>2, <1>1, <1>2, <1>s, StartsKept
<1>8. ResponseIsOfLastRequest'
  BY <1>1 DEF Inv, ResponseIsOfLastRequest
<1> QED BY <1>3, <1>4, <1>6, <1>7, <1>8 DEF Inv

\* The rest of send(): an asynchronous request starts its fetch and perhaps
\* its timer, and one that was cancelled meanwhile is over at once.
LEMMA StartAsync ==
  ASSUME Inv, Running("start"), x.async, NEW i, i = top.i, NEW positive \in BOOLEAN,
         timers' = IF positive THEN timers \cup {i} ELSE timers,
         x' = IF positive THEN [x EXCEPT !.timer = i] ELSE x,
         net' = [net EXCEPT ![i] = IF i \in aborted THEN "over" ELSE "fetching"],
         stack' = Tail(stack),
         UNCHANGED <<gen, aborted, sends, calls, outcome, replaced>>
  PROVE  Inv'
<1> USE XhrAssumption
<1>1. /\ Types /\ stack \in Seq(Frame) /\ stack # <<>> /\ 1 \in DOMAIN stack
      /\ stack[1].fn = "start" /\ stack[1].i = i
  BY Top DEF Inv
<1>2. sends \in Nat /\ i \in 1..sends /\ (Live(i) \/ i \in aborted) /\ i \in Requests
  <2>1. i \in 1..sends /\ (Live(i) \/ i \in aborted)
    BY <1>1 DEF Inv, Starts
  <2>2. sends \in 0..MaxSends
    BY <1>1 DEF Types
  <2> QED BY <2>1, <2>2 DEF Requests
<1>s. Shifted(<<>>, 1)
  BY <1>1, Popped
<1>x. /\ x'.sendFlag = x.sendFlag /\ x'.controller = x.controller
      /\ x'.generation = x.generation /\ x'.async = x.async
      /\ x'.response = x.response
      /\ x' \in [readyState: UNSENT..DONE, async: BOOLEAN, sendFlag: BOOLEAN,
                 controller: 0..sends, timer: 0..sends, generation: Nat,
                 response: 0..sends]
  <2>1. i \in 0..sends
    BY <1>2
  <2>2. CASE positive
    BY <1>1, <2>1, <2>2 DEF Types
  <2>3. CASE ~positive
    BY <1>1, <2>3 DEF Types
  <2> QED BY <2>2, <2>3
<1>3. Types'
  <2>1. stack' \in Seq(Frame)
    BY <1>s DEF Shifted
  <2>2. /\ net' \in [Requests -> {"none", "fetching", "answered", "over"}]
        /\ \A j \in Requests : net'[j] # "none" => j <= sends
    BY <1>1, <1>2, SMTT(30) DEF Types
  <2>3. timers' \subseteq 1..sends
    BY <1>1, <1>2 DEF Types
  <2> QED BY <1>1, <1>x, <2>1, <2>2, <2>3 DEF Types
<1>4. Generations' /\ Settlement'
  BY <1>s, <1>x, InnerStep
<1>below. \A m \in DOMAIN stack : m > 1 => stack[m].fn \notin Pieces
  BY Below
<1>5. Work'
  BY <1>s, <1>below, WorkGone
<1>6. Starts'
  <2>1. \A m \in DOMAIN stack : m > 1 /\ stack[m].fn = "start" =>
          /\ x'.async
          /\ (x'.sendFlag /\ x'.controller = stack[m].i) \/ stack[m].i \in aborted'
    BY <1>x DEF Inv, Starts, Live
  <2>2. Starts /\ sends' >= sends
    BY <1>2 DEF Inv
  <2> QED BY <2>1, <2>2, <1>2, <1>s, StartsKept
<1>7. ResponseIsOfLastRequest'
  <2>1. ASSUME NEW j \in Requests, net'[j] = "fetching"
        PROVE  (x'.sendFlag /\ x'.controller = j) \/ j \in aborted'
    <3>1. CASE j = i
      BY <1>2, <1>x, <3>1 DEF Live
    <3>2. CASE j # i
      BY <2>1, <1>1, <1>x, <3>2 DEF Inv, ResponseIsOfLastRequest, Types
    <3> QED BY <3>1, <3>2
  <2> QED BY <2>1, <1>x DEF Inv, ResponseIsOfLastRequest
<1> QED BY <1>3, <1>4, <1>5, <1>6, <1>7 DEF Inv

\* The parts that run now are those of request i, which the object waits for.
LEMMA WorkBegins ==
  ASSUME NEW P, NEW d, Shifted(P, d), NEW i,
         x'.sendFlag, x'.controller = i, net'[i] # "fetching",
         \A k \in 1..Len(P) : P[k].fn # "start",
         \A k \in 1..Len(P) : P[k].fn \in Pieces =>
           /\ P[k].i = i
           /\ \A l \in 1..(k - 1) : Quiet(P[l], x'.async),
         \A m \in DOMAIN stack : m > d =>
           /\ stack[m].fn \notin Pieces
           /\ stack[m].fn = "start" => stack[m].i # i
  PROVE  Work'
<1>1. d \in 0..1 /\ Len(stack) \in Nat /\ Len(P) \in Nat
  BY DEF Shifted
<1>2. ASSUME NEW l \in DOMAIN stack', stack'[l].fn = "start" PROVE stack'[l].i # i
  BY <1>1, <1>2, Origin
<1>3. ASSUME NEW k \in DOMAIN stack', stack'[k].fn \in Pieces
      PROVE  /\ stack'[k].i = i
             /\ \A l \in 1..(k - 1) : Quiet(stack'[l], x'.async)
  <2>1. k \in 1..Len(P) /\ stack'[k] = P[k]
    BY <1>1, <1>3, Origin
  <2>2. \A l \in 1..(k - 1) : l \in 1..Len(P) /\ stack'[l] = P[l]
    BY <1>1, <2>1 DEF Shifted
  <2> QED BY <1>3, <2>1, <2>2
<1> QED BY <1>2, <1>3 DEF Work, Live, Quiet

\* A synchronous request has its answer at once.
LEMMA StartSync ==
  ASSUME Inv, Running("start"), ~x.async, NEW i, i = top.i,
         NEW P, \/ P = <<Step("headers", i), Step("body", i)>>
                \/ P = <<Step("networkError", i)>>,
         stack' = P \o Tail(stack), net' = [net EXCEPT ![i] = "over"],
         UNCHANGED <<x, timers, gen, aborted, sends, calls, outcome, replaced>>
  PROVE  Inv'
<1> USE XhrAssumption
<1>1. /\ Types /\ stack \in Seq(Frame) /\ stack # <<>> /\ 1 \in DOMAIN stack
      /\ stack[1].fn = "start" /\ stack[1].i = i
  BY Top DEF Inv
<1>2. sends \in Nat /\ i \in 1..sends /\ Live(i) /\ i \in Requests /\ i \in 0..MaxSends
  <2>1. i \in 1..sends /\ Live(i)
    BY <1>1 DEF Inv, Starts
  <2>2. sends \in 0..MaxSends
    BY <1>1 DEF Types
  <2> QED BY <2>1, <2>2 DEF Requests
<1>f. \A f : Step(f, i).fn = f /\ Step(f, i).i = i
  BY DEF Step
<1>P. /\ P \in Seq(Frame) /\ Len(P) \in {1, 2}
      /\ \A k \in 1..Len(P) : P[k].fn \in Pieces /\ P[k].i = i
      /\ Len(P) = 2 => P[1].fn = "headers"
  <2>1. /\ Step("headers", i) \in Frame /\ Step("body", i) \in Frame
        /\ Step("networkError", i) \in Frame
    BY <1>2, StepFrame DEF Pieces
  <2>2. CASE P = <<Step("headers", i), Step("body", i)>>
    <3>1. /\ Len(P) = 2 /\ P[1] = Step("headers", i) /\ P[2] = Step("body", i)
          /\ P \in Seq(Frame)
      BY <2>1, <2>2
    <3> QED BY <3>1, <1>f DEF Pieces
  <2>3. CASE P = <<Step("networkError", i)>>
    <3>1. Len(P) = 1 /\ P[1] = Step("networkError", i) /\ P \in Seq(Frame)
      BY <2>1, <2>3
    <3> QED BY <3>1, <1>f DEF Pieces
  <2> QED BY <2>2, <2>3
<1>s. Shifted(P, 1)
  BY <1>1, <1>P, Replaced
<1>3. Types'
  <2>1. stack' \in Seq(Frame)
    BY <1>s DEF Shifted
  <2>2. /\ net' \in [Requests -> {"none", "fetching", "answered", "over"}]
        /\ \A j \in Requests : net'[j] # "none" => j <= sends
    BY <1>1, <1>2, SMTT(30) DEF Types
  <2> QED BY <1>1, <2>1, <2>2 DEF Types
<1>4. Generations' /\ Settlement'
  <2>1. \A k \in 1..Len(P) : ~(P[k].fn = "dispatch" /\ P[k].ev \in Final)
    BY <1>P DEF Pieces
  <2> QED BY <1>s, <2>1, InnerStep
<1>below. \A m \in DOMAIN stack :
            m > 1 => stack[m].fn \notin Pieces /\ stack[m].fn # "start"
  BY Below
<1>5. Work'
  <2>1. x'.sendFlag /\ x'.controller = i /\ net'[i] # "fetching"
    BY <1>1, <1>2 DEF Live, Types
  <2>2. \A k \in 1..Len(P) : P[k].fn # "start"
    BY <1>P DEF Pieces
  <2>3. \A k \in 1..Len(P) : \A l \in 1..(k - 1) : Quiet(P[l], x'.async)
    BY <1>P DEF Quiet
  <2> QED BY <1>P, <1>s, <1>below, <2>1, <2>2, <2>3, WorkBegins
<1>6. Starts'
  <2>1. \A k \in 1..Len(P) : P[k].fn # "start"
    BY <1>P DEF Pieces
  <2>2. Starts /\ sends' >= sends
    BY <1>2 DEF Inv
  <2> QED BY <2>1, <2>2, <1>2, <1>s, <1>below, StartsKept
<1>7. ResponseIsOfLastRequest'
  BY <1>1, <1>2 DEF Inv, ResponseIsOfLastRequest, Types
<1> QED BY <1>3, <1>4, <1>5, <1>6, <1>7 DEF Inv

LEMMA StartStep ==
  ASSUME Inv, Start
  PROVE  Inv'
<1>1. PICK i : i = top.i
  OBVIOUS
<1>2. CASE x.async
  <2>1. PICK positive \in BOOLEAN :
          /\ timers' = IF positive THEN timers \cup {i} ELSE timers
          /\ x' = IF positive THEN [x EXCEPT !.timer = i] ELSE x
    BY <1>1, <1>2, XhrAssumption DEF Start
  <2> QED BY <1>1, <1>2, <2>1, StartAsync DEF Start
<1>3. CASE ~x.async
  <2>1. PICK P : /\ P \in {<<Step("headers", i), Step("body", i)>>,
                           <<Step("networkError", i)>>}
                 /\ stack' = P \o Tail(stack)
    BY <1>1, <1>3 DEF Start
  <2> QED BY <1>1, <1>3, <2>1, StartSync DEF Start
<1> QED BY <1>2, <1>3

\* The headers of an answer are shown.
LEMMA HeadersStep ==
  ASSUME Inv, acceptHeaders
  PROVE  Inv'
<1> USE XhrAssumption
<1>i. PICK i : i = top.i
  OBVIOUS
<1>P. PICK P : P = <<Event("headers", i)>>
  OBVIOUS
<1>0. /\ Running("headers") /\ stack' = P \o Tail(stack)
      /\ x' = [x EXCEPT !.response = i, !.readyState = HEADERS_RECEIVED]
      /\ UNCHANGED <<gen, net, aborted, timers, sends, outcome, replaced>>
  BY <1>i, <1>P DEF acceptHeaders
<1>1. /\ Types /\ stack \in Seq(Frame) /\ stack # <<>> /\ 1 \in DOMAIN stack
      /\ stack[1].fn = "headers" /\ stack[1].i = i /\ i \in 0..MaxSends
  BY <1>0, <1>i, Top DEF Inv
<1>2. sends \in Nat /\ Live(i) /\ i \in 0..sends
  <2>1. Live(i)
    BY <1>1 DEF Inv, Work, Pieces
  <2>2. x.controller \in 0..sends
    BY <1>1 DEF Types
  <2> QED BY <1>1, <2>1, <2>2 DEF Live, Types
<1>e. /\ P \in Seq(Frame) /\ Len(P) = 1 /\ P[1].fn = "dispatch" /\ P[1].ev = "headers"
  <2>1. Event("headers", i) \in Frame
    BY <1>1, EventFrame DEF Events
  <2>2. Event("headers", i).fn = "dispatch" /\ Event("headers", i).ev = "headers"
    BY DEF Event
  <2> QED BY <1>P, <2>1, <2>2
<1>s. Shifted(P, 1)
  BY <1>0, <1>1, <1>e, Replaced
<1>x. /\ x'.sendFlag = x.sendFlag /\ x'.controller = x.controller
      /\ x'.generation = x.generation /\ x'.async = x.async /\ x'.response = i
      /\ x' \in [readyState: UNSENT..DONE, async: BOOLEAN, sendFlag: BOOLEAN,
                 controller: 0..sends, timer: 0..sends, generation: Nat,
                 response: 0..sends]
  <2>1. HEADERS_RECEIVED \in UNSENT..DONE
    BY DEF HEADERS_RECEIVED, UNSENT, DONE
  <2> QED BY <1>0, <1>1, <1>2, <2>1 DEF Types
<1>3. Types'
  <2>1. stack' \in Seq(Frame)
    BY <1>s DEF Shifted
  <2> QED BY <1>0, <1>1, <1>x, <2>1 DEF Types
<1>4. Generations' /\ Settlement'
  <2>1. \A k \in 1..Len(P) : ~(P[k].fn = "dispatch" /\ P[k].ev \in Final)
    BY <1>e DEF Final
  <2> QED BY <1>0, <1>s, <1>x, <2>1, InnerStep
<1>5. Work'
  <2>1. CASE \A m \in DOMAIN stack : m > 1 => stack[m].fn \notin Pieces
    BY <1>e, <1>s, <2>1, WorkGone DEF Pieces
  <2>2. CASE ~x.async
    <3>1. Quiet(P[1], x'.async)
      BY <2>2, <1>e, <1>x DEF Quiet
    <3>2. Len(P) = 1 /\ stack'[1] = P[1]
          /\ Len(stack') = Len(stack) /\ Len(stack) \in Nat
          /\ DOMAIN stack' = DOMAIN stack /\ DOMAIN stack = 1..Len(stack)
          /\ \A k \in 2..Len(stack) : stack'[k] = stack[k]
      <4>1. \A k \in (1 + 1)..Len(stack) : stack'[k + Len(P) - 1] = stack[k]
        BY <1>s DEF Shifted
      <4>2. \A k \in 2..Len(stack) : stack'[k] = stack[k]
        BY <4>1, <1>e
      <4> QED BY <1>e, <1>s, <4>2 DEF Shifted
    <3> SUFFICES ASSUME NEW k \in DOMAIN stack', stack'[k].fn \in Pieces
                 PROVE  /\ x'.sendFlag /\ x'.controller = stack'[k].i
                        /\ net'[stack'[k].i] # "fetching"
                        /\ \A l \in DOMAIN stack' :
                             stack'[l].fn = "start" => stack'[l].i # stack'[k].i
                        /\ \A l \in 1..(k - 1) : Quiet(stack'[l], x'.async)
      BY DEF Work, Live
    <3>3. k \in 2..Len(stack) /\ k \in DOMAIN stack /\ stack'[k] = stack[k]
      BY <3>2, <1>e DEF Pieces
    <3>4. /\ Live(stack[k].i) /\ net[stack[k].i] # "fetching"
          /\ \A l \in DOMAIN stack : stack[l].fn = "start" => stack[l].i # stack[k].i
          /\ \A l \in 1..(k - 1) : Quiet(stack[l], x.async)
      BY <3>3 DEF Inv, Work
    <3>5. \A l \in DOMAIN stack' :
            stack'[l].fn = "start" => stack'[l].i # stack'[k].i
      BY <3>2, <3>3, <3>4, <1>e
    <3>6. \A l \in 1..(k - 1) : Quiet(stack'[l], x'.async)
      BY <3>1, <3>2, <3>3, <3>4, <1>x
    <3> QED BY <3>3, <3>4, <3>5, <3>6, <1>0, <1>x DEF Live
  <2> QED BY <1>0, <2>1, <2>2, Below
<1>6. Starts'
  <2>1. \A m \in DOMAIN stack : m > 1 /\ stack[m].fn = "start" =>
          /\ x'.async
          /\ (x'.sendFlag /\ x'.controller = stack[m].i) \/ stack[m].i \in aborted'
    BY <1>0, <1>x, Below DEF Inv, Starts, Live
  <2>2. Starts /\ sends' >= sends
    BY <1>0, <1>2 DEF Inv
  <2> QED BY <2>1, <2>2, <1>0, <1>2, <1>e, <1>s, StartsKept
<1>7. ResponseIsOfLastRequest'
  BY <1>0, <1>2, <1>x DEF Inv, ResponseIsOfLastRequest, Live
<1> QED BY <1>3, <1>4, <1>5, <1>6, <1>7 DEF Inv

\* The body is accepted, up to the event progress.
LEMMA BodyStep ==
  ASSUME QuietBody, Inv, acceptBody
  PROVE  Inv'
<1> USE XhrAssumption
<1>i. PICK i : i = top.i
  OBVIOUS
<1>P. PICK P : P = <<Event("loading", i), Event("progress", i), Step("bodyDone", i)>>
  OBVIOUS
<1>0. /\ Running("body") /\ stack' = P \o Tail(stack)
      /\ x' = [x EXCEPT !.readyState = LOADING]
      /\ UNCHANGED <<gen, net, aborted, timers, sends, outcome, replaced>>
  BY <1>i, <1>P DEF acceptBody
<1>1. /\ Types /\ stack \in Seq(Frame) /\ stack # <<>> /\ 1 \in DOMAIN stack
      /\ stack[1].fn = "body" /\ stack[1].i = i /\ i \in 0..MaxSends /\ sends \in Nat
  <2>1. Types
    BY DEF Inv
  <2>2. sends \in Nat
    BY <2>1 DEF Types
  <2> QED BY <1>0, <1>i, <2>1, <2>2, Top
<1>2. /\ Live(i) /\ net[i] # "fetching"
      /\ \A l \in DOMAIN stack : stack[l].fn = "start" => stack[l].i # i
  BY <1>1 DEF Inv, Work, Pieces
<1>e. /\ P \in Seq(Frame) /\ Len(P) = 3
      /\ P[1].fn = "dispatch" /\ P[1].ev = "loading"
      /\ P[2].fn = "dispatch" /\ P[2].ev = "progress"
      /\ P[3].fn = "bodyDone" /\ P[3].i = i
  <2>1. Event("loading", i) \in Frame /\ Event("progress", i) \in Frame
    BY <1>1, EventFrame DEF Events
  <2>2. Step("bodyDone", i) \in Frame
    BY <1>1, StepFrame DEF Pieces
  <2>3. /\ P \in Seq(Frame) /\ Len(P) = 3
        /\ P[1] = Event("loading", i) /\ P[2] = Event("progress", i)
        /\ P[3] = Step("bodyDone", i)
    BY <1>P, <2>1, <2>2
  <2>4. /\ \A ev : Event(ev, i).fn = "dispatch" /\ Event(ev, i).ev = ev
        /\ Step("bodyDone", i).fn = "bodyDone" /\ Step("bodyDone", i).i = i
    BY DEF Event, Step
  <2> QED BY <2>3, <2>4
<1>s. Shifted(P, 1)
  BY <1>0, <1>1, <1>e, Replaced
<1>x. /\ x'.sendFlag = x.sendFlag /\ x'.controller = x.controller
      /\ x'.generation = x.generation /\ x'.async = x.async /\ x'.response = x.response
      /\ x' \in [readyState: UNSENT..DONE, async: BOOLEAN, sendFlag: BOOLEAN,
                 controller: 0..sends, timer: 0..sends, generation: Nat,
                 response: 0..sends]
  <2>1. LOADING \in UNSENT..DONE
    BY DEF LOADING, UNSENT, DONE
  <2> QED BY <1>0, <1>1, <2>1 DEF Types
<1>3. Types'
  <2>1. stack' \in Seq(Frame)
    BY <1>s DEF Shifted
  <2> QED BY <1>0, <1>1, <1>x, <2>1 DEF Types
<1>4. Generations' /\ Settlement'
  <2>1. \A k \in 1..Len(P) : ~(P[k].fn = "dispatch" /\ P[k].ev \in Final)
    BY <1>e DEF Final
  <2> QED BY <1>0, <1>s, <1>x, <2>1, InnerStep
<1>5. Work'
  <2>1. x'.sendFlag /\ x'.controller = i /\ net'[i] # "fetching"
    BY <1>0, <1>2, <1>x DEF Live
  <2>2. \A k \in 1..Len(P) : P[k].fn # "start"
    BY <1>e
  <2>3. \A k \in 1..Len(P) : P[k].fn \in Pieces =>
          /\ P[k].i = i
          /\ \A l \in 1..(k - 1) : Quiet(P[l], x'.async)
    <3>1. Quiet(P[1], x'.async) /\ Quiet(P[2], x'.async)
      BY <1>e DEF Quiet, QuietBody
    <3>2. ASSUME NEW k \in 1..Len(P), P[k].fn \in Pieces PROVE k = 3
      BY <1>e, <3>2 DEF Pieces
    <3> QED BY <1>e, <3>1, <3>2
  <2>4. \A m \in DOMAIN stack : m > 1 =>
          /\ stack[m].fn \notin Pieces
          /\ stack[m].fn = "start" => stack[m].i # i
    BY <1>0, <1>2, Below
  <2> QED BY <1>s, <2>1, <2>2, <2>3, <2>4, WorkBegins
<1>6. Starts'
  <2>1. \A m \in DOMAIN stack : m > 1 /\ stack[m].fn = "start" =>
          /\ x'.async
          /\ (x'.sendFlag /\ x'.controller = stack[m].i) \/ stack[m].i \in aborted'
    BY <1>0, <1>x, Below DEF Inv, Starts, Live
  <2>2. Starts /\ sends' >= sends /\ \A k \in 1..Len(P) : P[k].fn # "start"
    BY <1>0, <1>1, <1>e DEF Inv
  <2> QED BY <2>1, <2>2, <1>0, <1>1, <1>s, StartsKept
<1>7. ResponseIsOfLastRequest'
  BY <1>0, <1>x DEF Inv, ResponseIsOfLastRequest
<1> QED BY <1>3, <1>4, <1>5, <1>6, <1>7 DEF Inv

\* The end of a body, or of a request that failed.
LEMMA EndStep ==
  ASSUME Inv, NEW f \in {"bodyDone", "networkError"}, Running(f),
         NEW o \in {"load", "error"}, NEW i, i = top.i,
         NEW response \in {0, x.response},
         timers' = timers \ {x.timer},
         x' = [x EXCEPT !.sendFlag = FALSE, !.timer = 0, !.response = response,
                        !.readyState = DONE],
         stack' = <<Event("done", i), Event(o, i), Event("loadend", i)>> \o Tail(stack),
         UNCHANGED <<gen, net, aborted, sends, outcome, replaced>>
  PROVE  Inv'
<1> USE XhrAssumption
<1>1. /\ Types /\ stack \in Seq(Frame) /\ stack # <<>> /\ 1 \in DOMAIN stack
      /\ stack[1].fn = f /\ stack[1].i = i /\ sends \in Nat
  <2>1. Types
    BY DEF Inv
  <2>2. sends \in Nat
    BY <2>1 DEF Types
  <2> QED BY <2>1, <2>2, Top
<1>2. /\ Live(i) /\ net[i] # "fetching"
      /\ \A l \in DOMAIN stack : stack[l].fn = "start" => stack[l].i # i
  BY <1>1 DEF Inv, Work, Pieces
<1>3. i \in 1..sends /\ i \in 1..MaxSends
  <2>1. i = sends /\ sends > 0
    BY <1>2 DEF Inv, Generations, Live
  <2> QED BY <1>1, <2>1 DEF Types
<1>4. "done" \in Events \ Final /\ o \in Outcomes
  BY DEF Events, Final, Outcomes
<1>P. PICK P : P = <<Event("done", i), Event(o, i), Event("loadend", i)>>
  OBVIOUS
<1>5. P \in Seq(Frame)
  <2>1. i \in 0..MaxSends
    BY <1>3
  <2>2. "done" \in Events /\ o \in Events /\ "loadend" \in Events
    BY DEF Events, Final
  <2>3. \A ev \in Events : Event(ev, i) \in Frame
    BY <2>1, EventFrame
  <2>4. /\ Event("done", i) \in Frame /\ Event(o, i) \in Frame
        /\ Event("loadend", i) \in Frame
    BY <2>2, <2>3
  <2> QED BY <1>P, <2>4
<1>6. Shifted(P, 1)
  BY <1>1, <1>5, <1>P, Replaced
<1>s. Shifted(<<Event("done", i), Event(o, i), Event("loadend", i)>>, 1)
  BY <1>6, <1>P
<1>x. /\ x'.sendFlag = FALSE /\ x'.controller = x.controller
      /\ x'.generation = x.generation /\ x'.async = x.async
      /\ x'.response \in {0, x.response}
      /\ x' \in [readyState: UNSENT..DONE, async: BOOLEAN, sendFlag: BOOLEAN,
                 controller: 0..sends, timer: 0..sends, generation: Nat,
                 response: 0..sends]
  <2>1. DONE \in UNSENT..DONE /\ response \in 0..sends /\ 0 \in 0..sends
    BY <1>1 DEF UNSENT, DONE, Types
  <2>2. ASSUME NEW b \in BOOLEAN, b = FALSE,
               x' = [x EXCEPT !.sendFlag = b, !.timer = 0, !.response = response,
                              !.readyState = DONE]
        PROVE  /\ x'.sendFlag = b /\ x'.controller = x.controller
               /\ x'.generation = x.generation /\ x'.async = x.async
               /\ x'.response = response
               /\ x' \in [readyState: UNSENT..DONE, async: BOOLEAN, sendFlag: BOOLEAN,
                          controller: 0..sends, timer: 0..sends, generation: Nat,
                          response: 0..sends]
    BY <1>1, <2>1, <2>2 DEF Types
  <2> QED BY <2>2
<1>7. Types'
  <2>1. stack' \in Seq(Frame)
    BY <1>6 DEF Shifted
  <2>2. timers' \subseteq 1..sends
    BY <1>1 DEF Types
  <2> QED BY <1>1, <1>x, <2>1, <2>2 DEF Types
<1>8. \A m \in DOMAIN stack : m > 1 =>
        /\ stack[m].fn \notin Pieces
        /\ stack[m].fn = "start" => x.async /\ stack[m].i \in aborted'
  <2>1. \A m \in DOMAIN stack : stack[m].fn = "start" => stack[m].i \in aborted
    BY <1>2 DEF Inv, Starts, Live
  <2> QED BY <2>1, Below
<1>9. \A j \in Requests : net[j] = "fetching" => j \in aborted'
  BY <1>2 DEF Inv, ResponseIsOfLastRequest, Live
<1>10. x'.generation >= x.generation
  BY <1>1, <1>x DEF Types
<1> QED BY <1>1, <1>2, <1>3, <1>4, <1>s, <1>x, <1>7, <1>8, <1>9, <1>10, FinishStep, ZenonT(60)

LEMMA EndSteps ==
  ASSUME Inv, acceptBodyDone \/ networkError
  PROVE  Inv'
<1>1. CASE acceptBodyDone
  <2>1. x \in [readyState: UNSENT..DONE, async: BOOLEAN, sendFlag: BOOLEAN,
               controller: 0..sends, timer: 0..sends, generation: Nat,
               response: 0..sends]
    BY DEF Inv, Types
  <2>2. [x EXCEPT !.sendFlag = FALSE, !.timer = 0, !.readyState = DONE]
          = [x EXCEPT !.sendFlag = FALSE, !.timer = 0, !.response = x.response,
                      !.readyState = DONE]
    BY <2>1
  <2>3. PICK i : i = top.i
    OBVIOUS
  <2>4. PICK response : response = x.response
    OBVIOUS
  <2>5. x' = [x EXCEPT !.sendFlag = FALSE, !.timer = 0, !.response = response,
                       !.readyState = DONE]
    BY <1>1, <2>2, <2>4 DEF acceptBodyDone
  <2> QED BY <1>1, <2>3, <2>4, <2>5, EndStep DEF acceptBodyDone, ClearTimeout
<1>2. CASE networkError
  <2>1. PICK i : i = top.i
    OBVIOUS
  <2> QED BY <1>2, <2>1, EndStep DEF networkError, ClearTimeout
<1> QED BY <1>1, <1>2

\* The frame on top is gone.
LEMMA Shorter ==
  ASSUME Shifted(<<>>, 1)
  PROVE  /\ DOMAIN stack = 1..Len(stack) /\ DOMAIN stack' = 1..(Len(stack) - 1)
         /\ Len(stack) \in Nat
         /\ \A k \in DOMAIN stack' : k + 1 \in DOMAIN stack /\ stack'[k] = stack[k + 1]
<1>1. /\ Len(stack) \in Nat /\ Len(stack') \in Nat /\ Len(stack') = Len(stack) - 1
      /\ DOMAIN stack = 1..Len(stack) /\ DOMAIN stack' = 1..Len(stack')
  BY DEF Shifted
<1>2. \A m \in 2..Len(stack) : stack'[m - 1] = stack[m]
  <2>1. \A m \in (1 + 1)..Len(stack) : stack'[m + Len(<<>>) - 1] = stack[m]
    BY DEF Shifted
  <2>2. \A m \in 2..Len(stack) : m + Len(<<>>) - 1 = m - 1
    BY <1>1
  <2> QED BY <2>1, <2>2
<1>3. ASSUME NEW k \in DOMAIN stack'
      PROVE  k + 1 \in DOMAIN stack /\ stack'[k] = stack[k + 1]
  <2>1. PICK m : m = k + 1
    OBVIOUS
  <2>2. m \in 2..Len(stack) /\ m - 1 = k
    BY <1>1, <2>1
  <2>3. stack'[m - 1] = stack[m]
    BY <1>2, <2>2
  <2> QED BY <1>1, <2>1, <2>2, <2>3
<1> QED BY <1>1, <1>3

\* An event that no handler of which calls the object leaves what is below it
\* on the stack as it is.
LEMMA WorkShorter ==
  ASSUME Inv, Shifted(<<>>, 1), UNCHANGED <<x, net>>
  PROVE  Work'
<1> SUFFICES ASSUME NEW k \in DOMAIN stack', stack'[k].fn \in Pieces
             PROVE  /\ x.sendFlag /\ x.controller = stack'[k].i
                    /\ net[stack'[k].i] # "fetching"
                    /\ \A l \in DOMAIN stack' :
                         stack'[l].fn = "start" => stack'[l].i # stack'[k].i
                    /\ \A l \in 1..(k - 1) : Quiet(stack'[l], x.async)
  BY DEF Work, Live
<1>1. PICK m : m = k + 1
  OBVIOUS
<1>2. /\ m \in DOMAIN stack /\ stack'[k] = stack[m]
      /\ \A l \in DOMAIN stack' : l + 1 \in DOMAIN stack /\ stack'[l] = stack[l + 1]
      /\ DOMAIN stack' = 1..(Len(stack) - 1) /\ Len(stack) \in Nat
  BY <1>1, Shorter
<1>3. /\ Live(stack[m].i) /\ net[stack[m].i] # "fetching"
      /\ \A l \in DOMAIN stack : stack[l].fn = "start" => stack[l].i # stack[m].i
      /\ \A l \in 1..(m - 1) : Quiet(stack[l], x.async)
  BY <1>2 DEF Inv, Work
<1>4. ASSUME NEW l \in 1..(k - 1) PROVE Quiet(stack'[l], x.async)
  <2>1. l \in DOMAIN stack' /\ l + 1 \in 1..(m - 1)
    BY <1>1, <1>2
  <2> QED BY <2>1, <1>2, <1>3
<1> QED BY <1>2, <1>3, <1>4 DEF Live

LEMMA StartsShorter ==
  ASSUME Inv, Shifted(<<>>, 1), UNCHANGED <<x, aborted, sends>>
  PROVE  Starts'
<1> SUFFICES ASSUME NEW k \in DOMAIN stack', stack'[k].fn = "start"
             PROVE  /\ stack'[k].i \in 1..sends
                    /\ Live(stack'[k].i) \/ stack'[k].i \in aborted
                    /\ x.async \/ /\ Live(stack'[k].i)
                                  /\ \A l \in 1..(k - 1) :
                                       /\ stack'[l].fn = "dispatch"
                                       /\ stack'[l].ev = "loadstart"
  BY DEF Starts, Live
<1>1. PICK m : m = k + 1
  OBVIOUS
<1>2. /\ m \in DOMAIN stack /\ stack'[k] = stack[m]
      /\ \A l \in DOMAIN stack' : l + 1 \in DOMAIN stack /\ stack'[l] = stack[l + 1]
      /\ DOMAIN stack' = 1..(Len(stack) - 1) /\ Len(stack) \in Nat
  BY <1>1, Shorter
<1>3. /\ stack[m].i \in 1..sends
      /\ Live(stack[m].i) \/ stack[m].i \in aborted
      /\ x.async \/ /\ Live(stack[m].i)
                    /\ \A l \in 1..(m - 1) : /\ stack[l].fn = "dispatch"
                                             /\ stack[l].ev = "loadstart"
  BY <1>2 DEF Inv, Starts
<1>4. ASSUME NEW l \in 1..(k - 1), ~x.async
      PROVE  stack'[l].fn = "dispatch" /\ stack'[l].ev = "loadstart"
  <2>1. l \in DOMAIN stack' /\ l + 1 \in 1..(m - 1)
    BY <1>1, <1>2
  <2> QED BY <2>1, <1>2, <1>3, <1>4
<1> QED BY <1>2, <1>3, <1>4

\* The history of a request takes its next final event.
LEMMA OutcomeAppended ==
  ASSUME NEW a \in Seq(Final), NEW ev \in Final, NEW b, b = Append(a, ev)
  PROVE  Appended(a, b, ev)
<1>1. ASSUME a = <<>> PROVE b = <<ev>>
  BY <1>1
<1>2. ASSUME NEW o \in Outcomes, a = <<o>> PROVE b = <<o, ev>>
  <2>1. b \in Seq(Final) /\ Len(b) = 2 /\ b[1] = o /\ b[2] = ev
    BY <1>2
  <2>2. <<o, ev>> \in Seq(Final) /\ Len(<<o, ev>>) = 2
    BY DEF Outcomes, Final
  <2>3. \A k \in 1..2 : b[k] = <<o, ev>>[k]
    BY <2>1
  <2> QED BY <2>1, <2>2, <2>3, SeqEqual
<1> QED BY <1>1, <1>2 DEF Appended

LEMMA DispatchStep ==
  ASSUME Inv, Dispatch
  PROVE  Inv'
<1> USE XhrAssumption
<1>f. PICK f : f = stack[1]
  OBVIOUS
<1>P. PICK P : P = IF Handled(f.ev) THEN <<Step("user", f.i)>> ELSE <<>>
  OBVIOUS
<1>1. /\ Types /\ stack \in Seq(Frame) /\ stack # <<>> /\ 1 \in DOMAIN stack
      /\ top = f /\ f.fn = "dispatch" /\ f.i \in 0..MaxSends /\ sends \in Nat
  <2>1. Types /\ Running("dispatch")
    BY DEF Inv, Dispatch
  <2>2. sends \in Nat
    BY <2>1 DEF Types
  <2> QED BY <1>f, <2>1, <2>2, Top
<1>0. /\ stack' = P \o Tail(stack)
      /\ outcome' = IF f.ev \in Final
                    THEN [outcome EXCEPT ![f.i] = Append(@, f.ev)] ELSE outcome
      /\ UNCHANGED <<x, gen, net, aborted, timers, sends, replaced>>
  BY <1>1, <1>P DEF Dispatch
<1>e. /\ P \in Seq(Frame)
      /\ \A k \in 1..Len(P) : P[k].fn = "user"
  <2>1. Step("user", f.i) \in Frame /\ Step("user", f.i).fn = "user"
    BY <1>1, StepFrame DEF Step
  <2>2. CASE Handled(f.ev)
    <3>1. P = <<Step("user", f.i)>>
      BY <1>P, <2>2
    <3> QED BY <2>1, <3>1
  <2>3. CASE ~Handled(f.ev)
    <3>1. P = <<>>
      BY <1>P, <2>3
    <3> QED BY <3>1
  <2> QED BY <2>2, <2>3
<1>s. Shifted(P, 1)
  BY <1>0, <1>1, <1>e, Replaced
<1>i. f.ev \in Final => f.i \in 1..sends /\ f.i \in Requests
  <2>1. f.ev \in Final => f.i \in 1..sends
    BY <1>1, <1>f DEF Inv, Settlement
  <2>2. 1..sends \subseteq Requests
    BY <1>1 DEF Types, Requests
  <2> QED BY <2>1, <2>2
<1>o. outcome \in [Requests -> Seq(Final)]
  BY <1>1 DEF Types
<1>2. Types'
  <2>1. stack' \in Seq(Frame)
    BY <1>s DEF Shifted
  <2>2. outcome' \in [Requests -> Seq(Final)]
    <3>1. CASE f.ev \in Final
      <4>1. Append(outcome[f.i], f.ev) \in Seq(Final)
        BY <3>1, <1>i, <1>o
      <4> QED BY <3>1, <4>1, <1>0, <1>o
    <3>2. CASE f.ev \notin Final
      BY <3>2, <1>0, <1>o
    <3> QED BY <3>1, <3>2
  <2> QED BY <1>0, <1>1, <2>1, <2>2 DEF Types
<1>3. Generations'
  <2>1. x.generation \in Nat
    BY <1>1 DEF Types
  <2> QED BY <1>0, <1>1, <2>1, GenerationsKept DEF Inv
<1>4. Settlement'
  <2>1. ASSUME NEW i \in Requests PROVE Settled(i)'
    <3>0. Settled(i) /\ \A k \in 1..Len(P) : ~FinalFor(P[k], i)
      BY <1>e DEF Inv, Settlement, FinalFor
    <3>1. CASE f.ev \in Final /\ f.i = i
      <4>1. IsFinal(1, i)
        BY <1>1, <1>f, <3>1 DEF IsFinal, FinalFor
      <4>2. ~(Live(i) \/ i \in replaced \/ i > sends)
        BY <1>1, <3>0, <4>1 DEF Settled, Idle
      <4>3. outcome[i] \in Seq(Final) /\ outcome'[i] = Append(outcome[i], f.ev)
        BY <3>1, <1>0, <1>o
      <4>4. Appended(outcome[i], outcome'[i], stack[1].ev)
        BY <3>1, <4>3, <1>f, OutcomeAppended
      <4>5. Paired(i)'
        BY <1>s, <3>0, <4>1, <4>4, PairedDispatch DEF Settled
      <4> QED BY <1>0, <4>2, <4>5 DEF Settled, Live
    <3>2. CASE ~(f.ev \in Final /\ f.i = i)
      <4>1. Apart(P, 1, i)
        BY <1>f, <3>0, <3>2 DEF Apart, FinalFor
      <4>2. outcome'[i] = outcome[i]
        BY <1>0, <1>o, <3>2
      <4>3. /\ (Live(i) \/ i \in replaced \/ i > sends)'
                 => Live(i) \/ i \in replaced \/ i > sends
            /\ Live(i)' => i \notin replaced'
        BY <1>0, <3>0 DEF Settled, Live
      <4> QED BY <1>s, <3>0, <4>1, <4>2, <4>3, SettledKept
    <3> QED BY <3>1, <3>2
  <2>2. Settlement /\ sends' = sends /\ sends' >= sends
    BY <1>0, <1>1 DEF Inv
  <2> QED BY <2>1, <2>2, <1>1, <1>e, <1>s, SettlementKept
<1>top. \A m \in DOMAIN stack : m > 1 => 1 \in 1..(m - 1)
  BY <1>1
<1>5. Work'
  <2>1. CASE Handled(f.ev)
    <3>1. ~Quiet(stack[1], x.async)
      BY <1>1, <1>f, <2>1 DEF Quiet, Handled
    <3>2. \A m \in DOMAIN stack : m > 1 => stack[m].fn \notin Pieces
      BY <3>1, <1>top DEF Inv, Work
    <3> QED BY <1>e, <1>s, <3>2, WorkGone DEF Pieces
  <2>2. CASE ~Handled(f.ev)
    <3>1. P = <<>>
      BY <1>P, <2>2
    <3> QED BY <1>0, <1>s, <3>1, WorkShorter
  <2> QED BY <2>1, <2>2
<1>6. Starts'
  <2>1. CASE Handled(f.ev)
    <3>1. ASSUME NEW m \in DOMAIN stack, m > 1, stack[m].fn = "start"
          PROVE  x.async /\ (Live(stack[m].i) \/ stack[m].i \in aborted)
      <4>1. Live(stack[m].i) \/ stack[m].i \in aborted
        BY <3>1 DEF Inv, Starts
      <4>2. x.async \/ f.ev = "loadstart"
        BY <3>1, <1>f, <1>top DEF Inv, Starts
      <4> QED BY <2>1, <4>1, <4>2 DEF Handled
    <3>2. Starts /\ sends' = sends /\ sends' >= sends
      BY <1>0, <1>1 DEF Inv
    <3> QED BY <3>1, <3>2, <1>0, <1>1, <1>e, <1>s, StartsKept DEF Live
  <2>2. CASE ~Handled(f.ev)
    <3>1. P = <<>>
      BY <1>P, <2>2
    <3> QED BY <1>0, <1>s, <3>1, StartsShorter
  <2> QED BY <2>1, <2>2
<1>7. ResponseIsOfLastRequest'
  BY <1>0 DEF Inv, ResponseIsOfLastRequest
<1> QED BY <1>2, <1>3, <1>4, <1>5, <1>6, <1>7 DEF Inv

-----------------------------------------------------------------------------
(* What arrives. *)

\* Only the request the object waits for has the generation of the object.
LEMMA CurrentIsLive ==
  ASSUME Inv, NEW i \in 1..sends, isCurrent(i)
  PROVE  Live(i)
<1>1. sends \in Nat /\ sends \in 1..sends /\ x.controller = sends /\ x.sendFlag
      /\ gen[sends] = x.generation /\ gen[i] = x.generation
  BY DEF Inv, Types, Generations, isCurrent
<1>2. i < sends => gen[i] < gen[sends]
  BY <1>1 DEF Inv, Generations
<1>3. x.generation \in Nat
  BY DEF Inv, Types
<1>4. i = sends
  BY <1>1, <1>2, <1>3
<1> QED BY <1>1, <1>4 DEF Live

\* A task begins.
LEMMA Begun ==
  ASSUME stack = <<>>, NEW P \in Seq(Frame), stack' = P
  PROVE  Shifted(P, 0)
<1>1. stack' = P \o stack /\ stack \in Seq(Frame)
  BY ConcatEmptySeq
<1> QED BY <1>1, Pushed

\* An answer to a request nobody waits for is ignored; any other begins the
\* part that accepts it.
LEMMA ArriveStep ==
  ASSUME Inv, NEW i \in Requests, stack = <<>>,
         net[i] \in {"fetching", "answered"}, NEW v \in {"answered", "over"},
         net' = [net EXCEPT ![i] = v], NEW f \in Pieces,
         stack' = IF isCurrent(i) THEN <<Step(f, i)>> ELSE <<>>,
         UNCHANGED <<x, gen, aborted, timers, sends, outcome, replaced>>
  PROVE  Inv'
<1> USE XhrAssumption
<1>1. Types /\ sends \in Nat /\ i \in 1..sends /\ i \in 0..MaxSends
  <2>1. Types
    BY DEF Inv
  <2>2. sends \in Nat /\ i <= sends
    BY <2>1 DEF Types
  <2> QED BY <2>1, <2>2 DEF Requests
<1>P. PICK P : P = IF isCurrent(i) THEN <<Step(f, i)>> ELSE <<>>
  OBVIOUS
<1>e. /\ P \in Seq(Frame) /\ \A k \in 1..Len(P) : k = 1 /\ P[k].fn = f /\ P[k].i = i
      /\ ~isCurrent(i) => P = <<>>
  <2>1. Step(f, i) \in Frame /\ Step(f, i).fn = f /\ Step(f, i).i = i
    BY <1>1, StepFrame DEF Step
  <2>2. CASE isCurrent(i)
    <3>1. P = <<Step(f, i)>>
      BY <1>P, <2>2
    <3>2. P \in Seq(Frame) /\ Len(P) = 1 /\ P[1] = Step(f, i)
      BY <2>1, <3>1
    <3> QED BY <2>1, <2>2, <3>2
  <2>3. CASE ~isCurrent(i)
    <3>1. P = <<>>
      BY <1>P, <2>3
    <3> QED BY <3>1
  <2> QED BY <2>2, <2>3
<1>s. Shifted(P, 0)
  BY <1>P, <1>e, Begun
<1>n. /\ f # "dispatch" /\ f # "start" /\ net'[i] = v /\ v # "fetching"
      /\ \A j \in Requests : j # i => net'[j] = net[j]
  BY <1>1 DEF Pieces, Types
<1>2. Types'
  <2>1. stack' \in Seq(Frame)
    BY <1>s DEF Shifted
  <2>2. /\ net' \in [Requests -> {"none", "fetching", "answered", "over"}]
        /\ \A j \in Requests : net'[j] # "none" => j <= sends
    BY <1>1 DEF Types
  <2> QED BY <1>1, <2>1, <2>2 DEF Types
<1>3. Generations'
  <2>1. x.generation \in Nat
    BY <1>1 DEF Types
  <2> QED BY <1>1, <2>1, GenerationsKept DEF Inv
<1>4. Settlement'
  <2>1. ASSUME NEW j \in Requests PROVE Settled(j)'
    <3>1. Apart(P, 0, j)
      BY <1>e, <1>n DEF Apart, FinalFor
    <3>2. Settled(j) /\ (Live(j)' => Live(j))
      BY DEF Inv, Settlement, Live
    <3> QED BY <1>s, <3>1, <3>2, SettledKept DEF Settled
  <2>2. Settlement /\ sends' >= sends
    BY <1>1 DEF Inv
  <2> QED BY <2>1, <2>2, <1>1, <1>e, <1>n, <1>s, SettlementKept
<1>none. \A m : m \notin DOMAIN stack
  OBVIOUS
<1>5. Work'
  <2>1. CASE isCurrent(i)
    <3>1. x'.sendFlag /\ x'.controller = i
      BY <1>1, <2>1, CurrentIsLive DEF Live
    <3>2. \A k \in 1..Len(P) : \A l \in 1..(k - 1) : Quiet(P[l], x'.async)
      BY <1>e
    <3> QED BY <1>e, <1>n, <1>s, <1>none, <3>1, <3>2, WorkBegins
  <2>2. CASE ~isCurrent(i)
    BY <2>2, <1>e, <1>s, <1>none, WorkGone
  <2> QED BY <2>1, <2>2
<1>6. Starts'
  <2>1. Starts /\ sends' >= sends /\ \A k \in 1..Len(P) : P[k].fn # "start"
    BY <1>1, <1>e, <1>n DEF Inv
  <2> QED BY <2>1, <1>1, <1>none, <1>s, StartsKept
<1>7. ResponseIsOfLastRequest'
  BY <1>n DEF Inv, ResponseIsOfLastRequest
<1> QED BY <1>2, <1>3, <1>4, <1>5, <1>6, <1>7 DEF Inv

LEMMA AnswerStep ==
  ASSUME Inv, NEW i \in Requests, Answer(i)
  PROVE  Inv'
<1>0. "headers" \in Pieces /\ "body" \in Pieces /\ "networkError" \in Pieces
  BY DEF Pieces
<1>1. CASE FetchResolves(i)
  <2>1. PICK v \in {"answered", "over"} : net' = [net EXCEPT ![i] = v]
    BY <1>1 DEF FetchResolves
  <2> QED BY <1>0, <1>1, <2>1, ArriveStep DEF FetchResolves
<1>2. CASE FetchRejects(i)
  BY <1>0, <1>2, ArriveStep DEF FetchRejects
<1>3. CASE BodyArrives(i)
  BY <1>0, <1>3, ArriveStep DEF BodyArrives
<1> QED BY <1>1, <1>2, <1>3 DEF Answer

LEMMA TimeoutStep ==
  ASSUME Inv, NEW i \in Requests, handleTimeout(i)
  PROVE  Inv'
<1> USE XhrAssumption
<1>0. /\ stack = <<>> /\ i \in timers
      /\ UNCHANGED <<gen, net, sends, outcome, replaced>>
  BY DEF handleTimeout
<1>1. Types /\ sends \in Nat /\ i \in 1..sends /\ i \in 1..MaxSends
      /\ timers \subseteq 1..sends /\ x.generation \in Nat
  <2>1. Types
    BY DEF Inv
  <2>2. sends \in Nat /\ timers \subseteq 1..sends
    BY <2>1 DEF Types
  <2>3. x.generation \in Nat
    BY <2>1 DEF Types
  <2> QED BY <1>0, <2>1, <2>2, <2>3 DEF Requests
<1>2. CASE ~isCurrent(i)
  <2>1. timers' = timers \ {i} /\ UNCHANGED <<x, aborted, stack>>
    BY <1>2 DEF handleTimeout
  <2>2. Types'
    BY <1>0, <1>1, <2>1 DEF Types
  <2>3. Generations'
    BY <1>0, <1>1, <2>1, GenerationsKept DEF Inv
  <2>4. Settlement'
    BY <1>0, <2>1 DEF Inv, Settlement, Settled, Paired, Idle, IsFinal, Live
  <2>5. Work' /\ Starts'
    BY <1>0, <2>1 DEF Work, Starts
  <2>6. ResponseIsOfLastRequest'
    BY <1>0, <2>1 DEF Inv, ResponseIsOfLastRequest
  <2> QED BY <2>2, <2>3, <2>4, <2>5, <2>6 DEF Inv
<1>3. CASE isCurrent(i)
  <2>1. PICK P : P = <<Event("done", i), Event("timeout", i), Event("loadend", i)>>
    OBVIOUS
  <2>2. /\ timers' = timers \ {i, x.timer} /\ aborted' = Cancelled /\ stack' = P
        /\ x' = [x EXCEPT !.generation = @ + 1, !.sendFlag = FALSE, !.timer = 0,
                          !.response = 0, !.readyState = DONE]
    BY <1>3, <2>1 DEF handleTimeout
  <2>3. "done" \in Events \ Final /\ "timeout" \in Outcomes
    BY DEF Events, Final, Outcomes
  <2>4. P \in Seq(Frame)
    <3>1. i \in 0..MaxSends
      BY <1>1
    <3>2. "done" \in Events /\ "timeout" \in Events /\ "loadend" \in Events
      BY DEF Events, Final
    <3>3. \A ev \in Events : Event(ev, i) \in Frame
      BY <3>1, EventFrame
    <3>4. /\ Event("done", i) \in Frame /\ Event("timeout", i) \in Frame
          /\ Event("loadend", i) \in Frame
      BY <3>2, <3>3
    <3> QED BY <2>1, <3>4
  <2>5. Shifted(P, 0)
    BY <1>0, <2>2, <2>4, Begun
  <2>s. Shifted(<<Event("done", i), Event("timeout", i), Event("loadend", i)>>, 0)
    BY <2>1, <2>5
  <2>x. /\ x'.generation = x.generation + 1 /\ x'.async = x.async
        /\ x'.sendFlag = FALSE /\ x'.controller = x.controller /\ x'.response = 0
        /\ x' = [readyState |-> DONE, async |-> x.async, sendFlag |-> FALSE,
                 controller |-> x.controller, timer |-> 0,
                 generation |-> x.generation + 1, response |-> 0]
    BY <1>1, <2>2 DEF Types
  <2>a. /\ aborted' \subseteq 1..sends
        /\ \A j \in Requests : net[j] = "fetching" => j \in aborted'
    BY <2>2, CancelledLive
  <2>6. Types'
    <3>1. x.async \in BOOLEAN /\ x.controller \in 0..sends
      BY <1>1 DEF Types
    <3>2. x' \in [readyState: UNSENT..DONE, async: BOOLEAN, sendFlag: BOOLEAN,
                  controller: 0..sends, timer: 0..sends, generation: Nat,
                  response: 0..sends]
      BY <1>1, <2>x, <3>1 DEF UNSENT, DONE
    <3>3. timers' \subseteq 1..sends /\ stack' \in Seq(Frame)
      BY <1>1, <2>2, <2>4
    <3> QED BY <1>0, <1>1, <2>a, <3>2, <3>3 DEF Types
  <2>7. Live(i)
    BY <1>1, <1>3, CurrentIsLive
  <2>8. x'.generation >= x.generation /\ \A m : m \notin DOMAIN stack
    BY <1>0, <1>1, <2>x
  <2> QED BY <1>0, <1>1, <2>3, <2>s, <2>x, <2>a, <2>6, <2>7, <2>8, FinishStep
<1> QED BY <1>2, <1>3

-----------------------------------------------------------------------------
(* The theorems. *)

LEMMA InitInv ==
  ASSUME Init
  PROVE  Inv
<1> USE XhrAssumption DEF Init
<1>1. Types
  <2>1. ASSUME NEW b \in BOOLEAN, NEW c \in BOOLEAN
        PROVE  [readyState |-> UNSENT, async |-> b, sendFlag |-> c, controller |-> 0,
                timer |-> 0, generation |-> 0, response |-> 0]
               \in [readyState: UNSENT..DONE, async: BOOLEAN, sendFlag: BOOLEAN,
                    controller: 0..0, timer: 0..0, generation: Nat, response: 0..0]
    BY DEF UNSENT, DONE
  <2>2. x \in [readyState: UNSENT..DONE, async: BOOLEAN, sendFlag: BOOLEAN,
               controller: 0..0, timer: 0..0, generation: Nat, response: 0..0]
    BY <2>1
  <2>3. gen \in [Requests -> Nat] /\ outcome \in [Requests -> Seq(Final)]
    OBVIOUS
  <2>4. stack \in Seq(Frame) /\ sends = 0
    OBVIOUS
  <2>5. /\ net \in [Requests -> {"none", "fetching", "answered", "over"}]
        /\ \A i \in Requests : net[i] = "none"
    OBVIOUS
  <2> QED BY <2>2, <2>3, <2>4, <2>5 DEF Types
<1>2. Generations
  BY DEF Generations
<1>3. Settlement
  BY DEF Settlement, Settled, Paired, Idle
<1>4. Work /\ Starts
  BY DEF Work, Starts
<1>5. ResponseIsOfLastRequest
  BY DEF ResponseIsOfLastRequest
<1> QED BY <1>1, <1>2, <1>3, <1>4, <1>5 DEF Inv

LEMMA InvStep ==
  ASSUME QuietBody, Inv, [Next]_vars
  PROVE  Inv'
<1>1. CASE \E async \in Modes : Open(async)
  BY <1>1, OpenStep
<1>2. CASE Send
  BY <1>2, SendStep
<1>3. CASE Abort
  BY <1>3, AbortStep
<1>4. CASE Proceed
  BY <1>4, StartStep, DispatchStep, HandlerReturnsStep, HeadersStep, BodyStep, EndSteps
     DEF Proceed
<1>5. CASE \E i \in Requests : Answer(i) \/ handleTimeout(i)
  BY <1>5, AnswerStep, TimeoutStep
<1>6. CASE UNCHANGED vars
  <2>1. UNCHANGED <<x, gen, net, aborted, timers, stack, sends, outcome, replaced>>
    BY <1>6 DEF vars
  <2>2. Types' /\ Generations' /\ ResponseIsOfLastRequest'
    BY <2>1 DEF Inv, Types, Generations, ResponseIsOfLastRequest
  <2>3. Settlement'
    BY <2>1 DEF Inv, Settlement, Settled, Paired, Idle, IsFinal, Live
  <2>4. Work' /\ Starts'
    BY <2>1 DEF Inv, Work, Starts, Live
  <2> QED BY <2>2, <2>3, <2>4 DEF Inv
<1> QED BY <1>1, <1>2, <1>3, <1>4, <1>5, <1>6 DEF Next

LEMMA InvariantHolds ==
  ASSUME QuietBody
  PROVE  Spec => []Inv
<1>1. Init => Inv
  BY InitInv
<1>2. Inv /\ [Next]_vars => Inv'
  BY InvStep
<1> QED BY <1>1, <1>2, PTL DEF Spec

\* A request has one outcome and loadend after it, and none when open()
\* replaced it: whatever the handlers of its events, late answers, timeouts
\* and abort() do, for any number of requests.
THEOREM OneOutcomeHolds ==
  ASSUME QuietBody
  PROVE  Spec => []OneOutcome
<1>1. ASSUME Inv PROVE OneOutcome
  <2>1. Types
    BY <1>1 DEF Inv
  <2>2. XhrTypeOK
    <3>1. x.readyState \in UNSENT..DONE /\ x.generation \in Nat
          /\ {x.controller, x.timer, x.response} \subseteq 0..sends
      BY <2>1 DEF Types
    <3> QED BY <2>1, <3>1 DEF XhrTypeOK, Types
  <2>3. ASSUME NEW i \in Requests
        PROVE  /\ i \in replaced => outcome[i] = <<>>
               /\ Len(outcome[i]) <= 2
               /\ outcome[i] # <<>> => outcome[i][1] # "loadend"
               /\ Len(outcome[i]) = 2 => outcome[i][2] = "loadend"
    <3>1. Paired(i) /\ (i \in replaced => Idle(i))
      BY <1>1 DEF Inv, Settlement, Settled
    <3>2. \A o \in Outcomes : o # "loadend"
      BY DEF Outcomes
    <3>3. i \in replaced => outcome[i] = <<>>
      BY <3>1 DEF Idle
    <3>4. CASE outcome[i] = <<>>
      BY <3>3, <3>4
    <3>5. ASSUME NEW o \in Outcomes, outcome[i] = <<o>>
          PROVE  Len(outcome[i]) = 1 /\ outcome[i][1] # "loadend"
      BY <3>2, <3>5
    <3>6. ASSUME NEW o \in Outcomes, outcome[i] = <<o, "loadend">>
          PROVE  /\ Len(outcome[i]) = 2 /\ outcome[i][1] # "loadend"
                 /\ outcome[i][2] = "loadend"
      BY <3>2, <3>6
    <3>7. CASE \E o \in Outcomes : outcome[i] = <<o>>
      <4>1. Len(outcome[i]) = 1 /\ outcome[i][1] # "loadend"
        BY <3>5, <3>7
      <4> QED BY <3>3, <4>1
    <3>8. CASE \E o \in Outcomes : outcome[i] = <<o, "loadend">>
      <4>1. /\ Len(outcome[i]) = 2 /\ outcome[i][1] # "loadend"
            /\ outcome[i][2] = "loadend"
        BY <3>6, <3>8
      <4> QED BY <3>3, <4>1
    <3> QED BY <3>1, <3>4, <3>7, <3>8 DEF Paired
  <2> QED BY <2>2, <2>3 DEF OneOutcome
<1>2. Spec => []Inv
  BY InvariantHolds
<1> QED BY <1>1, <1>2, PTL

\* The response an object shows is that of its last request, and a request
\* nobody waits for any more has been cancelled: isCurrent() compares
\* generations, of which every send(), open(), abort() and timeout takes a
\* new one.
THEOREM ResponseOfLastHolds ==
  ASSUME QuietBody
  PROVE  Spec => []ResponseIsOfLastRequest
<1>1. Inv => ResponseIsOfLastRequest
  BY DEF Inv
<1>2. Spec => []Inv
  BY InvariantHolds
<1> QED BY <1>1, <1>2, PTL
=============================================================================
