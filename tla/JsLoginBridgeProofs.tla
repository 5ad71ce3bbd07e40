------------------------ MODULE JsLoginBridgeProofs ------------------------
(***************************************************************************)
(* The login bridge, for any number of objects, of calls of open() and of  *)
(* calls of fetch(), retries with one object and listeners that were there *)
(* before open() included: what the theme is not shown and where the       *)
(* document goes.                                                          *)
(***************************************************************************)
EXTENDS JsLoginBridge, SequenceTheorems, TLAPS

EventNames == {"readystatechange", "progress", "load", "loadend", "error"}
Phases == {"unsent", "opened", "sent", "headers", "loading", "done"}
Places == {"/admin/dashboard", "/login/verify"}
Attempts == (Objects \cup Fetches) \X Nat

Object ==
  [phase : Phases, opens : Nat, login : BOOLEAN, handled : BOOLEAN,
   navigating : BOOLEAN, overridden : BOOLEAN, type : Types, answer : Answers,
   events : Seq(EventNames), listeners : Seq(Nat)]

\* The bridge listens to an attempt to log in.
Bridged(st) == st.login => st.opens >= 1 /\ Own(st) # {}

\* What the bridge has noted belongs to the object's last request, once it is
\* over, and a success is settled by then.
Noted(st) ==
  /\ ~st.login \/ st.phase # "done" => ~st.handled /\ ~st.navigating /\ ~st.overridden
  /\ st.handled /\ Success(StatusOf(st.answer)) => st.navigating \/ st.overridden
  /\ st.navigating => st.handled
  /\ st.phase \in {"unsent", "opened", "sent"} => st.answer = "network"

\* An event that the bridge does not listen to comes of a failure only.
Announced(st) ==
  st.phase = "done" =>
    \A i \in DOMAIN st.events : st.events[i] \in BridgeEvents \/ st.answer = "network"

Sound(st) == Bridged(st) /\ Noted(st) /\ Announced(st)

\* What the server grants the object's last request is known.
Granted(o, st, g) ==
  st.login /\ st.phase = "done" => Grants(Attempt(o, st.opens), st.answer) \subseteq g

\* The document has been left for this attempt: an earlier request of an
\* object, its last one, or a call of fetch().
LeftBy(by) ==
  \/ \E o \in Objects :
       /\ by = Attempt(o, by[2]) /\ by[2] \in 1..xhr[o].opens
       /\ by[2] = xhr[o].opens => xhr[o].navigating
  \/ \E f \in Fetches : by = FetchAttempt(f) /\ fetch[f] = "forever"

ObjectsInv ==
  /\ xhr \in [Objects -> Object]
  /\ \A o \in Objects : Sound(xhr[o]) /\ Granted(o, xhr[o], granted)

NavInv ==
  /\ nav \in Seq([to : Places, by : Attempts])
  /\ \A k \in DOMAIN nav : LeftBy(nav[k].by)
  /\ fetch \in [Fetches -> {"none", "sent", "error", "aborted", "forever"}]

SeenInv == SuccessIsHidden /\ OverrideEndsWithRequest

BridgeInv == ObjectsInv /\ NavInv /\ NavigationIsEarned /\ SeenInv

---------------------------------------------------------------------------
(* Where the document goes *)

\* What has been left stays left.
KeepsLeft == \A by \in Attempts : LeftBy(by) => LeftBy(by)'

LEMMA NavTyped ==
  ASSUME nav \in Seq([to : Places, by : Attempts]), NEW k \in DOMAIN nav
  PROVE  nav[k] \in [to : Places, by : Attempts] /\ nav[k].by \in Attempts
<1>1. nav[k] \in [to : Places, by : Attempts]
  <2> DEFINE S == [to : Places, by : Attempts]
  <2>1. nav \in Seq(S) /\ k \in 1..Len(nav)
    OBVIOUS
  <2> HIDE DEF S
  <2>2. nav[k] \in S
    BY <2>1, ElementOfSeq
  <2> QED
    BY <2>2 DEF S
<1>2. QED
  BY <1>1

LEMMA NavKept ==
  ASSUME NavInv, NavigationIsEarned, KeepsLeft, granted \subseteq granted',
         nav' = nav,
         fetch' \in [Fetches -> {"none", "sent", "error", "aborted", "forever"}]
  PROVE  NavInv' /\ NavigationIsEarned'
<1>1. ASSUME NEW k \in DOMAIN nav
      PROVE  LeftBy(nav[k].by)'
  <2>1. nav[k].by \in Attempts /\ LeftBy(nav[k].by)
    BY NavTyped DEF NavInv
  <2>2. PICK by \in Attempts : by = nav[k].by /\ LeftBy(by)
    BY <2>1
  <2>3. nav'[k].by = by
    BY <2>2
  <2>4. LeftBy(by)'
    BY <2>2 DEF KeepsLeft
  <2> QED
    BY <2>3, <2>4 DEF LeftBy
<1>2. \A k \in DOMAIN nav' : LeftBy(nav[k].by)'
  BY <1>1
<1>3. NavInv'
  BY <1>2 DEF NavInv
<1>4. NavigationIsEarned'
  BY DEF NavigationIsEarned
<1>5. QED
  BY <1>3, <1>4

\* The document is left for an attempt, for the first time.
LEMMA NavStep ==
  ASSUME NavInv, NavigationIsEarned, KeepsLeft, granted \subseteq granted',
         fetch' \in [Fetches -> {"none", "sent", "error", "aborted", "forever"}],
         NEW a \in {"session", "factors"}, NEW by \in Attempts,
         ~LeftBy(by), LeftBy(by)', [by |-> by, what |-> a] \in granted',
         nav' = Append(nav, [to |-> Target[a], by |-> by])
  PROVE  NavInv' /\ NavigationIsEarned'
<1> DEFINE n == Len(nav)
           place == [to |-> Target[a], by |-> by]
<1>1. nav \in Seq([to : Places, by : Attempts]) /\ n \in Nat /\ DOMAIN nav = 1..n
  BY DEF NavInv
<1>2. /\ place \in [to : Places, by : Attempts] /\ place.by = by
      /\ place.to = "/admin/dashboard" => a = "session"
      /\ place.to = "/login/verify" => a = "factors"
  BY DEF Target, Places
<1> HIDE DEF place
<1>3. nav' = Append(nav, place)
  BY DEF place
<1>4. /\ nav' \in Seq([to : Places, by : Attempts])
      /\ DOMAIN nav' = 1..(n + 1)
      /\ \A k \in 1..n : nav'[k] = nav[k]
      /\ nav'[n + 1] = place
  BY <1>1, <1>2, <1>3, AppendProperties
<1>5. \A k \in 1..n : nav[k].by \in Attempts /\ LeftBy(nav[k].by) /\ nav[k].by # by
  <2>1. \A k \in 1..n : nav[k].by \in Attempts
    BY <1>1, NavTyped
  <2>2. \A k \in 1..n : LeftBy(nav[k].by)
    BY <1>1, Zenon DEF NavInv
  <2>3. \A k \in 1..n : nav[k].by # by
    BY <2>2, Zenon
  <2> QED
    BY <2>1, <2>2, <2>3
<1>6. ASSUME NEW k \in 1..(n + 1)
      PROVE  LeftBy(nav[k].by)'
  <2>1. CASE k \in 1..n
    <3>1. PICK b \in Attempts : b = nav[k].by /\ LeftBy(b)
      BY <1>5, <2>1
    <3>2. nav'[k].by = b
      BY <1>4, <2>1, <3>1
    <3>3. LeftBy(b)'
      BY <3>1 DEF KeepsLeft
    <3> QED
      BY <3>2, <3>3 DEF LeftBy
  <2>2. CASE k = n + 1
    <3>1. nav'[k].by = by
      BY <1>2, <1>4, <2>2
    <3> QED
      BY <3>1 DEF LeftBy
  <2> QED
    BY <1>1, <2>1, <2>2
<1>7. ASSUME NEW k \in 1..(n + 1)
      PROVE  \E g \in granted' :
               /\ g.by = nav'[k].by
               /\ nav'[k].to = "/admin/dashboard" => g.what = "session"
               /\ nav'[k].to = "/login/verify" => g.what = "factors"
  <2>1. CASE k \in 1..n
    BY <1>1, <1>4, <2>1 DEF NavigationIsEarned
  <2>2. CASE k = n + 1
    <3> DEFINE g == [by |-> by, what |-> a]
    <3>1. g \in granted' /\ g.by = by /\ g.what = a
      OBVIOUS
    <3> HIDE DEF g
    <3> QED
      BY <1>2, <1>4, <2>2, <3>1
  <2> QED
    BY <1>1, <2>1, <2>2
<1>8. ASSUME NEW j \in 1..(n + 1), NEW k \in 1..(n + 1), nav'[j].by = nav'[k].by
      PROVE  j = k
  <2>1. CASE j \in 1..n /\ k \in 1..n
    BY <1>1, <1>4, <1>8, <2>1 DEF NavigationIsEarned
  <2>2. CASE ~(j \in 1..n /\ k \in 1..n)
    BY <1>1, <1>2, <1>4, <1>5, <1>8, <2>2
  <2> QED
    BY <2>1, <2>2
<1>9. QED
  <2>1. NavInv'
    BY <1>4, <1>6, Zenon DEF NavInv
  <2>2. NavigationIsEarned'
    BY <1>4, <1>7, <1>8 DEF NavigationIsEarned
  <2> QED
    BY <2>1, <2>2

---------------------------------------------------------------------------
(* The objects *)

LEMMA TailIsSeq ==
  ASSUME NEW S, NEW s \in Seq(S), s # <<>>
  PROVE  /\ Tail(s) \in Seq(S)
         /\ \A i \in DOMAIN Tail(s) : i + 1 \in DOMAIN s /\ Tail(s)[i] = s[i + 1]
         /\ 1 \in DOMAIN s /\ Head(s) = s[1] /\ Head(s) \in S
  BY HeadTailProperties

\* A step that changes one object; what it made the document leave for is not
\* taken back.
LEMMA ObjectStep ==
  ASSUME ObjectsInv, NEW o \in Objects, NEW new \in Object,
         Sound(new), Granted(o, new, granted'),
         xhr' = [xhr EXCEPT ![o] = new], fetch' = fetch,
         granted \subseteq granted',
         \/ new.opens = xhr[o].opens /\ (xhr[o].navigating => new.navigating)
         \/ new.opens > xhr[o].opens
  PROVE  ObjectsInv' /\ KeepsLeft
<1>1. xhr' \in [Objects -> Object] /\ xhr'[o] = new
  BY DEF ObjectsInv
<1>2. ASSUME NEW p \in Objects
      PROVE  Sound(xhr'[p]) /\ Granted(p, xhr'[p], granted')
  <2>1. CASE p = o
    BY <1>1, <2>1
  <2>2. CASE p # o
    BY <2>2 DEF ObjectsInv, Granted
  <2> QED
    BY <2>1, <2>2
<1>3. ASSUME NEW by \in Attempts, LeftBy(by)
      PROVE  LeftBy(by)'
  <2>1. CASE \E f \in Fetches : by = FetchAttempt(f) /\ fetch[f] = "forever"
    BY <2>1 DEF LeftBy, FetchAttempt
  <2>2. ASSUME NEW p \in Objects, by = Attempt(p, by[2]),
               by[2] \in 1..xhr[p].opens, by[2] = xhr[p].opens => xhr[p].navigating
        PROVE  LeftBy(by)'
    <3>1. CASE p # o
      <4>1. xhr'[p] = xhr[p]
        BY <3>1
      <4> QED
        BY <2>2, <4>1 DEF LeftBy, Attempt
    <3>2. CASE p = o
      <4>1. xhr[o].opens \in Nat /\ new.opens \in Nat
        BY DEF ObjectsInv, Object
      <4>2. by[2] \in 1..new.opens /\ (by[2] = new.opens => new.navigating)
        BY <2>2, <3>2, <4>1
      <4> QED
        BY <1>1, <2>2, <3>2, <4>2 DEF LeftBy, Attempt
    <3> QED
      BY <3>1, <3>2
  <2> QED
    BY <1>3, <2>1, <2>2 DEF LeftBy
<1>4. QED
  BY <1>1, <1>2, <1>3 DEF ObjectsInv, KeepsLeft

\* A step of the theme or of the network on one object.
LEMMA QuietStep ==
  ASSUME BridgeInv, NEW o \in Objects, NEW new \in Object,
         Sound(new), Granted(o, new, granted'),
         xhr' = [xhr EXCEPT ![o] = new], UNCHANGED <<fetch, nav, seen>>,
         granted \subseteq granted',
         \/ new.opens = xhr[o].opens /\ (xhr[o].navigating => new.navigating)
         \/ new.opens > xhr[o].opens
  PROVE  BridgeInv'
<1>1. ObjectsInv' /\ KeepsLeft
  BY ObjectStep DEF BridgeInv
<1>2. NavInv' /\ NavigationIsEarned'
  BY <1>1, NavKept DEF BridgeInv, NavInv
<1>3. SeenInv'
  BY DEF BridgeInv, SeenInv, SuccessIsHidden, OverrideEndsWithRequest
<1>4. QED
  BY <1>1, <1>2, <1>3 DEF BridgeInv

\* Every request that is not over, and is not heard of yet, is sound.
LEMMA UnderWay ==
  ASSUME NEW o, NEW st \in Object, NEW new \in Object, Sound(st), st.phase # "done",
         new.phase # "done", new.opens = st.opens, new.login = st.login,
         new.listeners = st.listeners, new.handled = st.handled,
         new.navigating = st.navigating, new.overridden = st.overridden,
         new.phase \in {"unsent", "opened", "sent"} => new.answer = "network"
  PROVE  Sound(new) /\ Granted(o, new, granted')
<1>1. Own(new) = Own(st)
  BY DEF Own, Current
<1>2. QED
  BY <1>1 DEF Sound, Bridged, Noted, Announced, Granted

LEMMA InitInv ==
  ASSUME Init
  PROVE  BridgeInv
<1>1. ASSUME NEW o \in Objects
      PROVE  xhr[o] \in Object /\ Sound(xhr[o]) /\ Granted(o, xhr[o], granted)
  <2>1. PICK early \in {<<>>, <<Theme>>} :
          xhr[o] = [NewObject EXCEPT !.listeners = early]
    BY DEF Init
  <2>2. early \in Seq(Nat)
    <3>1. <<>> \in Seq(Nat) /\ <<Theme>> \in Seq(Nat)
      BY DEF Theme
    <3> QED
      BY <3>1
  <2> DEFINE new == [phase |-> "unsent", opens |-> 0, login |-> FALSE,
                     handled |-> FALSE, navigating |-> FALSE, overridden |-> FALSE,
                     type |-> "text", answer |-> "network", events |-> <<>>,
                     listeners |-> early]
  <2>3. xhr[o] = new
    BY <2>1 DEF NewObject
  <2>4. new.events \in Seq(EventNames)
    OBVIOUS
  <2>5. /\ xhr[o] \in Object /\ xhr[o].phase = "unsent" /\ ~xhr[o].login
        /\ ~xhr[o].handled /\ ~xhr[o].navigating /\ ~xhr[o].overridden
        /\ xhr[o].answer = "network"
    BY <2>2, <2>3, <2>4 DEF Object, Phases, Types, Answers
  <2> QED
    BY <2>5 DEF Sound, Bridged, Noted, Announced, Granted
<1>2. xhr \in [Objects -> Object]
  <2>1. xhr = [o \in Objects |-> xhr[o]]
    BY DEF Init
  <2> QED
    BY <1>1, <2>1
<1>3. ObjectsInv
  BY <1>1, <1>2 DEF ObjectsInv
<1>4. NavInv /\ NavigationIsEarned /\ SeenInv
  BY DEF Init, NavInv, NavigationIsEarned, SeenInv, SuccessIsHidden,
         OverrideEndsWithRequest
<1>5. QED
  BY <1>3, <1>4 DEF BridgeInv

\* open() of a login puts the bridge's listener among those of the object.
LEMMA Listening ==
  ASSUME NEW a \in Seq(Nat), NEW n \in Nat, NEW c \in Seq(Nat)
  PROVE  /\ a \o <<n>> \o c \in Seq(Nat)
         /\ Len(a) + 1 \in DOMAIN (a \o <<n>> \o c)
         /\ (a \o <<n>> \o c)[Len(a) + 1] = n
<1> DEFINE b == a \o <<n>>
<1>1. b \in Seq(Nat) /\ Len(b) = Len(a) + 1 /\ b[Len(a) + 1] = n
  OBVIOUS
<1>2. Len(a) \in Nat /\ Len(c) \in Nat
  OBVIOUS
<1> HIDE DEF b
<1>3. /\ b \o c \in Seq(Nat)
      /\ Len(a) + 1 \in DOMAIN (b \o c)
      /\ (b \o c)[Len(a) + 1] = n
  BY <1>1, <1>2
<1>4. QED
  BY <1>3 DEF b

LEMMA OpenKeepsInv ==
  ASSUME BridgeInv, NEW o \in Objects, NEW login \in BOOLEAN, NEW again \in BOOLEAN,
         Open(o, login, again)
  PROVE  BridgeInv'
<1> DEFINE old == xhr[o]
           n == old.opens + 1
           added == old.listeners \o (IF login THEN <<n>> ELSE <<>>)
                                  \o (IF again THEN <<Theme>> ELSE <<>>)
<1>1. old \in Object /\ old.opens \in Nat /\ old.listeners \in Seq(Nat)
  BY DEF BridgeInv, ObjectsInv, Object
<1>2. PICK left \in {<<>>, old.events} :
        xhr' = [xhr EXCEPT ![o] =
          [Forgotten(old) EXCEPT !.phase = "opened", !.opens = n,
             !.login = login, !.type = "text", !.answer = "network",
             !.events = left, !.listeners = added]]
  BY <1>1 DEF Open, Forgotten, Object
<1>3. UNCHANGED <<fetch, nav, granted, seen>>
  BY DEF Open
<1>4. added \in Seq(Nat) /\ (login => \E k \in DOMAIN added : added[k] = n)
  <2> DEFINE c == IF again THEN <<Theme>> ELSE <<>>
  <2>1. c \in Seq(Nat) /\ n \in Nat
    BY <1>1 DEF Theme
  <2> HIDE DEF c
  <2>2. CASE login
    <3>1. added = old.listeners \o <<n>> \o c
      BY <2>2 DEF c
    <3> HIDE DEF added, n, old
    <3> QED
      BY <1>1, <2>1, <3>1, Listening
  <2>3. CASE ~login
    <3>1. added = old.listeners \o <<>> \o c
      BY <2>3 DEF c
    <3>2. old.listeners \o <<>> = old.listeners
      BY <1>1
    <3>3. old.listeners \o c \in Seq(Nat)
      BY <1>1, <2>1
    <3> QED
      BY <2>3, <3>1, <3>2, <3>3, Zenon
  <2> QED
    BY <2>2, <2>3
<1> DEFINE new == [Forgotten(old) EXCEPT !.phase = "opened", !.opens = n,
                     !.login = login, !.type = "text", !.answer = "network",
                     !.events = left, !.listeners = added]
<1>5. xhr' = [xhr EXCEPT ![o] = new]
  BY <1>2
<1>6. left \in Seq(EventNames)
  <2>1. <<>> \in Seq(EventNames) /\ old.events \in Seq(EventNames)
    BY <1>1 DEF Object
  <2> QED
    BY <2>1
<1> HIDE DEF added
<1>7. /\ new \in Object
      /\ new.phase = "opened" /\ new.opens = n /\ new.login = login
      /\ new.answer = "network" /\ new.listeners = added
      /\ ~new.handled /\ ~new.navigating /\ ~new.overridden
  <2> DEFINE base == Forgotten(old)
  <2>1. base \in Object /\ ~base.handled /\ ~base.navigating /\ ~base.overridden
    BY <1>1 DEF Object, Forgotten
  <2>2. n \in Nat /\ "opened" \in Phases /\ "text" \in Types /\ "network" \in Answers
    BY <1>1 DEF Phases, Types, Answers
  <2> HIDE DEF base, n
  <2>3. new = [base EXCEPT !.phase = "opened", !.opens = n,
                 !.login = login, !.type = "text", !.answer = "network",
                 !.events = left, !.listeners = added]
    BY DEF base
  <2> HIDE DEF new
  <2> QED
    BY <1>4, <1>6, <2>1, <2>2, <2>3 DEF Object
<1> HIDE DEF new
<1>8. Bridged(new)
  <2>1. ASSUME login
        PROVE  Own(new) # {}
    <3>1. PICK k \in DOMAIN new.listeners : new.listeners[k] = n
      BY <1>4, <1>7, <2>1
    <3>2. k \in Own(new)
      BY <1>1, <1>7, <2>1, <3>1 DEF Own, Current, Theme
    <3> QED
      BY <3>2
  <2> QED
    BY <1>1, <1>7, <2>1 DEF Bridged
<1>9. Sound(new) /\ Granted(o, new, granted')
  BY <1>7, <1>8 DEF Sound, Noted, Announced, Granted
<1>10. new.opens > xhr[o].opens
  BY <1>1, <1>7
<1>11. QED
  BY <1>3, <1>5, <1>7, <1>9, <1>10, QuietStep

LEMMA SendKeepsInv ==
  ASSUME BridgeInv, NEW o \in Objects, NEW type \in Types, Send(o, type)
  PROVE  BridgeInv'
<1> DEFINE st == xhr[o]
           new == [st EXCEPT !.phase = "sent", !.type = type]
<1>1. st \in Object /\ Sound(st) /\ st.phase = "opened"
  BY DEF BridgeInv, ObjectsInv, Send
<1>2. xhr' = [xhr EXCEPT ![o] = new] /\ UNCHANGED <<fetch, nav, granted, seen>>
  BY <1>1 DEF Send, Object, BridgeInv, ObjectsInv
<1>3. /\ new \in Object /\ new.phase = "sent"
      /\ new.opens = st.opens /\ new.login = st.login
      /\ new.listeners = st.listeners /\ new.handled = st.handled
      /\ new.navigating = st.navigating /\ new.overridden = st.overridden
      /\ new.answer = st.answer
  BY <1>1 DEF Object, Phases
<1>4. st.answer = "network"
  BY <1>1 DEF Sound, Noted
<1> HIDE DEF new
<1>5. Sound(new) /\ Granted(o, new, granted')
  BY <1>1, <1>3, <1>4, UnderWay
<1>6. QED
  BY <1>2, <1>3, <1>5, QuietStep

LEMMA HeadersKeepsInv ==
  ASSUME BridgeInv, NEW o \in Objects, NEW answer \in Answers, Headers(o, answer)
  PROVE  BridgeInv'
<1> DEFINE st == xhr[o]
           new == [st EXCEPT !.phase = "headers", !.answer = answer,
                             !.events = <<"readystatechange">>]
<1>1. st \in Object /\ Sound(st) /\ st.phase = "sent"
  BY DEF BridgeInv, ObjectsInv, Headers
<1>2. xhr' = [xhr EXCEPT ![o] = new] /\ UNCHANGED <<fetch, nav, granted, seen>>
  BY <1>1 DEF Headers, Object, BridgeInv, ObjectsInv
<1>3. <<"readystatechange">> \in Seq(EventNames)
  BY DEF EventNames
<1>4. /\ new \in Object /\ new.phase = "headers"
      /\ new.opens = st.opens /\ new.login = st.login
      /\ new.listeners = st.listeners /\ new.handled = st.handled
      /\ new.navigating = st.navigating /\ new.overridden = st.overridden
  BY <1>1, <1>3 DEF Object, Phases
<1> HIDE DEF new
<1>5. Sound(new) /\ Granted(o, new, granted')
  BY <1>1, <1>4, UnderWay
<1>6. QED
  BY <1>2, <1>4, <1>5, QuietStep

LEMMA LoadKeepsInv ==
  ASSUME BridgeInv, NEW o \in Objects, Load(o)
  PROVE  BridgeInv'
<1> DEFINE st == xhr[o]
           new == [st EXCEPT !.phase = "loading",
                             !.events = <<"readystatechange", "progress">>]
<1>1. st \in Object /\ Sound(st) /\ st.phase = "headers"
  BY DEF BridgeInv, ObjectsInv, Load
<1>2. xhr' = [xhr EXCEPT ![o] = new] /\ UNCHANGED <<fetch, nav, granted, seen>>
  BY <1>1 DEF Load, Object, BridgeInv, ObjectsInv
<1>3. <<"readystatechange", "progress">> \in Seq(EventNames)
  BY DEF EventNames
<1>4. /\ new \in Object /\ new.phase = "loading"
      /\ new.opens = st.opens /\ new.login = st.login
      /\ new.listeners = st.listeners /\ new.handled = st.handled
      /\ new.navigating = st.navigating /\ new.overridden = st.overridden
  BY <1>1, <1>3 DEF Object, Phases
<1> HIDE DEF new
<1>5. Sound(new) /\ Granted(o, new, granted')
  BY <1>1, <1>4, UnderWay
<1>6. QED
  BY <1>2, <1>4, <1>5, QuietStep

\* The end of a request: what the server grants with it is known from then on.
LEMMA OverKeepsInv ==
  ASSUME BridgeInv, NEW o \in Objects, NEW answer \in Answers,
         NEW events \in Seq(EventNames), Over(o, answer, events),
         xhr[o].phase \in {"sent", "headers", "loading"},
         \A i \in DOMAIN events : events[i] \in BridgeEvents \/ answer = "network"
  PROVE  BridgeInv'
<1> DEFINE st == xhr[o]
           new == [st EXCEPT !.phase = "done", !.answer = answer, !.events = events]
<1>1. st \in Object /\ Sound(st) /\ st.phase # "done"
  BY DEF BridgeInv, ObjectsInv
<1>2. xhr' = [xhr EXCEPT ![o] = new] /\ UNCHANGED <<fetch, nav, seen>>
  BY <1>1 DEF Over, Object, BridgeInv, ObjectsInv
<1>3. /\ new \in Object /\ new.phase = "done"
      /\ new.opens = st.opens /\ new.login = st.login
      /\ new.listeners = st.listeners /\ new.handled = st.handled
      /\ new.navigating = st.navigating /\ new.overridden = st.overridden
      /\ new.answer = answer /\ new.events = events
  BY <1>1 DEF Object, Phases
<1>4. /\ granted \subseteq granted'
      /\ st.login => Grants(Attempt(o, st.opens), answer) \subseteq granted'
  BY DEF Over
<1> HIDE DEF new
<1>5. Own(new) = Own(st)
  BY <1>3 DEF Own, Current
<1>6. Sound(new) /\ Granted(o, new, granted')
  BY <1>1, <1>3, <1>4, <1>5 DEF Sound, Bridged, Noted, Announced, Granted
<1>7. QED
  BY <1>2, <1>3, <1>4, <1>6, QuietStep

LEMMA FinishKeepsInv ==
  ASSUME BridgeInv, NEW o \in Objects, Finish(o)
  PROVE  BridgeInv'
<1> DEFINE events == <<"readystatechange", "load", "loadend">>
<1>1. events \in Seq(EventNames)
  BY DEF EventNames
<1>2. \A i \in DOMAIN events : events[i] \in BridgeEvents
  BY DEF BridgeEvents
<1>3. xhr[o].answer \in Answers
  BY DEF BridgeInv, ObjectsInv, Object
<1>4. /\ Over(o, xhr[o].answer, events)
      /\ xhr[o].phase \in {"sent", "headers", "loading"}
  BY DEF Finish
<1> HIDE DEF events
<1>5. QED
  BY <1>1, <1>2, <1>3, <1>4, OverKeepsInv

LEMMA FailKeepsInv ==
  ASSUME BridgeInv, NEW o \in Objects, Fail(o)
  PROVE  BridgeInv'
<1> DEFINE events == <<"readystatechange", "error", "loadend">>
<1>1. events \in Seq(EventNames) /\ "network" \in Answers
  BY DEF EventNames, Answers
<1>2. /\ Over(o, "network", events)
      /\ xhr[o].phase \in {"sent", "headers", "loading"}
  BY DEF Fail
<1> HIDE DEF events
<1>3. QED
  BY <1>1, <1>2, OverKeepsInv

---------------------------------------------------------------------------
(* Events *)

\* The bridge's listener settles a request the first time it acts on it.
LEMMA HandleNotes ==
  ASSUME NEW st \in Object, Sound(st), Own(st) # {}, st.phase = "done",
         NEW u, u = Handle(st)
  PROVE  /\ u \in Object
         /\ u.login = st.login /\ u.phase = st.phase /\ u.opens = st.opens
         /\ u.listeners = st.listeners /\ u.answer = st.answer
         /\ u.events = st.events /\ u.handled
         /\ u.navigating => st.answer \in {"session", "factors"}
         /\ Success(StatusOf(st.answer)) => u.navigating \/ u.overridden
         /\ st.login /\ st.opens >= 1
<1> DEFINE t == \/ st.type = "blob"
                \/ st.type = "text" /\ ~Parses(st.answer)
                \/ Success(StatusOf(st.answer)) /\ ~Finishes(st.answer)
<1>1. Accepted(st) \in BOOLEAN /\ t \in BOOLEAN
  BY DEF Accepted, Success, Finishes, Parses
<1>2. u = [st EXCEPT !.handled = TRUE, !.navigating = Accepted(st), !.overridden = t]
  BY DEF Handle
<1>3. Success(StatusOf(st.answer)) => Accepted(st) \/ t
  BY DEF Accepted
<1>4. Accepted(st) => st.answer \in {"session", "factors"}
  BY DEF Accepted, Finishes, Target
<1>5. st.login /\ st.opens >= 1
  BY DEF Own, Current, Sound, Bridged
<1> HIDE DEF t
<1>6. /\ u \in Object
      /\ u.login = st.login /\ u.phase = st.phase /\ u.opens = st.opens
      /\ u.listeners = st.listeners /\ u.answer = st.answer
      /\ u.events = st.events
      /\ u.handled /\ u.navigating = Accepted(st) /\ u.overridden = t
  BY <1>1, <1>2 DEF Object
<1> HIDE DEF Object
<1>7. QED
  BY <1>1, <1>3, <1>4, <1>5, <1>6

\* What an event makes of the object.
LEMMA AfterNotes ==
  ASSUME NEW st \in Object, Sound(st), NEW event, NEW u, u = After(st, event)
  PROVE  /\ u \in Object /\ Sound(u)
         /\ u.login = st.login /\ u.phase = st.phase /\ u.opens = st.opens
         /\ u.listeners = st.listeners /\ u.answer = st.answer
         /\ u.events = st.events
         /\ st.navigating => u.navigating
         /\ Acts(st, event) => u.handled
         /\ u.navigating /\ ~st.navigating =>
              /\ st.answer \in {"session", "factors"}
              /\ st.login /\ st.phase = "done" /\ st.opens >= 1
<1>1. CASE Acts(st, event) /\ ~st.handled
  <2>1. u = Handle(st) /\ Own(st) # {} /\ st.phase = "done"
    BY <1>1 DEF After, Acts
  <2>2. /\ u \in Object
        /\ u.login = st.login /\ u.phase = st.phase /\ u.opens = st.opens
        /\ u.listeners = st.listeners /\ u.answer = st.answer
        /\ u.events = st.events /\ u.handled
        /\ u.navigating => st.answer \in {"session", "factors"}
        /\ Success(StatusOf(st.answer)) => u.navigating \/ u.overridden
        /\ st.login /\ st.opens >= 1
    BY <2>1, HandleNotes
  <2>3. Own(u) = Own(st)
    BY <2>2 DEF Own, Current
  <2>4. Sound(u)
    BY <2>1, <2>2, <2>3 DEF Sound, Bridged, Noted, Announced
  <2>5. st.navigating => u.navigating
    BY <1>1 DEF Sound, Noted
  <2> QED
    BY <2>1, <2>2, <2>4, <2>5
<1>2. CASE ~(Acts(st, event) /\ ~st.handled)
  <2>1. u = st
    BY <1>2 DEF After
  <2> QED
    BY <1>2, <2>1
<1>3. QED
  BY <1>1, <1>2

LEMMA DispatchKeepsInv ==
  ASSUME BridgeInv, NEW o \in Objects, Dispatch(o)
  PROVE  BridgeInv'
<1> DEFINE st == xhr[o]
           event == Head(st.events)
           u == After(st, event)
           new == [u EXCEPT !.events = Tail(@)]
           by == Attempt(o, st.opens)
           Earlier(k) == \E b \in Own(st) : k < b
           told == {k \in DOMAIN st.listeners :
                      /\ st.listeners[k] = Theme
                      /\ Acts(st, event) /\ u.navigating => Earlier(k)}
           mark(k) == [by |-> by, login |-> st.login, finished |-> st.phase = "done",
                       earlier |-> Earlier(k), sent |-> StatusOf(st.answer),
                       status |-> Status(IF Earlier(k) THEN st ELSE u)]
<1>1. /\ st \in Object /\ Sound(st) /\ Granted(o, st, granted)
      /\ st.events # <<>> /\ st.events \in Seq(EventNames) /\ st.opens \in Nat
  BY DEF BridgeInv, ObjectsInv, Dispatch, Object
<1>2. /\ xhr' = [xhr EXCEPT ![o] = new]
      /\ nav' = IF u.navigating /\ ~st.navigating
                THEN Append(nav, [to |-> Target[st.answer], by |-> by]) ELSE nav
      /\ seen' = {mark(k) : k \in told}
      /\ UNCHANGED <<fetch, granted>>
  BY DEF Dispatch
<1>3. /\ u \in Object /\ Sound(u)
      /\ u.login = st.login /\ u.phase = st.phase /\ u.opens = st.opens
      /\ u.listeners = st.listeners /\ u.answer = st.answer
      /\ u.events = st.events
      /\ st.navigating => u.navigating
      /\ Acts(st, event) => u.handled
      /\ u.navigating /\ ~st.navigating =>
           /\ st.answer \in {"session", "factors"}
           /\ st.login /\ st.phase = "done" /\ st.opens >= 1
  BY <1>1, AfterNotes
<1>4. /\ Tail(st.events) \in Seq(EventNames)
      /\ \A i \in DOMAIN Tail(st.events) :
           i + 1 \in DOMAIN st.events /\ Tail(st.events)[i] = st.events[i + 1]
      /\ 1 \in DOMAIN st.events /\ event = st.events[1]
  BY <1>1, TailIsSeq
<1>5. u = st \/ Acts(st, event)
  BY DEF After
<1> HIDE DEF u
<1>6. /\ new \in Object
      /\ new.login = st.login /\ new.phase = st.phase /\ new.opens = st.opens
      /\ new.listeners = st.listeners /\ new.answer = st.answer
      /\ new.events = Tail(st.events)
      /\ new.handled = u.handled /\ new.navigating = u.navigating
      /\ new.overridden = u.overridden
  BY <1>3, <1>4 DEF Object
<1> HIDE DEF new
<1>7. Sound(new) /\ Granted(o, new, granted')
  <2>1. Own(new) = Own(u)
    BY <1>3, <1>6 DEF Own, Current
  <2>2. Bridged(new) /\ Noted(new)
    BY <1>3, <1>6, <2>1 DEF Sound, Bridged, Noted
  <2>3. Announced(new)
    BY <1>1, <1>4, <1>6 DEF Sound, Announced
  <2>4. Granted(o, new, granted')
    BY <1>1, <1>2, <1>6 DEF Granted
  <2> QED
    BY <2>2, <2>3, <2>4 DEF Sound
<1>8. ObjectsInv' /\ KeepsLeft
  BY <1>2, <1>3, <1>6, <1>7, ObjectStep DEF BridgeInv
<1>9. NavInv' /\ NavigationIsEarned'
  <2>1. CASE u.navigating /\ ~st.navigating
    <3>1. /\ st.answer \in {"session", "factors"}
          /\ st.login /\ st.phase = "done" /\ st.opens >= 1
      BY <1>3, <2>1
    <3>2. PICK b \in Attempts : b = by /\ b = Attempt(o, b[2]) /\ b[2] = st.opens
      <4>1. by \in Attempts /\ by = Attempt(o, by[2]) /\ by[2] = st.opens
        BY <1>1 DEF Attempt, Attempts
      <4> HIDE DEF by
      <4> QED
        BY <4>1
    <3>3. ~LeftBy(b)
      BY <1>1, <2>1, <3>1, <3>2 DEF LeftBy, Attempt, FetchAttempt
    <3>4. LeftBy(b)'
      <4>1. xhr'[o] = new
        BY <1>2 DEF BridgeInv, ObjectsInv
      <4>2. b[2] \in 1..xhr'[o].opens /\ xhr'[o].navigating
        <5> DEFINE n == st.opens
        <5>1. n \in Nat /\ n >= 1 /\ b[2] = n
          BY <1>1, <3>1, <3>2
        <5>2. xhr'[o].opens = n /\ xhr'[o].navigating
          BY <1>6, <2>1, <4>1
        <5> HIDE DEF n
        <5> QED
          BY <5>1, <5>2
      <4> QED
        BY <3>2, <4>2 DEF LeftBy, Attempt
    <3>5. [by |-> b, what |-> st.answer] \in granted'
      BY <1>1, <1>2, <3>1, <3>2 DEF Granted, Grants
    <3>6. nav' = Append(nav, [to |-> Target[st.answer], by |-> b])
      BY <1>2, <2>1, <3>2
    <3>7. PICK a \in {"session", "factors"} : a = st.answer
      BY <3>1
    <3> HIDE DEF st, by
    <3>8. /\ NavInv /\ NavigationIsEarned /\ KeepsLeft /\ granted \subseteq granted'
          /\ fetch' \in [Fetches -> {"none", "sent", "error", "aborted", "forever"}]
      BY <1>2, <1>8 DEF BridgeInv, NavInv
    <3>9. /\ [by |-> b, what |-> a] \in granted'
          /\ nav' = Append(nav, [to |-> Target[a], by |-> b])
      BY <3>5, <3>6, <3>7
    <3> QED
      BY <3>3, <3>4, <3>8, <3>9, NavStep
  <2>2. CASE ~(u.navigating /\ ~st.navigating)
    BY <1>2, <1>8, <2>2, NavKept DEF BridgeInv, NavInv
  <2> QED
    BY <2>1, <2>2
<1>10. ASSUME NEW k \in told
       PROVE  /\ st.login /\ st.phase = "done" /\ ~Earlier(k) => ~Success(Status(u))
              /\ ~st.login \/ st.phase # "done" =>
                    Status(IF Earlier(k) THEN st ELSE u) = StatusOf(st.answer)
  <2>1. ASSUME st.login, st.phase = "done", ~Earlier(k)
        PROVE  ~Success(Status(u))
    <3>1. CASE event \in BridgeEvents
      <4>1. Acts(st, event)
        BY <1>1, <2>1, <3>1 DEF Acts, Sound, Bridged
      <4>2. u.handled /\ ~u.navigating
        BY <1>3, <1>10, <2>1, <4>1
      <4> QED
        BY <1>3, <2>1, <4>2 DEF Sound, Noted, Status, Success
    <3>2. CASE event \notin BridgeEvents
      <4>1. st.answer = "network"
        BY <1>1, <1>4, <2>1, <3>2 DEF Sound, Announced
      <4> QED
        BY <1>3, <4>1 DEF Status, StatusOf, Success
    <3> QED
      BY <3>1, <3>2
  <2>2. ASSUME ~st.login \/ st.phase # "done"
        PROVE  Status(IF Earlier(k) THEN st ELSE u) = StatusOf(st.answer)
    <3>1. u = st
      BY <1>5, <2>2 DEF Acts, Own, Current
    <3>2. ~st.overridden
      BY <1>1, <2>2 DEF Sound, Noted
    <3>3. st.phase \in Phases
      BY <1>1 DEF Object
    <3>4. Status(st) = StatusOf(st.answer)
      BY <1>1, <3>2, <3>3 DEF Phases, Sound, Noted, Status, StatusOf
    <3> QED
      BY <3>1, <3>4
  <2> QED
    BY <2>1, <2>2
<1>11. SeenInv'
  <2>1. ASSUME NEW s \in seen'
        PROVE  /\ s.login /\ s.finished /\ ~s.earlier => ~Success(s.status)
               /\ ~s.login \/ ~s.finished => s.status = s.sent
    <3>1. PICK k \in told : s = mark(k)
      BY <1>2
    <3> DEFINE e == Earlier(k)
    <3>2. /\ s.login = st.login /\ s.finished = (st.phase = "done")
          /\ s.earlier = e /\ s.sent = StatusOf(st.answer)
          /\ s.status = Status(IF e THEN st ELSE u)
      BY <3>1
    <3>3. /\ st.login /\ st.phase = "done" /\ ~e => ~Success(Status(u))
          /\ ~st.login \/ st.phase # "done" =>
                Status(IF e THEN st ELSE u) = StatusOf(st.answer)
      BY <1>10
    <3> HIDE DEF e, st, event, told, mark
    <3>4. CASE e
      BY <3>2, <3>3, <3>4
    <3>5. CASE ~e
      BY <3>2, <3>3, <3>5
    <3> QED
      BY <3>4, <3>5
  <2> QED
    BY <2>1 DEF SeenInv, SuccessIsHidden, OverrideEndsWithRequest
<1>12. QED
  BY <1>8, <1>9, <1>11 DEF BridgeInv

---------------------------------------------------------------------------
(* fetch, and the theorems *)

LEMMA FetchAnsweredKeepsInv ==
  ASSUME BridgeInv, NEW f \in Fetches, NEW answer \in Answers,
         FetchAnswered(f, answer)
  PROVE  BridgeInv'
<1> DEFINE finishes == Success(StatusOf(answer)) /\ Finishes(answer)
           b == FetchAttempt(f)
<1>1. /\ fetch[f] = "sent" /\ UNCHANGED <<xhr, seen>>
      /\ fetch' = [fetch EXCEPT ![f] = IF finishes THEN "forever" ELSE "error"]
      /\ nav' = IF finishes THEN Append(nav, [to |-> Target[answer], by |-> b]) ELSE nav
      /\ granted' = granted \cup Grants(b, answer)
  BY DEF FetchAnswered
<1>2. /\ fetch \in [Fetches -> {"none", "sent", "error", "aborted", "forever"}]
      /\ fetch' \in [Fetches -> {"none", "sent", "error", "aborted", "forever"}]
  BY <1>1 DEF BridgeInv, NavInv
<1>3. ObjectsInv'
  BY <1>1 DEF BridgeInv, ObjectsInv, Granted
<1>4. KeepsLeft
  BY <1>1, <1>2 DEF KeepsLeft, LeftBy
<1>5. NavInv' /\ NavigationIsEarned'
  <2>1. CASE finishes
    <3>1. answer \in {"session", "factors"}
      BY <2>1 DEF Finishes, Target
    <3>2. b \in Attempts /\ b[2] = 0
      BY DEF FetchAttempt, Attempts
    <3>3. ~LeftBy(b)
      BY <1>1, <3>2 DEF LeftBy, Attempt, FetchAttempt, BridgeInv, ObjectsInv, Object
    <3>4. LeftBy(b)'
      BY <1>1, <1>2, <2>1 DEF LeftBy, FetchAttempt
    <3>5. [by |-> b, what |-> answer] \in granted'
      BY <1>1, <3>1 DEF Grants
    <3>6. nav' = Append(nav, [to |-> Target[answer], by |-> b])
      BY <1>1, <2>1
    <3>7. granted \subseteq granted' /\ NavInv /\ NavigationIsEarned
      BY <1>1 DEF BridgeInv
    <3> HIDE DEF b, finishes
    <3> QED
      BY <1>2, <1>4, <3>1, <3>2, <3>3, <3>4, <3>5, <3>6, <3>7, NavStep
  <2>2. CASE ~finishes
    BY <1>1, <1>2, <1>4, <2>2, NavKept DEF BridgeInv
  <2> QED
    BY <2>1, <2>2
<1>6. QED
  BY <1>1, <1>3, <1>5 DEF BridgeInv, SeenInv, SuccessIsHidden, OverrideEndsWithRequest

\* A call of fetch(), or its abort.
LEMMA FetchStep ==
  ASSUME BridgeInv, NEW f \in Fetches, FetchLogin(f) \/ FetchAborted(f)
  PROVE  BridgeInv'
<1>1. /\ fetch[f] # "forever" /\ UNCHANGED <<xhr, nav, granted, seen>>
      /\ \/ fetch' = [fetch EXCEPT ![f] = "sent"]
         \/ fetch' = [fetch EXCEPT ![f] = "aborted"]
  BY DEF FetchLogin, FetchAborted
<1>2. /\ fetch \in [Fetches -> {"none", "sent", "error", "aborted", "forever"}]
      /\ fetch' \in [Fetches -> {"none", "sent", "error", "aborted", "forever"}]
  BY <1>1 DEF BridgeInv, NavInv
<1>3. KeepsLeft
  BY <1>1, <1>2 DEF KeepsLeft, LeftBy
<1>4. NavInv' /\ NavigationIsEarned'
  BY <1>1, <1>2, <1>3, NavKept DEF BridgeInv
<1>5. QED
  BY <1>1, <1>4 DEF BridgeInv, ObjectsInv, Granted, SeenInv, SuccessIsHidden,
                    OverrideEndsWithRequest

LEMMA NextKeepsInv ==
  ASSUME BridgeInv, [Next]_vars
  PROVE  BridgeInv'
<1>1. CASE \E o \in Objects, login, again \in BOOLEAN : Open(o, login, again)
  BY <1>1, OpenKeepsInv
<1>2. CASE \E o \in Objects, type \in Types : Send(o, type)
  BY <1>2, SendKeepsInv
<1>3. CASE \E o \in Objects : Network(o)
  BY <1>3, HeadersKeepsInv, LoadKeepsInv, FinishKeepsInv, FailKeepsInv DEF Network
<1>4. CASE \E o \in Objects : Dispatch(o)
  BY <1>4, DispatchKeepsInv
<1>5. CASE \E f \in Fetches, answer \in Answers : FetchAnswered(f, answer)
  BY <1>5, FetchAnsweredKeepsInv
<1>6. CASE \E f \in Fetches : FetchLogin(f) \/ FetchAborted(f)
  BY <1>6, FetchStep
<1>7. CASE UNCHANGED vars
  BY <1>7 DEF vars, BridgeInv, ObjectsInv, NavInv, LeftBy, Granted,
              NavigationIsEarned, SeenInv, SuccessIsHidden, OverrideEndsWithRequest
<1>8. QED
  BY <1>1, <1>2, <1>3, <1>4, <1>5, <1>6, <1>7 DEF Next

LEMMA BridgeInvHolds == Spec => []BridgeInv
<1>1. Init => BridgeInv
  BY InitInv
<1>2. BridgeInv /\ [Next]_vars => BridgeInv'
  BY NextKeepsInv
<1>3. QED
  BY <1>1, <1>2, PTL DEF Spec

\* Once an attempt to log in is over, no listener that the theme added after
\* the attempt's open() reads a success (the listeners of
\* native_login_bridge.js:68): for every number of objects and of requests of
\* each, listeners that are there already included.
THEOREM ThemeNeverSeesSuccess == Spec => []SuccessIsHidden
<1>1. BridgeInv => SuccessIsHidden
  BY DEF BridgeInv, SeenInv
<1>2. QED
  BY <1>1, BridgeInvHolds, PTL

\* An attempt leaves the document at most once, and only for what the server's
\* answer to this attempt allows.
THEOREM DocumentGoesWhereAllowed == Spec => []NavigationIsEarned
<1>1. BridgeInv => NavigationIsEarned
  BY DEF BridgeInv
<1>2. QED
  BY <1>1, BridgeInvHolds, PTL

\* The status that the bridge gives to a failed attempt is gone when open() is
\* called again: whatever the object is used for, with whatever listeners.
THEOREM StatusIsGivenBack == Spec => []OverrideEndsWithRequest
<1>1. BridgeInv => OverrideEndsWithRequest
  BY DEF BridgeInv, SeenInv
<1>2. QED
  BY <1>1, BridgeInvHolds, PTL
=============================================================================
