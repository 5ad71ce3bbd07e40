------------------------ MODULE PrivilegedWatchProofs ------------------------
(***************************************************************************)
(* Safety of the streams of PrivilegedWatch, for any number of handlers    *)
(* and streams.                                                            *)
(***************************************************************************)
EXTENDS PrivilegedWatch, TLAPS

-----------------------------------------------------------------------------
(* Types. *)

StreamsOK ==
  /\ stream \in [Watchers -> Stream]
  /\ \A w \in Watchers : stream[w].after <= seq /\ stream[w].got <= seq

LEMMA WatchTypeInit == WatchInit => WatchTypeOK
<1> SUFFICES ASSUME WatchInit PROVE WatchTypeOK
  OBVIOUS
<1>1. stream \in [Watchers -> Stream]
  BY DEF WatchInit, Stream
<1>2. \A w \in Watchers : stream[w].after <= seq /\ stream[w].got <= seq
  BY DEF WatchInit
<1>3. late \in [Rescue -> 0..2] /\ writer \in [Writers -> {"idle", "notify"}]
  BY DEF WatchInit
<1>4. seq \in Nat /\ local \in 0..seq
  BY DEF WatchInit
<1> QED BY <1>1, <1>2, <1>3, <1>4 DEF WatchInit, WatchTypeOK

\* Leaving a turn of the loop keeps the types.
LEMMA LeaveType ==
  ASSUME WatchTypeOK, NEW w \in Watchers, NEW pc \in {"off", "subscribe"},
         Leave(w, pc), seq' = seq
  PROVE  StreamsOK' /\ registered' \subseteq Watchers /\ woken' \subseteq Watchers
BY DEF Leave, WatchTypeOK, Stream, StreamsOK

\* So does a jump.
LEMMA GotoType ==
  ASSUME WatchTypeOK, NEW w \in Watchers, Goto(w, "subscribe") \/ Goto(w, "read")
                                          \/ Goto(w, "send"), seq' = seq
  PROVE  StreamsOK'
BY DEF Goto, WatchTypeOK, Stream, StreamsOK

\* And a change of the store that advances the cursor.
LEMMA CommitType ==
  ASSUME WatchTypeOK, CommitNext, UNCHANGED stream
  PROVE  /\ StreamsOK' /\ seq' \in Nat /\ seq' = seq + 1
         /\ exists' \in BOOLEAN
         /\ approval' \in {"none", "live", "lapsed"}
<1>1. seq' = seq + 1 /\ seq' \in Nat /\ StreamsOK'
  BY DEF CommitNext, WatchTypeOK, Stream, StreamsOK
<1>2. /\ exists' = TRUE \/ exists' = exists
      /\ approval' = "none" \/ approval' = "live" \/ approval' = approval
  BY DEF CommitNext
<1>3. exists' \in BOOLEAN /\ approval' \in {"none", "live", "lapsed"}
  BY <1>2 DEF WatchTypeOK
<1> QED BY <1>1, <1>3

LEMMA WatchTypeStep == WatchTypeOK /\ [WatchNext]_vars => WatchTypeOK'
<1> SUFFICES ASSUME WatchTypeOK, [WatchNext]_vars PROVE WatchTypeOK'
  OBVIOUS
<1> USE PrivilegedWatchAssumption
<1>0. StreamsOK
  BY DEF WatchTypeOK, StreamsOK
<1>1. ASSUME NEW h \in Writers, Commit(h) PROVE WatchTypeOK'
  BY <1>1, CommitType DEF Commit, WatchTypeOK, StreamsOK
<1>2. ASSUME NEW h \in Writers, Rollback(h) PROVE WatchTypeOK'
  BY <1>2 DEF Rollback, WatchTypeOK, store
<1>3. ASSUME NEW h \in Writers, Notify(h) PROVE WatchTypeOK'
  BY <1>3 DEF Notify, CloseAll, WatchTypeOK, store
<1>4. CASE ForeignCommit
  BY <1>4, CommitType DEF ForeignCommit, WatchTypeOK, StreamsOK
<1>5. CASE Lapse
  BY <1>5 DEF Lapse, WatchTypeOK
<1>6. CASE Revoke
  BY <1>6 DEF Revoke, WatchTypeOK, store
<1>7. ASSUME NEW w \in Watchers, Connect(w) PROVE WatchTypeOK'
  BY <1>7, GotoType DEF Connect, WatchTypeOK, StreamsOK, store
<1>8. ASSUME NEW w \in Watchers, Subscribe(w) PROVE WatchTypeOK'
  <2>1. PICK pc \in {"authenticate", "read"} :
          stream' = [stream EXCEPT ![w].pc = pc, ![w].from = seq]
    BY <1>8 DEF Subscribe
  <2> DEFINE a == [stream[w] EXCEPT !.pc = pc, !.from = seq]
  <2>a. stream' = [stream EXCEPT ![w] = a] /\ seq' = seq
    BY <1>8, <2>1 DEF Subscribe, store, WatchTypeOK
  <2>b. a \in Stream /\ a.after = stream[w].after /\ a.got = stream[w].got
    BY DEF WatchTypeOK, Stream
  <2> HIDE DEF a
  <2>2. StreamsOK'
    BY <2>a, <2>b DEF WatchTypeOK, StreamsOK
  <2> QED BY <1>8, <2>2 DEF Subscribe, WatchTypeOK, StreamsOK, store
<1>9. ASSUME NEW w \in Watchers, Authenticate(w) PROVE WatchTypeOK'
  BY <1>9, GotoType, LeaveType DEF Authenticate, Close, WatchTypeOK, StreamsOK, store
<1>10. ASSUME NEW w \in Watchers, Read(w) PROVE WatchTypeOK'
  <2>1. CASE Found(w) \/ w \notin Rescue
    <3>1. StreamsOK'
      BY <1>10, <2>1, SMTT(30) DEF Read, WatchTypeOK, StreamsOK, Stream, store
    <3> QED BY <1>10, <2>1, <3>1 DEF Read, WatchTypeOK, StreamsOK, store
  <2>2. CASE ~(Found(w) \/ w \notin Rescue)
    BY <1>10, <2>2, LeaveType DEF Read, Close, WatchTypeOK, StreamsOK, store
  <2> QED BY <2>1, <2>2
<1>11. ASSUME NEW w \in Watchers, ReadAndExpire(w) PROVE WatchTypeOK'
  <2>1. StreamsOK' /\ seq' = seq + 1
    BY <1>11 DEF ReadAndExpire, WatchTypeOK, StreamsOK, Stream
  <2> QED BY <1>11, <2>1 DEF ReadAndExpire, WatchTypeOK, StreamsOK
<1>12. ASSUME NEW w \in Watchers, NotifyAfterRead(w) PROVE WatchTypeOK'
  BY <1>12, GotoType DEF NotifyAfterRead, CloseAll, WatchTypeOK, StreamsOK, store
<1>13. ASSUME NEW w \in Watchers, ReadRefused(w) PROVE WatchTypeOK'
  BY <1>13, LeaveType DEF ReadRefused, Close, WatchTypeOK, StreamsOK, store
<1>14. ASSUME NEW w \in Watchers, Send(w) PROVE WatchTypeOK'
  <2>1. StreamsOK'
    BY <1>14, ZenonT(60) DEF Send, WatchTypeOK, StreamsOK, Stream, store
  <2> QED BY <1>14, <2>1 DEF Send, WatchTypeOK, StreamsOK, store
<1>15. ASSUME NEW w \in Watchers, Disconnect(w) PROVE WatchTypeOK'
  BY <1>15, LeaveType DEF Disconnect, Close, WatchTypeOK, StreamsOK, store
<1>16. ASSUME NEW w \in Watchers, Wake(w) \/ Heartbeat(w) PROVE WatchTypeOK'
  BY <1>16, LeaveType DEF Wake, Heartbeat, Again, WatchTypeOK, StreamsOK, store
<1>17. CASE UNCHANGED vars
  BY <1>17 DEF vars, WatchTypeOK
<1> QED
  BY <1>1, <1>2, <1>3, <1>4, <1>5, <1>6, <1>7, <1>8, <1>9, <1>10, <1>11, <1>12,
     <1>13, <1>14, <1>15, <1>16, <1>17
     DEF WatchNext, Turn

\* Every stream's variables keep their types, and no stream ever asks for
\* changes after a cursor the node has not reached.
THEOREM WatchTypes == WatchSpec => []WatchTypeOK
BY WatchTypeInit, WatchTypeStep, PTL DEF WatchSpec

-----------------------------------------------------------------------------
(* No lost wakeup. *)

\* A stream in a turn of the loop holds a channel, open or closed.
Subscribed ==
  \A w \in Watchers :
    stream[w].pc \notin {"off", "subscribe"} => w \in registered \cup woken

\* Some deferred Notify has still to run.
Pending == \/ \E h \in Writers : writer[h] = "notify"
           \/ \E v \in Watchers : stream[v].pc = "notify"

\* A snapshot that a local commit has overtaken, and whose stream nobody has
\* woken, is still covered by a Notify to come.
Covered ==
  \A w \in Watchers :
    stream[w].pc \in {"send", "select"} /\ stream[w].got < local /\ w \notin woken
      => Pending

WakeInv == Subscribed /\ Covered

\* A step that only moves stream w, which has no Notify to run and has not
\* read an old snapshot in this step, and drops no channel but w's.
LEMMA MoveKeepsWake ==
  ASSUME WatchTypeOK, WakeInv, NEW w \in Watchers,
         stream[w].pc # "notify",
         \A u \in Watchers : u # w => stream'[u] = stream[u],
         \A u \in Watchers : u # w => (u \in registered <=> u \in registered'),
         \A u \in Watchers : u # w => (u \in woken <=> u \in woken'),
         UNCHANGED <<writer, local>>,
         stream'[w].pc \notin {"off", "subscribe"} => w \in registered' \cup woken',
         stream'[w].pc \in {"send", "select"} =>
           \/ stream'[w].got >= local
           \/ /\ stream[w].pc \in {"send", "select"}
              /\ stream'[w].got = stream[w].got
              /\ w \in woken => w \in woken',
         stream'[w] \in Stream
  PROVE  WakeInv'
<1>1. Subscribed'
  BY DEF WakeInv, Subscribed
<1>2. Pending => Pending'
  BY DEF Pending
<1>3. ASSUME NEW u \in Watchers, stream'[u].pc \in {"send", "select"},
             stream'[u].got < local, u \notin woken'
      PROVE  Pending'
  <2>1. CASE u = w
    BY <1>2, <1>3, <2>1 DEF WakeInv, Covered, WatchTypeOK, Stream
  <2>2. CASE u # w
    BY <1>2, <1>3, <2>2 DEF WakeInv, Covered
  <2> QED BY <2>1, <2>2
<1>4. Covered'
  BY <1>3 DEF Covered
<1> QED BY <1>1, <1>4 DEF WakeInv

\* A stream that ends its turn no longer waits for anything.
LEMMA LeaveKeepsWake ==
  ASSUME WatchTypeOK, WakeInv, NEW w \in Watchers, NEW pc \in {"off", "subscribe"},
         Leave(w, pc), stream[w].pc # "notify", UNCHANGED <<writer, local>>
  PROVE  WakeInv'
<1>1. /\ \A u \in Watchers : u # w => stream'[u] = stream[u]
      /\ stream'[w].pc = pc /\ stream'[w] \in Stream
  BY DEF Leave, WatchTypeOK, Stream
<1>2. /\ \A u \in Watchers : u # w => (u \in registered <=> u \in registered')
      /\ \A u \in Watchers : u # w => (u \in woken <=> u \in woken')
  BY DEF Leave
<1> QED BY <1>1, <1>2, MoveKeepsWake

\* Closing every channel wakes every stream that holds one.
LEMMA CloseAllWakes ==
  ASSUME WakeInv, CloseAll,
         \A w \in Watchers : \/ stream'[w] = stream[w]
                             \/ stream[w].pc \notin {"off", "subscribe"}
  PROVE  WakeInv'
<1>1. ASSUME NEW w \in Watchers, stream'[w].pc \notin {"off", "subscribe"}
      PROVE  w \in woken'
  BY <1>1 DEF WakeInv, Subscribed, CloseAll
<1> QED BY <1>1 DEF WakeInv, Subscribed, Covered

LEMMA WakeInit == WatchInit => WakeInv
BY DEF WatchInit, WakeInv, Subscribed, Covered

LEMMA WakeStep == WatchTypeOK /\ WakeInv /\ [WatchNext]_vars => WakeInv'
<1> SUFFICES ASSUME WatchTypeOK, WakeInv, [WatchNext]_vars PROVE WakeInv'
  OBVIOUS
<1> USE PrivilegedWatchAssumption
<1>1. ASSUME NEW h \in Writers, Commit(h) PROVE WakeInv'
  <2>1. Pending' /\ UNCHANGED <<stream, registered, woken>>
    BY <1>1 DEF Commit, Pending, WatchTypeOK
  <2> QED BY <2>1 DEF WakeInv, Subscribed, Covered
<1>2. ASSUME NEW h \in Writers, Rollback(h) PROVE WakeInv'
  <2>1. Pending' /\ UNCHANGED <<stream, registered, woken>>
    BY <1>2 DEF Rollback, Pending, WatchTypeOK
  <2> QED BY <2>1 DEF WakeInv, Subscribed, Covered
<1>3. ASSUME NEW h \in Writers, Notify(h) PROVE WakeInv'
  BY <1>3, CloseAllWakes DEF Notify
<1>4. CASE ForeignCommit \/ Lapse \/ Revoke \/ UNCHANGED vars
  <2>1. UNCHANGED <<local, writer, registered, woken, stream>>
    BY <1>4 DEF ForeignCommit, Lapse, Revoke, vars, store
  <2> QED BY <2>1 DEF WakeInv, Subscribed, Covered, Pending
<1>5. ASSUME NEW w \in Watchers, Connect(w) PROVE WakeInv'
  <2>1. /\ \A u \in Watchers : u # w => stream'[u] = stream[u]
        /\ stream'[w].pc = "subscribe" /\ stream'[w] \in Stream
        /\ stream[w].pc = "off"
    BY <1>5 DEF Connect, Goto, WatchTypeOK, Stream
  <2> QED BY <1>5, <2>1, MoveKeepsWake DEF Connect, store
<1>6. ASSUME NEW w \in Watchers, Subscribe(w) PROVE WakeInv'
  <2>1. PICK pc \in {"authenticate", "read"} :
          stream' = [stream EXCEPT ![w].pc = pc, ![w].from = seq]
    BY <1>6 DEF Subscribe
  <2>2. /\ \A u \in Watchers : u # w => stream'[u] = stream[u]
        /\ stream'[w].pc = pc /\ stream'[w] \in Stream
    BY <1>6, <2>1 DEF WatchTypeOK, Stream
  <2>3. /\ \A u \in Watchers : u # w => (u \in registered <=> u \in registered')
        /\ w \in registered' /\ woken' = woken /\ stream[w].pc = "subscribe"
        /\ UNCHANGED <<writer, local>>
    BY <1>6 DEF Subscribe, store
  <2> QED BY <2>2, <2>3, MoveKeepsWake
<1>7. ASSUME NEW w \in Watchers, Authenticate(w) PROVE WakeInv'
  <2>1. CASE valid
    <3>1. /\ \A u \in Watchers : u # w => stream'[u] = stream[u]
          /\ stream'[w].pc = "read" /\ stream'[w] \in Stream
          /\ stream[w].pc = "authenticate"
      BY <1>7, <2>1 DEF Authenticate, Goto, WatchTypeOK, Stream
    <3>2. UNCHANGED <<registered, woken, writer, local>>
      BY <1>7, <2>1 DEF Authenticate, store
    <3>3. w \in registered \cup woken
      BY <3>1 DEF WakeInv, Subscribed
    <3> QED BY <3>1, <3>2, <3>3, MoveKeepsWake
  <2>2. CASE ~valid
    BY <1>7, <2>2, LeaveKeepsWake DEF Authenticate, Close, store
  <2> QED BY <2>1, <2>2
<1>8. ASSUME NEW w \in Watchers, Read(w) PROVE WakeInv'
  <2>1. CASE Found(w) \/ w \notin Rescue
    <3>1. PICK pc \in {"send", "select"} :
            stream' = [stream EXCEPT ![w].pc = pc, ![w].got = seq, ![w].from = 0]
      BY <1>8, <2>1 DEF Read
    <3> DEFINE a == [stream[w] EXCEPT !.pc = pc, !.got = seq, !.from = 0]
    <3>2. stream' = [stream EXCEPT ![w] = a]
      BY <3>1 DEF WatchTypeOK
    <3>3. a.pc = pc /\ a.got = seq /\ a \in Stream
      BY DEF WatchTypeOK, Stream
    <3> HIDE DEF a
    <3>4. /\ \A u \in Watchers : u # w => stream'[u] = stream[u]
          /\ stream'[w].pc = pc /\ stream'[w].got >= local /\ stream'[w] \in Stream
      BY <3>2, <3>3 DEF WatchTypeOK
    <3>5. UNCHANGED <<registered, woken, writer, local>> /\ stream[w].pc = "read"
      BY <1>8, <2>1 DEF Read, store
    <3>6. w \in registered \cup woken
      BY <3>5 DEF WakeInv, Subscribed
    <3> QED BY <3>4, <3>5, <3>6, MoveKeepsWake
  <2>2. CASE ~(Found(w) \/ w \notin Rescue)
    BY <1>8, <2>2, LeaveKeepsWake DEF Read, Close, store
  <2> QED BY <2>1, <2>2
<1>9. ASSUME NEW w \in Watchers, ReadAndExpire(w) PROVE WakeInv'
  <2>1. /\ \A u \in Watchers : u # w => stream'[u] = stream[u]
        /\ stream'[w].pc = "notify" /\ stream[w].pc = "read"
    BY <1>9 DEF ReadAndExpire, WatchTypeOK, Stream
  <2>2. Pending' /\ UNCHANGED <<registered, woken>>
    BY <1>9, <2>1 DEF ReadAndExpire, Pending
  <2> QED BY <2>1, <2>2 DEF WakeInv, Subscribed, Covered
<1>10. ASSUME NEW w \in Watchers, NotifyAfterRead(w) PROVE WakeInv'
  <2>1. /\ \A u \in Watchers : u # w => stream'[u] = stream[u]
        /\ stream[w].pc = "notify"
    BY <1>10 DEF NotifyAfterRead, Goto, WatchTypeOK
  <2> QED BY <1>10, <2>1, CloseAllWakes DEF NotifyAfterRead
<1>11. ASSUME NEW w \in Watchers, ReadRefused(w) \/ Disconnect(w) PROVE WakeInv'
  BY <1>11, LeaveKeepsWake DEF ReadRefused, Disconnect, Close, store
<1>12. ASSUME NEW w \in Watchers, Send(w) PROVE WakeInv'
  <2>1. /\ \A u \in Watchers : u # w => stream'[u] = stream[u]
        /\ stream'[w].pc = "select" /\ stream[w].pc = "send"
        /\ stream'[w].got = stream[w].got /\ stream'[w] \in Stream
    BY <1>12 DEF Send, WatchTypeOK, Stream
  <2>2. UNCHANGED <<registered, woken, writer, local>>
    BY <1>12 DEF Send, store
  <2>3. w \in registered \cup woken
    BY <2>1 DEF WakeInv, Subscribed
  <2> QED BY <2>1, <2>2, <2>3, MoveKeepsWake
<1>13. ASSUME NEW w \in Watchers, Wake(w) \/ Heartbeat(w) PROVE WakeInv'
  BY <1>13, LeaveKeepsWake DEF Wake, Heartbeat, Again, store
<1> QED
  BY <1>1, <1>2, <1>3, <1>4, <1>5, <1>6, <1>7, <1>8, <1>9, <1>10, <1>11, <1>12, <1>13
     DEF WatchNext, Turn

\* Whatever handlers and streams interleave, no stream sleeps on a snapshot
\* that a commit of this process has overtaken without a Notify to come.
THEOREM WakeupNotLost == WatchSpec => []NoLostWakeup
<1>1. WakeInv => NoLostWakeup
  BY DEF WakeInv, Subscribed, Covered, Pending, NoLostWakeup
<1>2. WatchTypeOK /\ WakeInv /\ [WatchNext]_vars => WakeInv'
  BY WakeStep
<1> QED BY <1>1, <1>2, WatchTypes, WakeInit, PTL DEF WatchSpec

-----------------------------------------------------------------------------
(* Rescue streams after the revocation of their credential. *)

\* Between its authentication and its message a rescue stream has sent
\* nothing late: the message of this turn is the first that can be.
LateInv ==
  \A w \in Rescue :
    /\ late[w] <= 1
    /\ late[w] = 0 \/ (~valid /\ stream[w].pc \in {"off", "subscribe",
                                                   "authenticate", "select"})

\* A step that sends nothing, and leaves authentication only with a valid
\* credential.
LEMMA QuietKeepsLate ==
  ASSUME WatchTypeOK, LateInv, late' = late, valid' => valid, valid' \in BOOLEAN,
         \A w \in Rescue :
           \/ stream'[w].pc = stream[w].pc
           \/ stream'[w].pc \in {"off", "subscribe", "authenticate"}
           \/ valid
           \/ stream[w].pc \in {"read", "notify", "send"}
  PROVE  LateInv'
BY DEF LateInv, WatchTypeOK

LEMMA LateInit == WatchInit => LateInv
BY DEF WatchInit, LateInv

LEMMA LateStep == WatchTypeOK /\ LateInv /\ [WatchNext]_vars => LateInv'
<1> SUFFICES ASSUME WatchTypeOK, LateInv, [WatchNext]_vars PROVE LateInv'
  OBVIOUS
<1> USE PrivilegedWatchAssumption
<1>leave. ASSUME NEW w \in Watchers, NEW pc \in {"off", "subscribe"}, Leave(w, pc)
          PROVE  \A u \in Rescue : \/ stream'[u].pc = stream[u].pc
                                   \/ stream'[u].pc \in {"off", "subscribe"}
  BY <1>leave DEF Leave, WatchTypeOK
<1>1. CASE UNCHANGED <<stream, valid, late>>
  BY <1>1 DEF LateInv
<1>2. CASE Revoke
  BY <1>2 DEF Revoke, LateInv
<1>3. ASSUME NEW w \in Watchers, Connect(w) PROVE LateInv'
  <2>1. \A u \in Rescue : \/ stream'[u].pc = stream[u].pc
                          \/ stream'[u].pc = "subscribe"
    BY <1>3 DEF Connect, Goto, WatchTypeOK, Stream
  <2> QED BY <1>3, <2>1, QuietKeepsLate DEF Connect, WatchTypeOK
<1>4. ASSUME NEW w \in Watchers, Subscribe(w) PROVE LateInv'
  <2>1. \A u \in Rescue : \/ stream'[u].pc = stream[u].pc
                          \/ stream'[u].pc = "authenticate"
    BY <1>4 DEF Subscribe, WatchTypeOK, Stream
  <2> QED BY <1>4, <2>1, QuietKeepsLate DEF Subscribe, WatchTypeOK
<1>5. ASSUME NEW w \in Watchers, Authenticate(w) PROVE LateInv'
  <2>1. CASE valid
    BY <1>5, <2>1, QuietKeepsLate DEF Authenticate, WatchTypeOK
  <2>2. CASE ~valid
    BY <1>5, <2>2, <1>leave, QuietKeepsLate DEF Authenticate, Close, WatchTypeOK
  <2> QED BY <2>1, <2>2
<1>6. ASSUME NEW w \in Watchers,
             \/ Read(w) /\ (Found(w) \/ w \notin Rescue)
             \/ ReadAndExpire(w) \/ NotifyAfterRead(w)
      PROVE  LateInv'
  <2>1. /\ \A u \in Rescue : u # w => stream'[u] = stream[u]
        /\ stream[w].pc \in {"read", "notify"} /\ late' = late /\ valid' = valid
    BY <1>6 DEF Read, ReadAndExpire, NotifyAfterRead, Goto, WatchTypeOK
  <2> QED BY <2>1, QuietKeepsLate DEF WatchTypeOK
<1>7. ASSUME NEW w \in Watchers,
             \/ Read(w) /\ ~Found(w) /\ w \in Rescue
             \/ ReadRefused(w) \/ Disconnect(w) \/ Wake(w) \/ Heartbeat(w)
      PROVE  LateInv'
  <2>1. /\ \E pc \in {"off", "subscribe"} : Leave(w, pc)
        /\ late' = late /\ valid' = valid
    BY <1>7 DEF Read, ReadRefused, Disconnect, Wake, Heartbeat, Again, Close
  <2> QED BY <2>1, <1>leave, QuietKeepsLate DEF WatchTypeOK
<1>8. ASSUME NEW w \in Watchers, Send(w) PROVE LateInv'
  <2>1. /\ \A u \in Rescue : u # w => stream'[u] = stream[u]
        /\ stream[w].pc = "send" /\ stream'[w].pc = "select" /\ valid' = valid
    BY <1>8 DEF Send, WatchTypeOK, Stream
  <2>2. \A u \in Rescue : u # w => late'[u] = late[u]
    BY <1>8 DEF Send, WatchTypeOK
  <2>3. w \in Rescue => late[w] = 0 /\ late'[w] = IF valid THEN 0 ELSE 1
    BY <1>8, <2>1 DEF Send, WatchTypeOK, LateInv
  <2> QED BY <2>1, <2>2, <2>3 DEF LateInv
<1>9. ASSUME NEW h \in Writers, Commit(h) \/ Rollback(h) \/ Notify(h) PROVE LateInv'
  BY <1>9, <1>1 DEF Commit, Rollback, Notify
<1>10. CASE ForeignCommit \/ Lapse \/ UNCHANGED vars
  BY <1>10, <1>1 DEF ForeignCommit, Lapse, vars
<1> QED
  BY <1>2, <1>3, <1>4, <1>5, <1>6, <1>7, <1>8, <1>9, <1>10 DEF WatchNext, Turn

\* After its credential is revoked a rescue stream sends at most the message
\* of the turn that was authenticated before.
THEOREM FewLateMessages == WatchSpec => []AtMostOneLateMessage
<1>1. LateInv => AtMostOneLateMessage
  BY DEF LateInv, AtMostOneLateMessage
<1>2. WatchTypeOK /\ LateInv /\ [WatchNext]_vars => LateInv'
  BY LateStep
<1> QED BY <1>1, <1>2, WatchTypes, LateInit, PTL DEF WatchSpec
=============================================================================
