--------------------------- MODULE PrivilegedWatch ---------------------------
(***************************************************************************)
(* How an agent learns of privileged changes: WatchPrivilegedDelivery      *)
(* streams the node's state whenever its cursor has moved, and sleeps on a *)
(* channel that every handler closes after its transaction.  A handler of  *)
(* PrivilegedDelivery that commits advances the cursor by one              *)
(* (CursorCoversSnapshot), so here it is no more than that.  A read by     *)
(* GetStateWithDB returns the state of one moment (ReadIsOneMoment), so    *)
(* here it is one step.                                                    *)
(*                                                                         *)
(* A rescue stream is opened by the rescue helper with its own credential: *)
(* it authenticates again in every turn of the loop and sends in every one.*)
(***************************************************************************)
EXTENDS Naturals

CONSTANTS
  MaxSequence,    \* bound: commits
  MaxAttempts,    \* the three attempts of GetStateWithDB
  Writers,        \* handler calls of this process that may run at once
  Watchers,       \* streams of the node's agent
  Rescue          \* those of them that are rescue streams

ASSUME PrivilegedWatchAssumption ==
  /\ MaxSequence \in Nat
  /\ MaxAttempts \in Nat \ {0}
  /\ Rescue \subseteq Watchers

VARIABLES
  seq,          \* update_sequence, as committed
  local,        \* the cursor of the last commit of this process
  exists,       \* the node has a desired revision
  approval,     \* "none", or the unclaimed approval is "live" or "lapsed"
  writer,       \* each handler: "idle", or its Notify is still to run
  registered,   \* watchers.agents[id]: the streams whose channel is open
  woken,        \* the streams whose channel is closed
  stream,       \* the local variables of each stream
  valid,        \* the credential of the rescue helper stands
  late          \* messages of each rescue stream since the revocation: 0, 1
                \* or more (no code reads it)

vars == <<seq, local, exists, approval, writer, registered, woken, stream,
          valid, late>>
store == <<seq, local, exists, approval>>

\* pc names the next statement; after is the sequence the loop compares with,
\* got the cursor of the last snapshot, from the cursor at the subscription.
Stream == [pc: {"off", "subscribe", "authenticate", "read", "notify", "send",
                "select"},
           after: Nat, got: Nat, from: Nat]

WatchTypeOK ==
  /\ seq \in Nat
  /\ local \in 0..seq
  /\ exists \in BOOLEAN
  /\ approval \in {"none", "live", "lapsed"}
  /\ writer \in [Writers -> {"idle", "notify"}]
  /\ registered \subseteq Watchers
  /\ woken \subseteq Watchers
  /\ stream \in [Watchers -> Stream]
  /\ \A w \in Watchers : stream[w].after <= seq /\ stream[w].got <= seq
  /\ valid \in BOOLEAN
  /\ late \in [Rescue -> 0..2]

-----------------------------------------------------------------------------
(* Handlers. *)

\* A commit: Save creates a revision and drops the approval, a claim, a
\* failure or an ACK ends it too, Confirm issues one, and a negotiation or a
\* receipt changes neither.
CommitNext ==
  /\ seq < MaxSequence
  /\ seq' = seq + 1
  /\ \/ exists' = TRUE /\ approval' = "none"
     \/ exists /\ approval' = "live" /\ UNCHANGED exists
     \/ UNCHANGED <<exists, approval>>

\* Defect: one handler has no deferred Notify.
CommitSilently(h) ==
  /\ writer[h] = "idle"
  /\ CommitNext
  /\ local' = seq'
  /\ UNCHANGED <<writer, registered, woken, stream, valid, late>>

\* A handler's transaction commits; its deferred Notify runs later.
Commit(h) ==
  /\ writer[h] = "idle"
  /\ CommitNext
  /\ local' = seq'
  /\ writer' = [writer EXCEPT ![h] = "notify"]
  /\ UNCHANGED <<registered, woken, stream, valid, late>>

\* A refused call rolls back, and notifies all the same.
Rollback(h) ==
  /\ writer[h] = "idle"
  /\ writer' = [writer EXCEPT ![h] = "notify"]
  /\ UNCHANGED <<store, registered, woken, stream, valid, late>>

\* Notify closes every registered channel and forgets it.
CloseAll ==
  /\ woken' = woken \cup registered
  /\ registered' = {}

Notify(h) ==
  /\ writer[h] = "notify"
  /\ CloseAll
  /\ writer' = [writer EXCEPT ![h] = "idle"]
  /\ UNCHANGED <<store, stream, valid, late>>

\* Another process on the same database commits: nobody is notified here.
ForeignCommit ==
  /\ CommitNext
  /\ UNCHANGED <<local, writer, registered, woken, stream, valid, late>>

Lapse ==
  /\ approval = "live"
  /\ approval' = "lapsed"
  /\ UNCHANGED <<seq, local, exists, writer, registered, woken, stream, valid,
                 late>>

\* The helper's credential expires or is revoked, for good.
Revoke ==
  /\ valid
  /\ valid' = FALSE
  /\ UNCHANGED <<store, writer, registered, woken, stream, late>>

-----------------------------------------------------------------------------
(* WatchPrivilegedDelivery. *)

Goto(w, pc) == stream' = [stream EXCEPT ![w].pc = pc]

\* unsubscribe, and the variables of this turn of the loop are gone.
Leave(w, pc) ==
  /\ stream' = [stream EXCEPT ![w] = [pc |-> pc, after |-> stream[w].after,
                                      got |-> 0, from |-> 0]]
  /\ registered' = registered \ {w}
  /\ woken' = woken \ {w}

Close(w) == Leave(w, "off")

\* The agent opens a stream and asks for what is newer than it knows.
Connect(w) ==
  /\ stream[w].pc = "off"
  /\ w \in Rescue => valid
  /\ Goto(w, "subscribe")
  /\ UNCHANGED <<store, writer, registered, woken, valid, late>>

\* Subscribe makes a new channel before anything is read.
Subscribe(w) ==
  /\ stream[w].pc = "subscribe"
  /\ registered' = registered \cup {w}
  /\ stream' = [stream EXCEPT
       ![w].pc = IF w \in Rescue THEN "authenticate" ELSE "read",
       ![w].from = seq]
  /\ UNCHANGED <<store, writer, woken, valid, late>>

\* Defect: the credential is checked only when the stream is opened.
AuthenticateOnce(w) ==
  /\ stream[w].pc = "authenticate"
  /\ Goto(w, "read")
  /\ UNCHANGED <<store, writer, registered, woken, valid, late>>

Authenticate(w) ==
  /\ stream[w].pc = "authenticate"
  /\ IF valid THEN Goto(w, "read") /\ UNCHANGED <<registered, woken>>
              ELSE Close(w)
  /\ UNCHANGED <<store, writer, valid, late>>

Found(w) == exists /\ (w \in Rescue \/ seq > stream[w].after)

\* A stream that found nothing sleeps; a rescue stream has nothing to do.
Read(w) ==
  /\ stream[w].pc = "read"
  /\ approval # "lapsed"
  /\ IF Found(w) \/ w \notin Rescue
       THEN /\ stream' = [stream EXCEPT
                 ![w].pc = IF Found(w) THEN "send" ELSE "select",
                 ![w].got = seq, ![w].from = 0]
            /\ UNCHANGED <<registered, woken>>
       ELSE Close(w)
  /\ UNCHANGED <<store, writer, valid, late>>

\* A read that meets a lapsed approval expires it, and notifies.
ReadAndExpire(w) ==
  /\ stream[w].pc = "read"
  /\ approval = "lapsed"
  /\ seq' = seq + 1
  /\ local' = seq'
  /\ approval' = "none"
  /\ stream' = [stream EXCEPT ![w].pc = "notify", ![w].got = seq',
                              ![w].from = 0]
  /\ UNCHANGED <<exists, writer, registered, woken, valid, late>>

\* Its own channel is among those it closes, so it will read once more.
NotifyAfterRead(w) ==
  /\ stream[w].pc = "notify"
  /\ CloseAll
  /\ Goto(w, "send")
  /\ UNCHANGED <<store, writer, valid, late>>

\* Every attempt of the read was overtaken by a commit: the stream ends.
ReadRefused(w) ==
  /\ stream[w].pc = "read"
  /\ seq >= stream[w].from + MaxAttempts
  /\ Close(w)
  /\ UNCHANGED <<store, writer, valid, late>>

Send(w) ==
  /\ stream[w].pc = "send"
  /\ stream' = [stream EXCEPT ![w].pc = "select", ![w].after = stream[w].got]
  /\ late' = IF w \in Rescue /\ ~valid
               THEN [late EXCEPT ![w] = IF @ < 2 THEN @ + 1 ELSE @] ELSE late
  /\ UNCHANGED <<store, writer, registered, woken, valid>>

\* The connection is gone: the send fails, or the select sees ctx.Done.
Disconnect(w) ==
  /\ stream[w].pc \in {"send", "select"}
  /\ Close(w)
  /\ UNCHANGED <<store, writer, valid, late>>

Again(w) ==
  /\ Leave(w, "subscribe")
  /\ UNCHANGED <<store, writer, valid, late>>

Wake(w) ==
  /\ stream[w].pc = "select"
  /\ w \in woken
  /\ Again(w)

\* Defect: the loop waits for a notification only.
NoHeartbeat(w) ==
  /\ w \in woken
  /\ stream[w].pc = "select"
  /\ Again(w)

Heartbeat(w) ==
  /\ stream[w].pc = "select"
  /\ Again(w)

-----------------------------------------------------------------------------

WatchInit ==
  /\ seq = 0 /\ local = 0
  /\ exists = FALSE
  /\ approval = "none"
  /\ writer = [h \in Writers |-> "idle"]
  /\ registered = {} /\ woken = {}
  /\ stream = [w \in Watchers |-> [pc |-> "off", after |-> 0, got |-> 0, from |-> 0]]
  /\ valid = TRUE
  /\ late = [w \in Rescue |-> 0]

\* One turn of the loop.
Turn(w) ==
  \/ Subscribe(w) \/ Authenticate(w) \/ Read(w) \/ ReadAndExpire(w)
  \/ NotifyAfterRead(w) \/ Send(w) \/ Wake(w) \/ Heartbeat(w)

WatchNext ==
  \/ \E h \in Writers : Commit(h) \/ Rollback(h) \/ Notify(h)
  \/ \E w \in Watchers :
       Turn(w) \/ Connect(w) \/ ReadRefused(w) \/ Disconnect(w)
  \/ ForeignCommit \/ Lapse \/ Revoke

\* A stream's goroutine runs, its timer fires, and a deferred Notify is
\* executed.  Nobody has to write, connect or disconnect.
WatchSpec ==
  /\ WatchInit /\ [][WatchNext]_vars
  /\ \A w \in Watchers : WF_vars(Turn(w))
  /\ \A h \in Writers : WF_vars(Notify(h))

-----------------------------------------------------------------------------
(* Properties. *)

\* A stream that sleeps on a snapshot older than the last commit of this
\* process has been woken, or will be: the Notify of some handler or reader
\* has still to run.  No commit falls between the read and the wait.
NoLostWakeup ==
  \A w \in Watchers :
    stream[w].pc = "select" /\ stream[w].got < local /\ w \notin woken =>
      /\ w \in registered
      /\ \/ \E h \in Writers : writer[h] = "notify"
         \/ \E v \in Watchers : stream[v].pc = "notify"

\* A stream that is up learns of every commit, or goes down: also of those
\* of other processes, which notify nobody here.
LearnsOfCommits ==
  \A w \in Watchers, n \in 1..MaxSequence :
    exists /\ seq >= n /\ stream[w].pc # "off"
      ~> stream[w].after >= n \/ stream[w].pc = "off"

\* And a lapsed approval does not stay on the node while a stream is up, although
\* no timer expires it: the reads of the streams do.
LapsedApprovalIsExpired ==
  approval = "lapsed" /\ (\E w \in Watchers : stream[w].pc # "off")
    ~> approval # "lapsed" \/ \A w \in Watchers : stream[w].pc = "off"

\* What the turns of the streams bring about: every commit is learnt of and
\* every lapsed approval expired.
WatcherCatchesUp == LearnsOfCommits /\ LapsedApprovalIsExpired

\* A rescue stream does not outlive the revocation of its credential.
RevokedStreamEnds ==
  \A w \in Rescue : ~valid ~> stream[w].pc = "off"

\* At most the message of the turn that had authenticated before the
\* revocation is sent after it.
AtMostOneLateMessage == \A w \in Rescue : late[w] <= 1
=============================================================================
