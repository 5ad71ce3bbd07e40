------------------------- MODULE DeploymentDelivery -------------------------
(***************************************************************************)
(* The ordinary deployment track of one node: the settings a running agent *)
(* may apply online, the revision that names them, and their delivery over *)
(* Connect (watch and poll) or over the older v2 events.                   *)
(*                                                                         *)
(* A transaction is one step.  The readers are not transactions: they read *)
(* the client, read the profile, repair a reset day that drifted with a    *)
(* compare-and-set, and read the profile once more.  Refused input changes *)
(* nothing and is left out, as are the settings that need a reinstall      *)
(* (PrivilegedDelivery has the rules about them), the times of each change *)
(* and the hint that UpdateDesiredConfig adds to the event stream.         *)
(***************************************************************************)
EXTENDS Naturals, FiniteSets

CONSTANTS
  Null,          \* NULL, nil, or no row
  Admins,        \* calls of administrators that may run at once
  Calls,         \* calls of the agent that may run at once
  Runtimes,      \* online settings other than the two below
  Default,       \* those of DefaultDeploymentProfile
  Days,          \* reset days; 0 is "no monthly reset"
  Installed,     \* contents an agent may have been installed with
  Requests,      \* contents an administrator asks for; Null keeps a setting
  Edits,         \* reset days a billing edit writes
  Links,         \* how the agent may be connected
  Moves,         \* the changes between them, as pairs
  Refusals,      \* what it may answer instead of running a revision
  MaxAttempts,   \* the three attempts of getDeploymentProfile
  MaxRevision    \* bound: revisions

\* What one revision of the profile means, and what a message says of it: nic
\* (get_ip_addr_from_nic) is Null where the protocol has no such field.
Content == [runtime: Runtimes, nic: BOOLEAN, day: Days]
Carried == [runtime: Runtimes, nic: BOOLEAN \cup {Null}, day: Days]

ASSUME DeploymentDeliveryAssumption ==
  /\ Null \notin Days /\ Null \notin BOOLEAN /\ Null \notin Content
  /\ Null \notin Requests
  /\ Default \in Runtimes
  /\ 0 \in Days
  /\ Installed \subseteq Content
  /\ Requests \subseteq [runtime: Runtimes, nic: BOOLEAN \cup {Null},
                         day: Days \cup {Null}]
  /\ Edits \subseteq Days \cup {Null}
  /\ Links \subseteq {"connect", "v2", "v2poll", "old", "offline"}
  /\ Links # {}
  /\ Moves \subseteq Links \X Links
  /\ Refusals \subseteq {"rejected", "failed", "upgrade-required"}
  /\ MaxAttempts \in Nat \ {0}
  /\ MaxRevision \in Nat \ {0}

Procs == Admins \cup Calls

VARIABLES
  day,       \* clients.traffic_reset_day
  row,       \* the node's ClientDeploymentProfile, or Null
  proc,      \* the local variables of every call
  chan,      \* the channel each watch holds: "none", "open" or "closed"
  queue,     \* the config event of the v2 queue, or Null
  link,      \* how the agent is connected
  agent,     \* what the agent runs, and the revision it took it from
  sent,      \* what was handed to the agent: revision and content
  ran,       \* history: the contents the agent has run
  adopted,   \* history: the revisions that a report of the agent closed
  outcome    \* what the agent decided about a revision

vars == <<day, row, proc, chan, queue, link, agent, sent, ran, adopted,
          outcome>>
agentVars == <<link, agent, ran, adopted, outcome>>

Pending == {"saved", "sent", "offline", "upgrade-required"}
Closed == {"applied", "rejected", "failed"}

Message == [revision: 0..MaxRevision, content: Carried]

\* previous.nic is not stored: PreviousRuntime is a RuntimeConfig, which has
\* no such field.  It is kept here for RollbackKeepsAddressSource.
Row == [revision: 0..MaxRevision, applied: 0..MaxRevision,
        status: Pending \cup Closed, content: Content,
        previous: Content \cup {Null}]

\* What a call keeps of a row it has read.
Read == [revision: 0..MaxRevision, content: Content,
         previous: Content \cup {Null}]

ASSUME NullAssumption == Null \notin Row /\ Null \notin Read /\ Null \notin Message

Proc == [op: {"none", "edit", "update", "save", "rollback", "enroll", "poll",
              "watch", "basic"},
         pc: {"idle", "client", "row", "repair", "final", "save", "hasWatch",
              "signal", "transport", "markSent", "offline",
              "upgrade-required", "subscribe", "select", "send", "adopt"},
         known: 0..MaxRevision, attempt: 1..MaxAttempts,
         day: Days \cup {Null}, seen: Read \cup {Null},
         want: Requests \cup Content \cup {Null}, force: BOOLEAN,
         watched: BOOLEAN, live: BOOLEAN]

DeploymentTypeOK ==
  /\ day \in Days \cup {Null}
  /\ row \in Row \cup {Null}
  /\ proc \in [Procs -> Proc]
  /\ chan \in [Calls -> {"none", "open", "closed"}]
  /\ queue \in Message \cup {Null}
  /\ link \in Links
  /\ agent \in [revision: 0..MaxRevision, content: Content]
  /\ sent \subseteq Message
  /\ ran \subseteq Content
  /\ adopted \subseteq 1..MaxRevision
  /\ outcome \subseteq [revision: 0..MaxRevision,
                        status: Closed \cup {"upgrade-required"}]

ReadOf(r) == [revision |-> r.revision, content |-> r.content,
              previous |-> r.previous]

DayOf(d) == IF d = Null THEN 0 ELSE d
RevisionOf(r) == IF r = Null THEN 0 ELSE r.revision

Idle == [op |-> "none", pc |-> "idle", known |-> 0, attempt |-> 1,
         day |-> Null, seen |-> Null, want |-> Null, force |-> FALSE,
         watched |-> FALSE, live |-> TRUE]

\* DefaultDeploymentProfile
DefaultContent(d) == [runtime |-> Default, nic |-> FALSE, day |-> DayOf(d)]

\* A node without a profile, or with one from before deliveries had
\* revisions, whose reset day an older billing edit may have left behind.  (Its
\* status is the empty string, which everybody treats as "saved".)
Init ==
  /\ day \in Days \cup {Null}
  /\ row \in {Null} \cup
       {[revision |-> 0, applied |-> 0, status |-> "saved", previous |-> Null,
         content |-> DefaultContent(d)] : d \in Days}
  /\ proc = [p \in Procs |-> Idle]
  /\ chan = [c \in Calls |-> "none"]
  /\ queue = Null
  /\ link \in Links
  /\ agent \in [revision: {0}, content: Installed]
  /\ sent = {}
  /\ ran = {agent.content}
  /\ adopted = {}
  /\ outcome = {}

-----------------------------------------------------------------------------
(* The row. *)

\* A new revision: what every writer of desired content does to the row.
NewRevision(r, content, previous) ==
  [r EXCEPT !.revision = @ + 1, !.status = "saved", !.content = content,
            !.previous = previous]

\* reconcileDeploymentResetDay
Reconciled(r, d) ==
  IF r.content.day = DayOf(d) THEN r
  ELSE NewRevision(r, [r.content EXCEPT !.day = DayOf(d)], r.content)

\* The compare-and-set of reconcileDeploymentResetDay finds what was read.
Unchanged(r, d) ==
  /\ row.revision = r.revision
  /\ row.content = r.content
  /\ DayOf(day) = DayOf(d)

\* saveDeploymentProfileForDispatch: a new revision is made when ...
RuntimeChanged(content, force) ==
  \/ row = Null
  \/ force
  \/ row.revision = 0
  \/ row.content # content
  \/ row.status = "failed"

\* ... and a saved row ...
Saved(content, force) ==
  CASE row = Null ->
         [revision |-> 1, applied |-> 0, status |-> "saved",
          content |-> content, previous |-> Null]
    [] row # Null /\ RuntimeChanged(content, force) ->
         NewRevision(row, content,
                     IF row.content # content THEN row.content
                                              ELSE row.previous)
    [] OTHER -> row

\* Defect: a delivery that is over is opened again.
MarkSentAlways(revision) ==
  IF row # Null /\ row.revision = revision
    THEN [row EXCEPT !.status = "sent"] ELSE row

\* markDeploymentConfigSent
MarkSent(revision) ==
  IF /\ row # Null
     /\ revision # 0
     /\ row.revision = revision
     /\ row.status \in Pending
    THEN [row EXCEPT !.status = "sent"] ELSE row

\* MarkDeploymentConfigUnavailable
MarkUnavailable(revision, status) ==
  IF /\ row # Null
     /\ revision # 0
     /\ row.revision = revision
     /\ row.status = "saved"
    THEN [row EXCEPT !.status = status] ELSE row

\* Defect: a result closes whatever revision is desired now.
CompletedAny(revision, status) ==
  IF row = Null THEN row
  ELSE [row EXCEPT !.status = status,
                   !.applied = IF status = "applied" THEN row.revision ELSE @]

\* CompleteDeploymentConfigDelivery and completeDeploymentConfig
Completed(revision, status) ==
  IF row # Null /\ row.revision = revision
    THEN [row EXCEPT !.status = status,
                     !.applied = IF status = "applied" THEN revision ELSE @]
    ELSE row

-----------------------------------------------------------------------------
(* GetDeploymentProfileWithDelivery, a statement at a time. *)

Step(p, rec) == proc' = [proc EXCEPT ![p] = rec]
End(p) == Step(p, Idle)

ReadClient(p) ==
  /\ proc[p].pc = "client"
  /\ Step(p, [proc[p] EXCEPT !.pc = "row", !.day = day])
  /\ UNCHANGED <<day, row, chan, queue, sent, agentVars>>

\* applyRuntime on the profile that was read.
Merge(request, content) ==
  [runtime |-> request.runtime,
   nic |-> IF request.nic = Null THEN content.nic ELSE request.nic,
   day |-> IF request.day = Null THEN content.day ELSE request.day]

\* copyDeploymentRuntime of deploymentProfileFromRuntime: PreviousRuntime says
\* nothing of the address source, so it comes out false.
RolledBack(previous) ==
  [runtime |-> previous.runtime, nic |-> FALSE, day |-> previous.day]

\* What the caller does with the row it got: r is Null for "not saved".
\* DispatchCurrent, UpdateDesiredConfig, RollbackOnlineConfig, the approval of
\* an enrollment, GetDesired with GetDesiredConfig or WaitForDesired, and
\* getClientRuntimeConfig.
Continue(me, r) ==
  LET got == [me EXCEPT !.seen = r, !.day = Null, !.attempt = 1]
  IN CASE me.op = "edit" ->
            IF r = Null THEN Idle ELSE [got EXCEPT !.pc = "hasWatch"]
       [] me.op = "update" ->
            IF me.known # RevisionOf(r) THEN Idle
            ELSE [got EXCEPT !.pc = "save",
                    !.want = Merge(@, IF r = Null THEN DefaultContent(me.day)
                                                  ELSE r.content)]
       [] me.op = "rollback" ->
            IF r = Null THEN Idle
            ELSE IF r.previous = Null THEN Idle
            ELSE [got EXCEPT !.pc = "save", !.force = TRUE,
                             !.want = RolledBack(r.previous)]
       [] me.op = "enroll" ->
            IF r # Null THEN Idle
            ELSE [got EXCEPT !.pc = "save", !.force = TRUE,
                             !.want = DefaultContent(day)]
       [] me.op = "poll" ->
            IF RevisionOf(r) <= me.known THEN Idle
            ELSE [got EXCEPT !.pc = "markSent"]
       [] me.op = "watch" ->
            IF RevisionOf(r) <= me.known
              THEN [got EXCEPT !.pc = "select", !.seen = Null]
              ELSE [got EXCEPT !.pc = "send"]
       [] me.op = "basic" ->
            IF r = Null THEN Idle ELSE [got EXCEPT !.pc = "send"]

ReadRow(p) ==
  /\ proc[p].pc = "row"
  /\ Step(p, IF row = Null THEN Continue(proc[p], Null)
             ELSE [proc[p] EXCEPT !.seen = ReadOf(row),
                     !.pc = IF row.content.day = DayOf(proc[p].day)
                              THEN "final" ELSE "repair"])
  /\ UNCHANGED <<day, row, chan, queue, sent, agentVars>>

Repair(p) ==
  /\ proc[p].pc = "repair"
  /\ row.revision < MaxRevision
  /\ Unchanged(proc[p].seen, proc[p].day)
  /\ row' = Reconciled(row, proc[p].day)
  /\ Step(p, [proc[p] EXCEPT !.pc = "final"])
  /\ UNCHANGED <<day, chan, queue, sent, agentVars>>

\* errDeploymentSnapshotChanged: begin again, up to the third time.  Then the
\* call fails, but the approval of an enrollment ignores the error and takes
\* the profile for missing.
RepairConflict(p) ==
  /\ proc[p].pc = "repair"
  /\ ~Unchanged(proc[p].seen, proc[p].day)
  /\ Step(p, IF proc[p].attempt = MaxAttempts
               THEN IF proc[p].op = "enroll" THEN Continue(proc[p], Null) ELSE Idle
             ELSE [proc[p] EXCEPT !.pc = "client", !.seen = Null, !.day = Null,
                                  !.attempt = @ + 1])
  /\ chan' = IF p \in Calls /\ proc[p].attempt = MaxAttempts
               THEN [chan EXCEPT ![p] = "none"] ELSE chan
  /\ UNCHANGED <<day, row, queue, sent, agentVars>>

\* Defect: the revision of this row goes with the content read before.
ReadFinalRevision(p) ==
  /\ proc[p].pc = "final"
  /\ Step(p, Continue(proc[p],
                      [ReadOf(row) EXCEPT !.content = proc[p].seen.content]))
  /\ UNCHANGED <<day, row, chan, queue, sent, agentVars>>

ReadFinal(p) ==
  /\ proc[p].pc = "final"
  /\ Step(p, Continue(proc[p], ReadOf(row)))
  /\ UNCHANGED <<day, row, chan, queue, sent, agentVars>>

-----------------------------------------------------------------------------
(* Administrators. *)

Start(p, rec) ==
  /\ proc[p].pc = "idle"
  /\ Step(p, rec)

\* adminEditClient: the client and the profile change in one transaction,
\* and DispatchCurrent reads what it left.
Edit(a, d) ==
  /\ RevisionOf(row) < MaxRevision
  /\ Start(a, [Idle EXCEPT !.op = "edit", !.pc = "client"])
  /\ day' = d
  /\ row' = IF row = Null THEN Null ELSE Reconciled(row, d)
  /\ UNCHANGED <<chan, queue, sent, agentVars>>

\* UpdateDesiredConfig and SaveDeploymentProfile of the Connect API: the
\* administrator expects the revision on the screen.
Update(a, request, force) ==
  /\ Start(a, [Idle EXCEPT !.op = "update", !.pc = "client",
                           !.known = RevisionOf(row), !.want = request,
                           !.force = force])
  /\ UNCHANGED <<day, row, chan, queue, sent, agentVars>>

\* The JSON-RPC editor saves a whole profile and expects no revision.
SaveWhole(a, request, force) ==
  /\ Start(a, [Idle EXCEPT !.op = "save", !.pc = "save", !.force = force,
                 !.want = Merge(request, IF row = Null THEN DefaultContent(day)
                                                       ELSE row.content)])
  /\ UNCHANGED <<day, row, chan, queue, sent, agentVars>>

RollbackOnlineConfig(a) ==
  /\ Start(a, [Idle EXCEPT !.op = "rollback", !.pc = "client"])
  /\ UNCHANGED <<day, row, chan, queue, sent, agentVars>>

\* ApproveEnrollment of an existing agent gives it the default profile if it
\* has none.
ApproveEnrollment(a) ==
  /\ Start(a, [Idle EXCEPT !.op = "enroll", !.pc = "client"])
  /\ UNCHANGED <<day, row, chan, queue, sent, agentVars>>

\* The transaction of saveDeploymentProfileForDispatch.
SaveProfile(a) ==
  LET me == proc[a]
      new == Saved(me.want, me.force)
  IN /\ me.pc = "save"
     /\ RevisionOf(row) < MaxRevision
     /\ day' = me.want.day
     /\ row' = new
     /\ Step(a, IF RuntimeChanged(me.want, me.force)
                  THEN [me EXCEPT !.pc = "hasWatch", !.seen = ReadOf(new),
                                  !.want = Null, !.force = FALSE, !.known = 0]
                  ELSE Idle)
     /\ UNCHANGED <<chan, queue, sent, agentVars>>

\* dispatch: is a watch registered?
Registered(c) ==
  /\ proc[c].op = "watch"
  /\ proc[c].pc \in {"subscribe", "client", "row", "repair", "final", "select"}

HasWatch(a) ==
  /\ proc[a].pc = "hasWatch"
  /\ Step(a, [proc[a] EXCEPT !.pc = "signal",
                             !.watched = \E c \in Calls : Registered(c)])
  /\ UNCHANGED <<day, row, chan, queue, sent, agentVars>>

\* Defect: a new channel is put in the place of one that is left open.
SignalKeepsOpen(a) ==
  /\ proc[a].pc = "signal"
  /\ Step(a, IF proc[a].watched THEN Idle
             ELSE [proc[a] EXCEPT !.pc = "transport"])
  /\ UNCHANGED <<day, row, chan, queue, sent, agentVars>>

\* Close the current channel and put a new one in its place.
Signal(a) ==
  /\ proc[a].pc = "signal"
  /\ chan' = [c \in Calls |-> IF chan[c] = "open" THEN "closed" ELSE chan[c]]
  /\ Step(a, IF proc[a].watched THEN Idle
             ELSE [proc[a] EXCEPT !.pc = "transport"])
  /\ UNCHANGED <<day, row, queue, sent, agentVars>>

\* What Connect says of a row (runtimeToProto) ...
MessageOf(r) == [revision |-> r.revision, content |-> r.content]

\* ... and what v2 does: RuntimeConfig() with the revision.
ConfigParams(r) ==
  [revision |-> r.revision, content |-> [r.content EXCEPT !.nic = Null]]

\* A Connect agent polls; a v2 agent gets an event, now if it has a socket,
\* and the new event replaces the queued one; an older one cannot take it.
Transport(a) ==
  LET me == proc[a] IN
  /\ me.pc = "transport"
  /\ \/ /\ link = "connect"
        /\ End(a)
        /\ UNCHANGED <<queue, sent>>
     \/ /\ link \in {"v2", "v2poll"}
        /\ queue' = ConfigParams(me.seen)
        /\ End(a)
        /\ UNCHANGED sent
     \/ /\ link = "v2"
        /\ queue' = ConfigParams(me.seen)
        /\ sent' = sent \cup {ConfigParams(me.seen)}
        /\ Step(a, [me EXCEPT !.pc = "markSent"])
     \/ /\ link \in {"old", "offline"}
        /\ Step(a, [me EXCEPT !.pc = IF link = "old" THEN "upgrade-required"
                                                     ELSE "offline"])
        /\ UNCHANGED <<queue, sent>>
  /\ UNCHANGED <<day, row, chan, agentVars>>

DispatchMark(a) ==
  /\ proc[a].pc \in {"markSent", "offline", "upgrade-required"}
  /\ row' = IF proc[a].pc = "markSent" THEN MarkSent(proc[a].seen.revision)
            ELSE MarkUnavailable(proc[a].seen.revision, proc[a].pc)
  /\ End(a)
  /\ UNCHANGED <<day, chan, queue, sent, agentVars>>

-----------------------------------------------------------------------------
(* The agent's calls. *)

GetDesiredConfig(c) ==
  /\ link = "connect"
  /\ Start(c, [Idle EXCEPT !.op = "poll", !.pc = "client",
                           !.known = agent.revision])
  /\ UNCHANGED <<day, row, chan, queue, sent, agentVars>>

\* The answer to a poll is marked sent before it is sent, and may be lost.
AnswerPoll(c) ==
  /\ proc[c].op = "poll" /\ proc[c].pc = "markSent"
  /\ row' = MarkSent(proc[c].seen.revision)
  /\ \/ proc[c].live /\ sent' = sent \cup {MessageOf(proc[c].seen)}
     \/ UNCHANGED sent
  /\ End(c)
  /\ UNCHANGED <<day, chan, queue, agentVars>>

WatchDesiredConfig(c) ==
  /\ link = "connect"
  /\ Start(c, [Idle EXCEPT !.op = "watch", !.pc = "subscribe",
                           !.known = agent.revision])
  /\ UNCHANGED <<day, row, chan, queue, sent, agentVars>>

\* signalFor, and then the read.
Subscribe(c) ==
  /\ proc[c].pc = "subscribe"
  /\ chan' = [chan EXCEPT ![c] = "open"]
  /\ Step(c, [proc[c] EXCEPT !.pc = "client"])
  /\ UNCHANGED <<day, row, queue, sent, agentVars>>

\* <-currentSignal
Wake(c) ==
  /\ proc[c].pc = "select" /\ chan[c] = "closed"
  /\ Step(c, [proc[c] EXCEPT !.pc = "subscribe"])
  /\ UNCHANGED <<day, row, chan, queue, sent, agentVars>>

\* ctx.Done()
Cancel(c) ==
  /\ proc[c].pc = "select"
  /\ End(c)
  /\ chan' = [chan EXCEPT ![c] = "none"]
  /\ UNCHANGED <<day, row, queue, sent, agentVars>>

\* A watch that has something to say is no longer registered: it sends and
\* marks, or fails.  The answer to basic info is not marked.
Send(c) ==
  /\ proc[c].pc = "send" /\ proc[c].live
  /\ sent' = sent \cup {IF proc[c].op = "watch" THEN MessageOf(proc[c].seen)
                                               ELSE ConfigParams(proc[c].seen)}
  /\ Step(c, IF proc[c].op = "watch" THEN [proc[c] EXCEPT !.pc = "markSent"]
                                     ELSE Idle)
  /\ chan' = [chan EXCEPT ![c] = "none"]
  /\ UNCHANGED <<day, row, queue, agentVars>>

SendFails(c) ==
  /\ proc[c].pc = "send"
  /\ End(c)
  /\ chan' = [chan EXCEPT ![c] = "none"]
  /\ UNCHANGED <<day, row, queue, sent, agentVars>>

MarkWatch(c) ==
  /\ proc[c].op = "watch" /\ proc[c].pc = "markSent"
  /\ row' = MarkSent(proc[c].seen.revision)
  /\ End(c)
  /\ UNCHANGED <<day, chan, queue, sent, agentVars>>

\* AcknowledgeConfig, and config_result of basic info: sent again when the
\* answer is lost, and so at any later time.
Acknowledge(o) ==
  /\ row' = Completed(o.revision, o.status)
  /\ UNCHANGED <<day, proc, chan, queue, sent, agentVars>>

\* Basic info of an agent before Connect: AdoptTrafficResetDay first ...
BasicInfo(c) ==
  /\ link \in {"v2", "v2poll", "old"}
  /\ \/ day' = IF day = Null THEN agent.content.day ELSE day
     \/ UNCHANGED day
  /\ Start(c, [Idle EXCEPT !.op = "basic", !.want = agent.content,
                 !.pc = IF link = "old" THEN "client" ELSE "adopt"])
  /\ UNCHANGED <<row, chan, queue, sent, agentVars>>

\* ... then, for v2, AdoptDeploymentRuntimeConfig of what the agent runs:
\* the reset day of the client, if it has one, replaces the reported one,
\* and matching content closes the delivery.
Reported(me) == [me.want EXCEPT !.nic = FALSE,
                                !.day = IF day = Null THEN @ ELSE day]

\* RuntimeConfig() of the managed profile and of the report are equal.
SameRuntime(content, reported) ==
  /\ content.runtime = reported.runtime
  /\ (IF day = Null THEN content.day ELSE day) = reported.day

Adopted(reported) ==
  CASE row = Null ->
         [revision |-> 1, applied |-> 1, status |-> "applied",
          content |-> reported, previous |-> Null]
    [] row # Null /\ SameRuntime(row.content, reported) ->
         LET revision == IF row.revision = 0 THEN 1 ELSE row.revision
         IN IF row.revision = revision /\ row.status = "applied" THEN row
            ELSE [row EXCEPT !.revision = revision, !.applied = revision,
                             !.status = "applied"]
    [] OTHER ->
         IF row.revision = 0
           THEN [row EXCEPT !.revision = 1, !.status = "saved"] ELSE row

AdoptRuntime(c) ==
  /\ proc[c].pc = "adopt"
  /\ row' = Adopted(Reported(proc[c]))
  /\ day' = IF row = Null /\ day = Null THEN Reported(proc[c]).day ELSE day
  /\ adopted' = IF row' # row /\ row'.status = "applied"
                  THEN adopted \cup {row'.revision} ELSE adopted
  /\ Step(c, [proc[c] EXCEPT !.pc = "client", !.want = Null])
  /\ UNCHANGED <<chan, queue, sent, link, agent, ran, outcome>>

\* config_state is absent.
SkipAdopt(c) ==
  /\ proc[c].pc = "adopt"
  /\ Step(c, [proc[c] EXCEPT !.pc = "client", !.want = Null])
  /\ UNCHANGED <<day, row, chan, queue, sent, agentVars>>

\* A v2 report takes the queued event, which stays until it is acknowledged
\* or its time is over.
TakeV2Events ==
  /\ queue # Null
  /\ link \in {"v2", "v2poll"}
  /\ sent' = sent \cup {queue}
  /\ UNCHANGED <<day, row, proc, chan, queue, agentVars>>

DropV2Event ==
  /\ queue # Null
  /\ queue' = Null
  /\ UNCHANGED <<day, row, proc, chan, sent, agentVars>>

-----------------------------------------------------------------------------
(* The agent, which is not in this repository. *)

Undecided(m) == \A o \in outcome : o.revision # m.revision

\* A message leaves alone the setting it does not carry.
Applying(m) ==
  [m.content EXCEPT !.nic = IF @ = Null THEN agent.content.nic ELSE @]

\* It runs what is newer than what it runs, ...
Run(m) ==
  /\ m.revision > agent.revision
  /\ Undecided(m)
  /\ agent' = [revision |-> m.revision, content |-> Applying(m)]
  /\ ran' = ran \cup {Applying(m)}
  /\ outcome' = outcome \cup {[revision |-> m.revision, status |-> "applied"]}
  /\ UNCHANGED <<day, row, proc, chan, queue, link, sent, adopted>>

\* ... or cannot, and says so once and for all.
Refuse(m, status) ==
  /\ m.revision > agent.revision
  /\ Undecided(m)
  /\ outcome' = outcome \cup {[revision |-> m.revision, status |-> status]}
  /\ UNCHANGED <<day, row, proc, chan, queue, link, sent, agent, ran,
                 adopted>>

\* It comes back over another link: nobody reads the answers to its calls.
Reconnect(l) ==
  /\ <<link, l>> \in Moves
  /\ link' = l
  /\ proc' = [p \in Procs |->
                IF p \in Calls /\ proc[p].pc # "idle"
                  THEN [proc[p] EXCEPT !.live = FALSE] ELSE proc[p]]
  /\ UNCHANGED <<day, row, chan, queue, sent, agent, ran, adopted, outcome>>

-----------------------------------------------------------------------------
(* The specification. *)

Reading(p) ==
  ReadClient(p) \/ ReadRow(p) \/ Repair(p) \/ RepairConflict(p) \/ ReadFinal(p)

AdminBegins(a) ==
  \/ \E d \in Edits : Edit(a, d)
  \/ \E request \in Requests, force \in BOOLEAN :
        Update(a, request, force) \/ SaveWhole(a, request, force)
  \/ RollbackOnlineConfig(a)
  \/ ApproveEnrollment(a)

AdminGoesOn(a) ==
  \/ Reading(a)
  \/ SaveProfile(a) \/ HasWatch(a) \/ Signal(a) \/ Transport(a)
  \/ DispatchMark(a)

CallBegins(c) == GetDesiredConfig(c) \/ WatchDesiredConfig(c) \/ BasicInfo(c)

CallGoesOn(c) ==
  \/ Reading(c)
  \/ AnswerPoll(c) \/ Subscribe(c) \/ Wake(c) \/ Send(c) \/ SendFails(c)
  \/ MarkWatch(c) \/ AdoptRuntime(c) \/ SkipAdopt(c)

AgentNext ==
  \/ \E m \in sent : \/ Run(m)
                     \/ \E s \in Refusals : Refuse(m, s)
  \/ \E o \in outcome : Acknowledge(o)
  \/ \E l \in Links : Reconnect(l)
  \/ TakeV2Events
  \/ DropV2Event

Next ==
  \/ \E a \in Admins : AdminBegins(a) \/ AdminGoesOn(a)
  \/ \E c \in Calls : CallBegins(c) \/ CallGoesOn(c) \/ Cancel(c)
  \/ AgentNext

Spec == Init /\ [][Next]_vars

\* A call that has begun goes on until it waits for something: a goroutine is
\* not held back for ever.  A watch may still be cancelled or fail.
FairSpec ==
  /\ Spec
  /\ \A a \in Admins : WF_vars(AdminGoesOn(a))
  /\ \A c \in Calls : WF_vars(CallGoesOn(c))

-----------------------------------------------------------------------------
(* Properties. *)

\* The content agrees with what a message carries.
Agrees(content, carried) ==
  /\ content.runtime = carried.runtime
  /\ content.day = carried.day
  /\ carried.nic \in {content.nic, Null}

\* A revision means one content.  Whatever carries it to the agent (a watch,
\* a poll, the answer to basic info, an event) carries what the row holds
\* under it, although a billing edit may commit between any two of the reads:
\* "Config and delivery revision must come from the same row."  A v2 message
\* says nothing of the address source; what it does say agrees with the row,
\* and with what Connect says of the same revision.
RevisionMeaning ==
  /\ DeploymentTypeOK
  /\ \A m \in sent :
       /\ row # Null
       /\ m.revision <= row.revision
       /\ m.revision = row.revision => Agrees(row.content, m.content)
       /\ \A n \in sent : m.revision = n.revision =>
            \E x \in Content : Agrees(x, m.content) /\ Agrees(x, n.content)

\* The row says "applied" only of the revision that is desired, and only if
\* the agent has run its settings.  No result of an older revision, however
\* late, closes a newer one.  If it answered to the revision, it ran all that
\* a message of it carried: the address source is claimed of Connect only,
\* for v2 does not carry it.  If instead its report of what it runs was
\* adopted, neither the address source nor the reset day is claimed:
\* RuntimeConfig() has no address source to compare, so that a revision that
\* changes nothing else is closed without having been run, and the reset day
\* of the client replaces the reported one before the comparison.
AppliedWasRun ==
  (row # Null /\ row.status = "applied") =>
    /\ row.applied = row.revision
    /\ \E x \in ran :
         /\ x.runtime = row.content.runtime
         /\ \/ row.revision \in adopted
            \/ \E m \in sent : m.revision = row.revision /\ Agrees(x, m.content)

\* A delivery that is over does not go back to "saved", "sent" or "offline":
\* the mark of a slow sender, which comes after the agent has answered, is
\* not applied.  Only a new revision, or another answer of the agent (it may
\* still say that it must be upgraded), changes what the row says.
DeliveryStaysClosed ==
  [][(row # Null /\ row.status \in Closed /\ row'.revision = row.revision)
       => row'.status \in Closed \cup {"upgrade-required"}]_vars

\* "WaitForDesired blocks until a newer revision is persisted": a watch that
\* sleeps while there is one does not sleep on, whatever was committed and
\* signalled between its read and its sleep.
WatcherServed ==
  \A c \in Calls :
    (proc[c].pc = "select" /\ RevisionOf(row) > proc[c].known)
      ~> proc[c].pc # "select"

\* "the prior runtime values merged into the current install-only profile":
\* a rollback leaves the address source as the desired revision has it, or
\* puts back the one before.
RollbackKeepsAddressSource ==
  \A a \in Admins :
    (proc[a].op = "rollback" /\ proc[a].pc = "save") =>
      proc[a].want.nic \in {proc[a].seen.content.nic, proc[a].seen.previous.nic}

\* "configuration revision conflict": an update is saved only over the
\* revision the administrator expected.
UpdateOverExpected ==
  [][\A a \in Admins :
       (proc[a].op = "update" /\ proc[a].pc = "save" /\ proc'[a].pc # "save")
         => RevisionOf(row) = proc[a].known]_vars

=============================================================================
