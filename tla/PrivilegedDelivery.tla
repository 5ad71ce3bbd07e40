------------------------- MODULE PrivilegedDelivery -------------------------
(***************************************************************************)
(* The privileged configuration track of one node                          *)
(* (database/privilegeddelivery): an administrator saves a revision,       *)
(* confirms it with a second factor, the host tool claims the approval as  *)
(* one operation under a lease and reports its phases, and the daemon's    *)
(* observation moves the applied pointer.  Every handler is one database   *)
(* transaction that locks the node's state row, so every accepted call is  *)
(* one action.  A refused call rolls its transaction back and changes      *)
(* nothing: it is a stuttering step, and the guard of an action is the     *)
(* conjunction of the checks the call passes.                              *)
(*                                                                         *)
(* The hash of a revision stands for its settings, which no handler ever   *)
(* rewrites, so a caller that quotes the revision quotes the hash.  A nonce *)
(* is the generation it was issued for (0 is the empty string).            *)
(***************************************************************************)
EXTENDS Integers, FiniteSets

CONSTANTS
  MaxRevision,      \* bound: revisions saved for the node
  MaxTime,          \* bound: ticks of the clock
  NonceLifetime,    \* nonceLifetime, privilegeddelivery.go:56
  LeaseLifetime,    \* ten minutes, host.go:94
  ClockSkew,        \* five minutes, host.go:221
  Requests,         \* settings an administrator or an installer may ask for
  Effects,          \* capabilities a daemon may report as effective
  Profiles,         \* installation fields an ordinary profile may be saved with
  Modes,            \* PrivilegeMode values a service of this node may run as
  SupportedSets,    \* sets of host actions an agent may negotiate
  Services, Startups, OperationIds, ReceiptIds,
  NoService, NoStartup

VARIABLES
  now,        \* wall clock of the server
  node,       \* the node's ClientPrivilegedState row
  rows,       \* its ClientPrivilegedRevision rows
  ops,        \* its ClientHostOperation rows
  receipts,   \* the keys of its ClientPrivilegedReceipt rows
  eligible,   \* config_baseline_eligible of its Client row
  profile     \* the installation fields of its ClientDeploymentProfile row

vars == <<now, node, rows, ops, receipts, eligible, profile>>

-----------------------------------------------------------------------------
(* Types. *)

Nil == -1                        \* a nil *time.Time
Revisions == 1..MaxRevision
SetIdentity == 1                 \* HostAction values
InstallHelper == 2
RemoveHelper == 3
HostActions == {SetIdentity, InstallHelper, RemoveHelper}

\* HostOperationPhase values; 0 is an operation that does not exist.
Prepared == 1
LocalApplied == 3
Restored == 4
Phases == 0..5

Settings == [remote: BOOLEAN, webssh: BOOLEAN, execution: BOOLEAN,
             gpu: BOOLEAN, helper: BOOLEAN, mode: 0..5]
Capabilities == [remote: BOOLEAN, webssh: BOOLEAN, execution: BOOLEAN,
                 gpu: BOOLEAN, helper: BOOLEAN]

\* saved is FALSE while there is no row; rescue is RescueEnabled, privileged
\* is RuntimeIdentity = root-or-administrator.
Profile == [saved: BOOLEAN, remote: BOOLEAN, gpu: BOOLEAN, rescue: BOOLEAN,
            privileged: BOOLEAN]

RowStates == {"absent", "needs_confirmation", "needs_manual",
              "awaiting_agent", "applying", "delivered", "failed",
              "superseded", "expired"}

ASSUME PrivilegedDeliveryAssumption ==
  /\ MaxRevision \in Nat
  /\ MaxTime \in Nat
  /\ NonceLifetime \in Nat \ {0}
  /\ LeaseLifetime \in Nat \ {0}
  /\ ClockSkew \in Nat
  /\ Requests \subseteq Settings
  /\ Effects \subseteq Capabilities
  /\ Profiles \subseteq Profile
  /\ Modes \subseteq 1..5
  /\ SupportedSets \subseteq SUBSET HostActions
  /\ NoService \notin Services
  /\ NoStartup \notin Startups

Row == [protocol: {1, 2}, baseline: BOOLEAN, settings: Settings,
        state: RowStates, gen: Nat, nonce: Nat,
        confirmed: Int, expires: Int, used: BOOLEAN,
        authorized: BOOLEAN, actions: SUBSET HostActions,
        superseded: BOOLEAN, received: BOOLEAN]

Node == [desired: Nat, applied: Nat, seq: Nat, protocol: {1, 2},
         service: Services \cup {NoService}, supported: SUBSET HostActions,
         mode: 0..5, startup: Startups \cup {NoStartup},
         observed: Int, helper: BOOLEAN]

Operation == [phase: Phases, revision: Nat, gen: Nat, lease: Int,
              prior: Startups \cup {NoStartup}]

NoSettings == [remote |-> FALSE, webssh |-> FALSE, execution |-> FALSE,
               gpu |-> FALSE, helper |-> FALSE, mode |-> 0]

NoRow == [protocol |-> 1, baseline |-> FALSE, settings |-> NoSettings,
          state |-> "absent", gen |-> 0, nonce |-> 0,
          confirmed |-> Nil, expires |-> Nil, used |-> FALSE,
          authorized |-> FALSE, actions |-> {},
          superseded |-> FALSE, received |-> FALSE]

NoOperation == [phase |-> 0, revision |-> 0, gen |-> 0, lease |-> Nil,
                prior |-> NoStartup]

NoProfile == [saved |-> FALSE, remote |-> FALSE, gpu |-> FALSE,
              rescue |-> FALSE, privileged |-> FALSE]

TypeOK ==
  /\ now \in 0..MaxTime
  /\ node \in Node
  /\ node.protocol = 2 => node.mode \in 1..5
  /\ rows \in [Revisions -> Row]
  /\ \A r \in Revisions :
       rows[r].protocol = 2 => rows[r].settings.mode \in 1..5
  /\ ops \in [OperationIds -> Operation]
  /\ receipts \subseteq ReceiptIds
  /\ eligible \in BOOLEAN
  /\ profile \in Profile

-----------------------------------------------------------------------------
(* Helpers of the handlers. *)

Exists(r) == r \in Revisions /\ rows[r].state # "absent"    \* lockRevision

\* Defect: an expired approval is not invalidated by the next save.
LiveStatesButExpired == {"needs_confirmation", "needs_manual",
                         "awaiting_agent", "applying"}

\* The states Save supersedes.
LiveStates == {"needs_confirmation", "needs_manual", "awaiting_agent",
               "applying", "expired"}

MasterGrantsChildren(s) == (s.webssh \/ s.execution) => s.remote

\* Defect: an identity left open by the caller is stored unresolved.
UnresolvedMode(s) == s

\* Save binds the identity the service runs as when the caller names none.
ResolveMode(s) == [s EXCEPT !.mode = IF @ = 0 THEN node.mode ELSE @]

\* Defect: the row is saved and the node's cursor is not.
AdvanceRowOnly(r, row, state) ==
  /\ rows' = [rows EXCEPT ![r] = row]
  /\ node' = state

\* advance: the row and the node get the next cursor, in one transaction.
Advance(r, row, state) ==
  /\ rows' = [rows EXCEPT ![r] = row]
  /\ node' = [state EXCEPT !.seq = node.seq + 1]

ValidateCurrent(r) ==
  /\ rows[r].protocol = 2
  /\ node.protocol = 2
  /\ node.desired = r
  /\ ~rows[r].superseded
  /\ rows[r].state # "superseded"
  /\ rows[r].confirmed # Nil
  /\ rows[r].gen # 0

RequiredActions(r) ==
  LET s == rows[r].settings
      installed == node.observed # Nil /\ node.helper
  IN  {a \in HostActions :
         \/ a = SetIdentity   /\ s.mode # node.mode
         \/ a = InstallHelper /\ s.helper /\ ~installed
         \/ a = RemoveHelper  /\ ~s.helper /\ installed}

SupportsActions(required) == required \subseteq node.supported

\* receipt: a new key is recorded when the transaction commits.  A known key
\* with the same content is answered from the stored row, one with other
\* content is refused; neither changes anything.
Record(key) ==
  /\ key \notin receipts
  /\ receipts' = receipts \cup {key}

\* Defect: a repeated confirmation is always a new one.
NeverActive(r) == FALSE

\* An approval that still stands: Confirm returns it unchanged.
ApprovalActive(r) ==
  /\ rows[r].confirmed # Nil
  /\ rows[r].expires # Nil
  /\ now < rows[r].expires
  /\ rows[r].state \in {"needs_manual", "awaiting_agent", "applying"}

\* An unclaimed approval past its deadline, which a locked read expires.
Lapsed(row) ==
  /\ row.confirmed # Nil
  /\ row.expires # Nil
  /\ now >= row.expires
  /\ row.state \in {"needs_manual", "awaiting_agent"}

\* Defect: an approval the host already claimed can be issued again.
ConfirmableEvenClaimed == {"needs_confirmation", "expired", "needs_manual",
                           "awaiting_agent", "applying"}

ConfirmableStates == {"needs_confirmation", "expired", "needs_manual",
                      "awaiting_agent"}

\* Defect: the lease runs past the approval it was claimed under.
UncappedLease(r) == now + LeaseLifetime

Lease(r) ==
  LET deadline == now + LeaseLifetime
  IN  IF deadline > rows[r].expires THEN rows[r].expires ELSE deadline

\* Defect: only a failure before the daemon's ACK fails the revision.
SettleUnlessDelivered(row, phase) ==
  IF phase >= 4 /\ row.state # "delivered"
    THEN [row EXCEPT !.state = "failed"] ELSE row

\* The revision after its operation reported phase.
Settle(row, phase) ==
  IF phase >= 4 THEN [row EXCEPT !.state = "failed"]
                ELSE row

\* Defect: any operation of the revision that is not over will do.
SomeHostWork(r, op, startup) ==
  op.revision = r /\ op.gen = rows[r].gen /\ op.phase \in 1..3

\* The host finished the work that the approval's actions call for.
HostWorkDone(r, op, startup) ==
  /\ op.revision = r
  /\ op.gen = rows[r].gen
  /\ op.phase = LocalApplied
  /\ SetIdentity \in rows[r].actions => startup # op.prior

\* Defect: an approval without host actions has no deadline.
NoDeadline(r) == TRUE

\* Without host actions the daemon must answer before the deadline; the
\* installation baseline has none.
BeforeDeadline(r) ==
  rows[r].baseline \/ (rows[r].expires # Nil /\ now < rows[r].expires)

-----------------------------------------------------------------------------
(* Actions of the panel. *)

\* A save by an administrator whose page showed revision expected.
Save(s, expected) ==
  LET r == node.desired + 1 IN
  /\ node.protocol = 2
  /\ expected = node.desired
  /\ MasterGrantsChildren(s)
  /\ r <= MaxRevision
  /\ rows' = [q \in Revisions |->
       IF q = r
         THEN [NoRow EXCEPT !.protocol = 2, !.settings = ResolveMode(s),
                            !.state = "needs_confirmation"]
       ELSE IF rows[q].state \in LiveStates
         THEN [rows[q] EXCEPT !.state = "superseded", !.superseded = TRUE,
                              !.nonce = 0]
       ELSE rows[q]]
  /\ node' = [node EXCEPT !.desired = r, !.seq = @ + 1]
  /\ UNCHANGED <<now, ops, receipts, eligible, profile>>

\* A confirmation with a fresh second factor that issues an approval.
Confirm(r) ==
  LET actions == RequiredActions(r) IN
  /\ Exists(r)
  /\ node.desired = r
  /\ ~rows[r].superseded
  /\ rows[r].protocol = 2
  /\ ~ApprovalActive(r)
  /\ rows[r].state \in ConfirmableStates
  /\ node.protocol = 2
  /\ node.service # NoService
  /\ SupportsActions(actions)
  /\ Advance(r, [rows[r] EXCEPT
                   !.state = IF actions = {} THEN "awaiting_agent"
                                             ELSE "needs_manual",
                   !.confirmed = now,
                   !.gen = @ + 1,
                   !.nonce = rows[r].gen + 1,
                   !.used = FALSE,
                   !.expires = now + NonceLifetime,
                   !.authorized = TRUE,
                   !.actions = actions],
             node)
  /\ UNCHANGED <<now, ops, receipts, eligible, profile>>

\* The locked read that finds the desired approval past its deadline.
Expire(r) ==
  /\ Exists(r)
  /\ node.desired = r
  /\ Lapsed(rows[r])
  /\ Advance(r, [rows[r] EXCEPT !.state = "expired"], node)
  /\ UNCHANGED <<now, ops, receipts, eligible, profile>>

-----------------------------------------------------------------------------
(* Actions of the agent and of the host tool. *)

Negotiate(service, startup, mode, supported) ==
  /\ node.service \in {NoService, service}
  /\ node' = [node EXCEPT !.protocol = 2, !.service = service,
                          !.startup = startup, !.mode = mode,
                          !.supported = supported, !.seq = @ + 1]
  /\ UNCHANGED <<now, rows, ops, receipts, eligible, profile>>

\* A legacy report is a transport receipt only.
LegacyReport(r) ==
  /\ Exists(r)
  /\ rows[r].state # "superseded"
  /\ ~rows[r].received
  /\ Advance(r, [rows[r] EXCEPT !.received = TRUE], node)
  /\ UNCHANGED <<now, ops, receipts, eligible, profile>>

\* The host tool claims the approval of generation g with nonce k.  The
\* authorization names the service of the node, which is bound for good.
PrepareOperation(id, r, g, k) ==
  /\ Exists(r)
  /\ ValidateCurrent(r)
  /\ g = rows[r].gen
  /\ k # 0 /\ k = rows[r].nonce
  /\ ops[id].phase = 0
  /\ rows[r].state = "needs_manual"
  /\ ~rows[r].used
  /\ rows[r].expires # Nil /\ now < rows[r].expires
  /\ rows[r].authorized
  /\ SupportsActions(rows[r].actions)
  /\ ops' = [ops EXCEPT ![id] =
       [phase |-> Prepared, revision |-> r, gen |-> rows[r].gen,
        lease |-> Lease(r), prior |-> node.startup]]
  /\ Advance(r, [rows[r] EXCEPT !.used = TRUE, !.state = "applying"], node)
  /\ UNCHANGED <<now, receipts, eligible, profile>>

\* A phase reported by the host tool under receipt key.
ReportOperation(id, key, phase) ==
  LET op == ops[id]
      r == op.revision
      current == ValidateCurrent(r) /\ rows[r].gen = op.gen
  IN
  /\ op.phase # 0
  /\ Record(key)
  /\ Exists(r)
  /\ phase <= 3 => current
  /\ op.phase < 4
  /\ ~(op.phase = 3 /\ phase < 4)
  /\ phase \in 2..5
  /\ phase >= op.phase
  /\ ~(rows[r].state = "delivered" /\ phase # Restored)
  /\ ~(rows[r].state = "failed" /\ phase <= 3)
  /\ phase <= 3 => now < op.lease
  /\ ops' = [ops EXCEPT ![id].phase = phase]
  /\ IF current THEN Advance(r, Settle(rows[r], phase), node)
                ELSE UNCHANGED <<node, rows>>
  /\ UNCHANGED <<now, eligible, profile>>

\* The effective capabilities and helper facts a daemon reports match the
\* approved settings; only GPU collection may be less than approved.
Matches(effective, s) ==
  /\ effective.remote = s.remote
  /\ effective.webssh = (s.remote /\ s.webssh)
  /\ effective.execution = (s.remote /\ s.execution)
  /\ effective.gpu => s.gpu
  /\ effective.helper = s.helper

\* UpdateAppliedPrivilegedProfileWithDB: only an existing profile is updated.
InstallationFields(s, mode) ==
  [saved |-> TRUE, remote |-> s.remote, gpu |-> s.gpu, rescue |-> s.helper,
   privileged |-> mode \in {1, 3}]

\* A daemon's observation of generation g of revision r, under receipt key:
\* the only way the applied pointer moves.
Observe(key, r, g, service, startup, mode, observed, id, effective) ==
  LET row == rows[r] IN
  /\ Exists(r)
  /\ Record(key)
  /\ ValidateCurrent(r)
  /\ row.state \in {"applying", "awaiting_agent", "delivered"}
  /\ g = row.gen
  /\ service = node.service
  /\ observed >= row.confirmed
  /\ observed <= now + ClockSkew
  /\ mode = row.settings.mode
  /\ row.authorized
  /\ IF row.actions # {} THEN HostWorkDone(r, ops[id], startup)
                         ELSE BeforeDeadline(r)
  /\ Matches(effective, row.settings)
  /\ node.observed = Nil \/ observed >= node.observed
  /\ Advance(r, [row EXCEPT !.state = "delivered"],
             [node EXCEPT !.applied = r, !.observed = observed,
                          !.helper = effective.helper,
                          !.mode = mode, !.startup = startup])
  /\ profile' = IF profile.saved THEN InstallationFields(row.settings, mode)
                                 ELSE profile
  /\ UNCHANGED <<now, ops, eligible>>

\* A daemon reports that it could not apply generation g of revision r.
FailApply(key, r, g) ==
  /\ Exists(r)
  /\ Record(key)
  /\ ValidateCurrent(r)
  /\ g = rows[r].gen
  /\ rows[r].state \in {"awaiting_agent", "applying", "needs_manual"}
  /\ Advance(r, [rows[r] EXCEPT !.state = "failed"], node)
  /\ UNCHANGED <<now, ops, eligible, profile>>

\* The first connection of an installed daemon creates the baseline.  A
\* baseline that exists made desired 1, so its retry is a stuttering step.
InitializeBaseline(s, service, preserve) ==
  /\ eligible \/ preserve
  /\ node.desired = 0 /\ node.applied = 0
  /\ preserve \/ ~profile.saved
  /\ node.protocol = 2
  /\ node.service = service
  /\ node.mode = s.mode
  /\ ~s.helper
  /\ preserve => ~(s.remote \/ s.webssh \/ s.execution \/ s.gpu)
  /\ MasterGrantsChildren(s)
  /\ MaxRevision > 0
  /\ Advance(1, [NoRow EXCEPT !.protocol = 2, !.baseline = TRUE,
                              !.settings = s, !.gen = 1,
                              !.confirmed = now, !.authorized = TRUE,
                              !.state = "awaiting_agent"],
             [node EXCEPT !.desired = 1])
  /\ profile' = IF preserve THEN profile ELSE InstallationFields(s, s.mode)
  /\ eligible' = FALSE
  /\ UNCHANGED <<now, ops, receipts>>

\* Defect: a save rewrites the whole profile whatever the protocol.
SaveAnyProfile(p) ==
  /\ profile' = p
  /\ UNCHANGED <<now, node, rows, ops, receipts, eligible>>

\* The ordinary track writes the profile: a save by an administrator, or the
\* adoption of what an unmanaged agent reports.  Once the node speaks
\* privileged_delivery_v2 a save may not change the installation fields.
SaveProfile(p) ==
  /\ profile.saved => node.protocol # 2
  /\ profile' = p
  /\ UNCHANGED <<now, node, rows, ops, receipts, eligible>>

-----------------------------------------------------------------------------
(* PrivilegedCapabilityAllowed: may a new session use feature f?           *)

Features == {"remote", "webssh", "execution", "rescue"}

Grants(s, f) ==
  CASE f = "remote"    -> s.remote
    [] f = "webssh"    -> s.remote /\ s.webssh
    [] f = "execution" -> s.remote /\ s.execution
    [] f = "rescue"    -> s.helper

Allows(r, f) == rows[r].state # "failed" /\ Grants(rows[r].settings, f)

\* Before privileged_delivery_v2 is negotiated the deployment profile decides.
LegacyAllowed(f) ==
  profile.saved /\ (IF f = "rescue" THEN profile.rescue ELSE profile.remote)

CapabilityAllowed(f) ==
  IF node.protocol # 2 THEN LegacyAllowed(f)
  ELSE node.applied # 0 /\ Allows(node.applied, f) /\ Allows(node.desired, f)

-----------------------------------------------------------------------------
(* Time, and the specification. *)

Tick ==
  /\ now < MaxTime
  /\ now' = now + 1
  /\ UNCHANGED <<node, rows, ops, receipts, eligible, profile>>

\* A revision left by the protocol before privileged_delivery_v2: confirmed,
\* with a nonce that was never bound to a generation.
Legacy == [NoRow EXCEPT !.state = "needs_manual", !.confirmed = 0,
                        !.expires = NonceLifetime]

\* The state row as lockState creates it: no history, or a legacy revision.
Init ==
  /\ now = 0
  /\ \E legacy \in BOOLEAN :
       /\ legacy => MaxRevision > 0
       /\ rows = [r \in Revisions |-> IF legacy /\ r = 1 THEN Legacy
                                                         ELSE NoRow]
       /\ node = [desired |-> IF legacy THEN 1 ELSE 0, applied |-> 0,
                  seq |-> 0, protocol |-> 1, service |-> NoService,
                  supported |-> {}, mode |-> 0, startup |-> NoStartup,
                  observed |-> Nil, helper |-> FALSE]
       /\ eligible \in {FALSE, ~legacy}
  /\ ops = [id \in OperationIds |-> NoOperation]
  /\ receipts = {}
  /\ profile = NoProfile

\* Requests name no mode ("keep the current identity") or one; an installer
\* always names the mode it installed.
Installations == {[s EXCEPT !.mode = mode] : s \in Requests, mode \in Modes}

Panel ==
  \/ \E s \in Requests, expected \in 0..MaxRevision : Save(s, expected)
  \/ \E r \in Revisions : Confirm(r)
  \/ \E r \in Revisions : Expire(r)
  \/ \E p \in Profiles : SaveProfile(p)

Agent ==
  \/ \E service \in Services, startup \in Startups, mode \in Modes,
        supported \in SupportedSets :
       Negotiate(service, startup, mode, supported)
  \/ \E r \in Revisions : LegacyReport(r)
  \/ \E s \in Installations, service \in Services, preserve \in BOOLEAN :
       InitializeBaseline(s, service, preserve)
  \/ \E key \in ReceiptIds, r \in Revisions, service \in Services,
        startup \in Startups, mode \in Modes,
        observed \in 0..(now + ClockSkew), id \in OperationIds,
        effective \in Effects :
       \E g \in 0..rows[r].gen :
         Observe(key, r, g, service, startup, mode, observed, id, effective)
  \/ \E key \in ReceiptIds, r \in Revisions :
       \E g \in 0..rows[r].gen : FailApply(key, r, g)

HostTool ==
  \/ \E id \in OperationIds, r \in Revisions :
       \E g, k \in 0..rows[r].gen : PrepareOperation(id, r, g, k)
  \/ \E id \in OperationIds, key \in ReceiptIds, phase \in 2..5 :
       ReportOperation(id, key, phase)

Next == Panel \/ Agent \/ HostTool \/ Tick

Spec == Init /\ [][Next]_vars

-----------------------------------------------------------------------------
(* Properties. *)

\* At most one revision of a node can still be approved or executed, and it
\* is the desired one: Save invalidates every other in its own transaction.
OneLiveRevision ==
  \A r \in Revisions : r # node.desired =>
    rows[r].state \in {"absent", "delivered", "failed", "superseded"}

\* The state of a revision whose approval an operation has claimed.
ClaimedStates == {"applying", "delivered", "failed", "superseded"}

\* An approval is spent once: however confirmations, expiries and prepare
\* retries interleave, a revision has at most one host operation, and the
\* revision never becomes claimable or confirmable again.
ApprovalClaimedOnce ==
  \A i \in OperationIds : ops[i].phase # 0 =>
    /\ rows[ops[i].revision].state \in ClaimedStates
    /\ \A j \in OperationIds :
         ops[j].phase # 0 /\ ops[j].revision = ops[i].revision => i = j

\* The applied pointer names a revision that an administrator or the
\* installer approved, and whose host actions, when it has any, an operation
\* of that same approval completed before the daemon acknowledged it.
AppliedWasApprovedAndDone ==
  LET row == rows[node.applied] IN
  node.applied # 0 =>
    /\ node.applied <= node.desired
    /\ row.state \in {"delivered", "failed"}
    /\ row.confirmed # Nil /\ row.authorized
    /\ row.actions # {} =>
         \E i \in OperationIds :
           /\ ops[i].revision = node.applied
           /\ ops[i].gen = row.gen
           /\ ops[i].phase >= LocalApplied

\* Host work progresses, up to LOCAL_APPLIED, only while the approval it was
\* claimed under stands: a lease never outlives the nonce, whenever the
\* approval was claimed and however late the report is.
HostWorkInsideApproval ==
  [][\A i \in OperationIds :
       ops'[i].phase # ops[i].phase /\ ops'[i].phase <= LocalApplied
         => now < rows[ops'[i].revision].expires]_vars

\* A revision without host actions is delivered before its approval lapses:
\* an observation that was delayed past the deadline cannot apply it.
NoLateAcknowledgement ==
  [][\A r \in Revisions :
       (/\ rows[r].state # "delivered" /\ rows'[r].state = "delivered"
        /\ rows[r].actions = {} /\ ~rows[r].baseline)
       => rows[r].confirmed <= now /\ now < rows[r].expires]_vars

\* Once the host reports the desired revision failed or restored, no
\* capability is open to a new session, even when the daemon's
\* acknowledgement of that revision came first.
RestoredDesiredDenied ==
  \A i \in OperationIds, f \in Features :
    ops[i].phase >= Restored /\ ops[i].revision = node.desired
      => ~CapabilityAllowed(f)

\* Failed and superseded are final, and a delivered revision can only fail:
\* no late, duplicated or reordered report revives a revision.
RevisionLifecycle ==
  [][\A r \in Revisions :
       /\ rows[r].state \in {"failed", "superseded"}
            => rows'[r].state = rows[r].state
       /\ rows[r].state = "delivered"
            => rows'[r].state \in {"delivered", "failed"}]_vars

\* The applied pointer and the time of the observation behind it never move
\* back, so a delayed ACK of an older revision cannot replace a newer one.
AppliedNeverRegresses ==
  [][/\ node'.applied >= node.applied
     /\ node'.observed >= node.observed
     /\ node'.applied # node.applied => node'.applied = node.desired]_vars

\* A new approval of a revision is issued only when the previous one has
\* lapsed, and nothing else moves a deadline: reading or repeating a
\* confirmation neither renews nor revives an authorization.
ReapprovalOnlyAfterLapse ==
  [][\A r \in Revisions :
       /\ rows'[r].gen # rows[r].gen /\ rows[r].expires # Nil
            => now >= rows[r].expires
       /\ rows'[r].gen = rows[r].gen => rows'[r].expires = rows[r].expires]_vars

\* What GetState returns for the node, apart from the rows' own cursors.
Snapshot ==
  <<node,
    IF node.desired = 0 THEN NoRow ELSE rows[node.desired],
    IF node.applied = 0 THEN NoRow ELSE rows[node.applied],
    {i \in OperationIds : ops[i].phase # 0 /\ ops[i].revision = node.desired},
    {ops[i] : i \in {j \in OperationIds : ops[j].revision = node.desired}}>>

\* The cursor covers everything a reader is shown: whatever changes the
\* snapshot also advances update_sequence, so an optimistic read bracketed by
\* two equal cursors, and a watcher that waits for a larger one, miss nothing.
CursorCoversSnapshot ==
  [][IF Snapshot' = Snapshot THEN node'.seq = node.seq
                             ELSE node'.seq = node.seq + 1]_vars

\* Under privileged_delivery_v2 the installation fields of a saved profile
\* change only when a daemon acknowledges a revision, and to that revision.
ProfileFollowsAcknowledgement ==
  [][node.protocol = 2 /\ profile.saved /\ profile' # profile =>
       /\ node'.seq = node.seq + 1
       /\ profile' = InstallationFields(rows'[node'.applied].settings,
                                        node'.mode)]_vars

\* The life of revision r as its readers may rely on it.  A legacy revision
\* cannot be executed, whatever its state says.
LifeOf(r) ==
  CASE rows[r].state = "absent" -> "none"
    [] rows[r].state \in {"needs_confirmation", "expired"} -> "pending"
    [] rows[r].state \in {"needs_manual", "awaiting_agent"} ->
         IF rows[r].protocol = 2 THEN "approved" ELSE "pending"
    [] rows[r].state = "applying" -> "claimed"
    [] rows[r].state = "delivered" -> "acknowledged"
    [] rows[r].state = "superseded" -> "dropped"
    [] OTHER -> "failed"

Track == INSTANCE PrivilegedTrack WITH
           desired <- node.desired, applied <- node.applied,
           life <- [r \in Revisions |-> LifeOf(r)]

\* The handlers implement the life of a revision that PrivilegedTrack
\* specifies: every committed transaction is one of its steps or none.
ImplementsTrack == Track!TrackSpec

\* The comment of PrivilegedCapabilityAllowed: a desired grant never enables
\* access before a daemon ACK.  A capability that was denied becomes allowed
\* only in the step of an acknowledgement.
GrantNeedsAck ==
  [][\A f \in Features :
       node.protocol = 2 /\ ~CapabilityAllowed(f) /\ CapabilityAllowed(f)'
         => \E r \in Revisions : rows'[r].state = "delivered"
                                 /\ rows[r] # rows'[r]]_vars

\* The comment on a restored host in PrivilegedCapabilityAllowed: the applied
\* snapshot must not authorize new sessions after recovery failed it.
RestoredSnapshotNeverAuthorizes ==
  \A i \in OperationIds, f \in Features :
    node.applied # 0 /\ ops[i].phase = Restored /\ ops[i].revision = node.applied
      => ~CapabilityAllowed(f)
=============================================================================
