---------------------- MODULE PrivilegedDeliveryProofs ----------------------
(***************************************************************************)
(* Theorems about PrivilegedDelivery for every value of its constants, and *)
(* about the two readers of PrivilegedReads: any number of attempts,       *)
(* revisions, operations, services and settings, and every handler between *)
(* any two queries.                                                        *)
(***************************************************************************)
EXTENDS PrivilegedReads, TLAPS

\* What TypeOK asks of a revision row, of the rows and of the node's row.
RowOK(row) == row \in Row /\ (row.protocol = 2 => row.settings.mode \in 1..5)
RowsOK(rs) == rs \in [Revisions -> Row] /\ \A r \in Revisions : RowOK(rs[r])
NodeOK(n) == n \in Node /\ (n.protocol = 2 => n.mode \in 1..5)

-----------------------------------------------------------------------------
(* Type correctness. *)

LEMMA NoRowType == NoRow \in Row /\ NoRow.protocol = 1
BY DEF NoRow, Row, NoSettings, Settings, RowStates, Nil

\* The updates the handlers make keep a row a row.  The new values are
\* parameters: the provers lose track of literal truth values in records.
LEMMA RowState ==
  ASSUME NEW row, RowOK(row), NEW s \in RowStates
  PROVE  RowOK([row EXCEPT !.state = s])
BY DEF RowOK, Row

LEMMA RowReceived ==
  ASSUME NEW row, RowOK(row), NEW b \in BOOLEAN
  PROVE  RowOK([row EXCEPT !.received = b])
BY DEF RowOK, Row

LEMMA RowClaimed ==
  ASSUME NEW row, RowOK(row), NEW b \in BOOLEAN, NEW s \in RowStates
  PROVE  RowOK([row EXCEPT !.used = b, !.state = s])
BY DEF RowOK, Row

LEMMA RowSuperseded ==
  ASSUME NEW row, RowOK(row), NEW s \in RowStates, NEW b \in BOOLEAN, NEW n \in Nat
  PROVE  RowOK([row EXCEPT !.state = s, !.superseded = b, !.nonce = n])
BY DEF RowOK, Row

LEMMA RowLegacy ==
  ASSUME NEW row, RowOK(row), NEW s \in RowStates, NEW t \in Int, NEW e \in Int
  PROVE  RowOK([row EXCEPT !.state = s, !.confirmed = t, !.expires = e])
BY DEF RowOK, Row

LEMMA RowSaved ==
  ASSUME NEW row \in Row, NEW set \in Settings, set.mode \in 1..5, NEW s \in RowStates
  PROVE  RowOK([row EXCEPT !.protocol = 2, !.settings = set, !.state = s])
BY DEF RowOK, Row

LEMMA RowBaseline ==
  ASSUME NEW row \in Row, NEW set \in Settings, set.mode \in 1..5, NEW s \in RowStates,
         NEW b \in BOOLEAN, NEW c \in BOOLEAN, NEW t \in Int, NEW n \in Nat
  PROVE  RowOK([row EXCEPT !.protocol = 2, !.baseline = b, !.settings = set,
                           !.gen = n, !.confirmed = t, !.authorized = c, !.state = s])
BY DEF RowOK, Row

LEMMA NodeNegotiated ==
  ASSUME NEW n, NodeOK(n), NEW service \in Services \cup {NoService},
         NEW startup \in Startups \cup {NoStartup},
         NEW m \in 1..5, NEW acts \in SUBSET HostActions, NEW q \in Nat
  PROVE  NodeOK([n EXCEPT !.protocol = 2, !.service = service, !.startup = startup,
                          !.mode = m, !.supported = acts, !.seq = q])
<1> DEFINE a == [n EXCEPT !.protocol = 2, !.service = service, !.startup = startup,
                          !.mode = m, !.supported = acts, !.seq = q]
<1>1. /\ a.desired = n.desired /\ a.applied = n.applied /\ a.observed = n.observed
      /\ a.helper = n.helper
      /\ a.protocol = 2 /\ a.service = service /\ a.startup = startup
      /\ a.mode = m /\ a.supported = acts /\ a.seq = q
  BY DEF NodeOK, Node
<1>2. a = [n EXCEPT !.protocol = 2, !.service = service, !.startup = startup,
                    !.mode = m, !.supported = acts, !.seq = q]
  OBVIOUS
<1>3. m \in 0..5
  OBVIOUS
<1> HIDE DEF a
<1>4. a \in Node
  BY <1>1, <1>2, <1>3 DEF NodeOK, Node
<1>5. NodeOK(a)
  BY <1>1, <1>4 DEF NodeOK
<1> QED BY <1>2, <1>5

LEMMA NodeObserved ==
  ASSUME NEW n, NodeOK(n), NEW r \in Nat, NEW t \in Int, NEW b \in BOOLEAN,
         NEW m \in 1..5, NEW startup \in Startups \cup {NoStartup}
  PROVE  NodeOK([n EXCEPT !.applied = r, !.observed = t, !.helper = b,
                          !.mode = m, !.startup = startup])
<1> DEFINE a == [n EXCEPT !.applied = r, !.observed = t, !.helper = b,
                          !.mode = m, !.startup = startup]
<1>1. /\ a.desired = n.desired /\ a.seq = n.seq /\ a.protocol = n.protocol
      /\ a.service = n.service /\ a.supported = n.supported
      /\ a.applied = r /\ a.observed = t /\ a.helper = b
      /\ a.mode = m /\ a.startup = startup
  BY DEF NodeOK, Node
<1>2. a = [n EXCEPT !.applied = r, !.observed = t, !.helper = b,
                    !.mode = m, !.startup = startup]
  OBVIOUS
<1>3. m \in 0..5
  OBVIOUS
<1> HIDE DEF a
<1>4. a \in Node
  BY <1>1, <1>2, <1>3 DEF NodeOK, Node
<1>5. NodeOK(a)
  BY <1>1, <1>4 DEF NodeOK
<1> QED BY <1>2, <1>5

LEMMA RowType ==
  ASSUME TypeOK, NEW r \in Revisions
  PROVE  RowOK(rows[r])
BY DEF TypeOK, RowOK

LEMMA AdvanceType ==
  ASSUME TypeOK, NEW r \in Revisions, NEW row, NEW state,
         RowOK(row), NodeOK(state), Advance(r, row, state)
  PROVE  RowsOK(rows') /\ NodeOK(node')
<1>1. rows' = [rows EXCEPT ![r] = row] /\ node' = [state EXCEPT !.seq = node.seq + 1]
  BY DEF Advance
<1>2. RowsOK(rows) /\ node.seq \in Nat
  BY DEF TypeOK, Node, RowsOK, RowOK
<1>3. RowsOK(rows')
  BY <1>1, <1>2 DEF RowsOK, RowOK
<1>4. NodeOK(node')
  BY <1>1, <1>2 DEF NodeOK, Node
<1> QED BY <1>3, <1>4

\* TypeOK from its parts.
LEMMA TypeFromParts ==
  ASSUME RowsOK(rows'), NodeOK(node'), now' \in 0..MaxTime,
         ops' \in [OperationIds -> Operation], receipts' \subseteq ReceiptIds,
         eligible' \in BOOLEAN, profile' \in Profile
  PROVE  TypeOK'
BY DEF TypeOK, RowsOK, RowOK, NodeOK

LEMMA InitType == Init => TypeOK
<1> SUFFICES ASSUME Init PROVE TypeOK
  OBVIOUS
<1> USE PrivilegedDeliveryAssumption
<1>1. RowOK(Legacy) /\ RowOK(NoRow)
  <2>1. RowOK(NoRow)
    BY NoRowType DEF RowOK
  <2>2. "needs_manual" \in RowStates /\ NonceLifetime \in Int /\ 0 \in Int
    BY DEF RowStates
  <2> QED BY <2>1, <2>2, RowLegacy DEF Legacy
<1>2. RowsOK(rows)
  BY <1>1 DEF Init, RowsOK, RowOK
<1>3. NodeOK(node)
  BY DEF Init, NodeOK, Node, Nil, HostActions
<1>4. ops \in [OperationIds -> Operation]
  BY DEF Init, NoOperation, Operation, Phases, Nil
<1>5. profile \in Profile
  BY DEF Init, NoProfile, Profile
<1>6. now \in 0..MaxTime /\ receipts \subseteq ReceiptIds
  BY DEF Init
<1>7. eligible \in BOOLEAN
  BY Zenon DEF Init
<1> QED BY <1>2, <1>3, <1>4, <1>5, <1>6, <1>7 DEF TypeOK, RowsOK, RowOK, NodeOK

LEMMA TypeStep == TypeOK /\ [Next]_vars => TypeOK'
<1> SUFFICES ASSUME TypeOK, [Next]_vars PROVE TypeOK'
  OBVIOUS
<1> USE PrivilegedDeliveryAssumption
<1>types. /\ NodeOK(node)
          /\ now \in 0..MaxTime
          /\ ops \in [OperationIds -> Operation]
          /\ receipts \subseteq ReceiptIds
          /\ eligible \in BOOLEAN
          /\ profile \in Profile
          /\ RowsOK(rows)
  BY DEF TypeOK, RowsOK, RowOK, NodeOK
<1>1. ASSUME NEW s \in Requests, NEW expected \in 0..MaxRevision, Save(s, expected)
      PROVE  TypeOK'
  <2>1. /\ ResolveMode(s) \in Settings
        /\ ResolveMode(s).mode \in 1..5
    <3>1. node.mode \in 1..5
      BY <1>1, <1>types DEF Save, NodeOK
    <3>2. ResolveMode(s) = [s EXCEPT !.mode = IF s.mode = 0 THEN node.mode ELSE s.mode]
      BY DEF ResolveMode
    <3>3. s \in Settings
      OBVIOUS
    <3> QED BY <3>1, <3>2, <3>3 DEF Settings
  <2> DEFINE r == node.desired + 1
             fresh == [NoRow EXCEPT !.protocol = 2, !.settings = ResolveMode(s),
                                    !.state = "needs_confirmation"]
             dropped(q) == [rows[q] EXCEPT !.state = "superseded",
                                           !.superseded = TRUE, !.nonce = 0]
  <2>2. RowOK(fresh)
    BY <2>1, NoRowType, RowSaved DEF RowStates
  <2>3. ASSUME NEW q \in Revisions PROVE RowOK(dropped(q))
    <3>1. TRUE \in BOOLEAN /\ 0 \in Nat /\ "superseded" \in RowStates
      BY DEF RowStates
    <3> QED BY <3>1, RowType, RowSuperseded
  <2>4. rows' = [q \in Revisions |->
                   IF q = r THEN fresh
                   ELSE IF rows[q].state \in LiveStates THEN dropped(q)
                   ELSE rows[q]]
    BY <1>1 DEF Save
  <2> HIDE DEF fresh, dropped, r
  <2>5. ASSUME NEW q \in Revisions PROVE RowOK(rows'[q])
    BY <2>2, <2>3, <2>4, RowType
  <2>6. RowsOK(rows')
    BY <2>4, <2>5 DEF RowsOK, RowOK
  <2>7. NodeOK(node')
    <3>1. node.desired + 1 \in Nat /\ node.seq + 1 \in Nat
      BY <1>types DEF NodeOK, Node
    <3>2. node' = [node EXCEPT !.desired = node.desired + 1, !.seq = node.seq + 1]
      BY <1>1 DEF Save
    <3>3. ASSUME NEW d \in Nat, NEW q \in Nat
          PROVE  NodeOK([node EXCEPT !.desired = d, !.seq = q])
      BY <1>types DEF NodeOK, Node
    <3> QED BY <3>1, <3>2, <3>3
  <2>8. UNCHANGED <<now, ops, receipts, eligible, profile>>
    BY <1>1 DEF Save
  <2> QED BY <2>6, <2>7, <2>8, <1>types, TypeFromParts
<1>2. ASSUME NEW r \in Revisions, Confirm(r)
      PROVE  TypeOK'
  <2> DEFINE row == [rows[r] EXCEPT
                       !.state = IF RequiredActions(r) = {} THEN "awaiting_agent"
                                                 ELSE "needs_manual",
                       !.confirmed = now,
                       !.gen = @ + 1,
                       !.nonce = rows[r].gen + 1,
                       !.used = FALSE,
                       !.expires = now + NonceLifetime,
                       !.authorized = TRUE,
                       !.actions = RequiredActions(r)]
  <2>1. RequiredActions(r) \subseteq HostActions
    BY DEF RequiredActions
  <2>2. RowOK(row)
    <3> DEFINE st == IF RequiredActions(r) = {} THEN "awaiting_agent"
                                                ELSE "needs_manual"
               m == rows[r].gen + 1
               e == now + NonceLifetime
    <3>1. m \in Nat
      BY RowType DEF RowOK, Row
    <3>2. st \in RowStates
      BY DEF RowStates
    <3>3. now \in Int /\ e \in Int
      BY <1>types
    <3>4. RequiredActions(r) \in SUBSET HostActions
      BY <2>1
    <3>5. row = [rows[r] EXCEPT !.state = st, !.confirmed = now, !.gen = m, !.nonce = m,
                                !.used = FALSE, !.expires = e, !.authorized = TRUE,
                                !.actions = RequiredActions(r)]
      OBVIOUS
    <3> HIDE DEF row, st, m, e
    <3>6. RowOK(rows[r])
      BY RowType
    <3>7. ASSUME NEW b \in BOOLEAN, NEW c \in BOOLEAN
          PROVE  RowOK([rows[r] EXCEPT !.state = st, !.confirmed = now, !.gen = m,
                                       !.nonce = m, !.used = b, !.expires = e,
                                       !.authorized = c, !.actions = RequiredActions(r)])
      BY <3>1, <3>2, <3>3, <3>4, <3>6, ZenonT(60) DEF RowOK, Row
    <3> QED BY <3>5, <3>7
  <2>3. Advance(r, row, node) /\ UNCHANGED <<now, ops, receipts, eligible, profile>>
    BY <1>2 DEF Confirm
  <2> HIDE DEF row
  <2>4. RowsOK(rows') /\ NodeOK(node')
    BY <2>2, <2>3, <1>types, AdvanceType
  <2> QED BY <2>3, <2>4, <1>types, TypeFromParts
<1>3. ASSUME NEW r \in Revisions, Expire(r)
      PROVE  TypeOK'
  <2> DEFINE row == [rows[r] EXCEPT !.state = "expired"]
  <2>1. RowOK(row)
    BY RowType DEF RowOK, Row, RowStates
  <2>2. Advance(r, row, node) /\ UNCHANGED <<now, ops, receipts, eligible, profile>>
    BY <1>3 DEF Expire, Lapsed
  <2> HIDE DEF row
  <2>3. RowsOK(rows') /\ NodeOK(node')
    BY <2>1, <2>2, <1>types, AdvanceType
  <2> QED BY <2>2, <2>3, <1>types, TypeFromParts
<1>4. ASSUME NEW service \in Services, NEW startup \in Startups, NEW mode \in Modes,
             NEW supported \in SupportedSets,
             Negotiate(service, startup, mode, supported)
      PROVE  TypeOK'
  <2>1. NodeOK(node')
    <3>1. node' = [node EXCEPT !.protocol = 2, !.service = service,
                               !.startup = startup, !.mode = mode,
                               !.supported = supported, !.seq = node.seq + 1]
      BY <1>4 DEF Negotiate
    <3>2. mode \in 1..5 /\ supported \in SUBSET HostActions /\ node.seq + 1 \in Nat
      BY <1>types DEF NodeOK, Node
    <3> QED BY <3>1, <3>2, <1>types, NodeNegotiated
  <2>2. UNCHANGED <<now, rows, ops, receipts, eligible, profile>>
    BY <1>4 DEF Negotiate
  <2> QED BY <2>1, <2>2, <1>types, TypeFromParts
<1>5. ASSUME NEW r \in Revisions, LegacyReport(r)
      PROVE  TypeOK'
  <2> DEFINE row == [rows[r] EXCEPT !.received = TRUE]
  <2>1. RowOK(row)
    BY RowType, RowReceived
  <2>2. Advance(r, row, node) /\ UNCHANGED <<now, ops, receipts, eligible, profile>>
    BY <1>5 DEF LegacyReport
  <2> HIDE DEF row
  <2>3. RowsOK(rows') /\ NodeOK(node')
    BY <2>1, <2>2, <1>types, AdvanceType
  <2> QED BY <2>2, <2>3, <1>types, TypeFromParts
<1>6. ASSUME NEW id \in OperationIds, NEW r \in Revisions,
             NEW g \in 0..rows[r].gen, NEW k \in 0..rows[r].gen,
             PrepareOperation(id, r, g, k)
      PROVE  TypeOK'
  <2> DEFINE row == [rows[r] EXCEPT !.used = TRUE, !.state = "applying"]
             op == [phase |-> Prepared, revision |-> r, gen |-> rows[r].gen,
                    lease |-> Lease(r), prior |-> node.startup]
  <2>1. RowOK(row)
    BY RowType, RowClaimed DEF RowStates
  <2>2. /\ Advance(r, row, node)
        /\ ops' = [ops EXCEPT ![id] = op]
        /\ UNCHANGED <<now, receipts, eligible, profile>>
    BY <1>6 DEF PrepareOperation
  <2>3. op \in Operation
    BY RowType, <1>types
       DEF RowOK, Row, NodeOK, Node, Operation, Lease, Phases, Prepared, Revisions
  <2> HIDE DEF row, op
  <2>4. RowsOK(rows') /\ NodeOK(node')
    BY <2>1, <2>2, <1>types, AdvanceType
  <2> QED BY <2>2, <2>3, <2>4, <1>types, TypeFromParts
<1>7. ASSUME NEW id \in OperationIds, NEW key \in ReceiptIds, NEW phase \in 2..5,
             ReportOperation(id, key, phase)
      PROVE  TypeOK'
  <2> DEFINE r == ops[id].revision
  <2>1. r \in Revisions
    BY <1>7 DEF ReportOperation, Exists
  <2>2. RowOK(Settle(rows[r], phase))
    BY <2>1, RowType DEF RowOK, Row, RowStates, Settle
  <2>3. /\ Advance(r, Settle(rows[r], phase), node) \/ UNCHANGED <<node, rows>>
        /\ ops' = [ops EXCEPT ![id].phase = phase]
        /\ receipts' = receipts \cup {key}
        /\ UNCHANGED <<now, eligible, profile>>
    BY <1>7 DEF ReportOperation, Record
  <2> HIDE DEF r
  <2>4. RowsOK(rows') /\ NodeOK(node')
    BY <2>1, <2>2, <2>3, <1>types, AdvanceType
  <2>5. ops' \in [OperationIds -> Operation]
    BY <2>3, <1>types DEF Operation, Phases
  <2> QED BY <2>3, <2>4, <2>5, <1>types, TypeFromParts
<1>8. ASSUME NEW key \in ReceiptIds, NEW r \in Revisions, NEW service \in Services,
             NEW startup \in Startups, NEW mode \in Modes,
             NEW observed \in 0..(now + ClockSkew), NEW id \in OperationIds,
             NEW effective \in Effects, NEW g \in 0..rows[r].gen,
             Observe(key, r, g, service, startup, mode, observed, id, effective)
      PROVE  TypeOK'
  <2> DEFINE row == [rows[r] EXCEPT !.state = "delivered"]
             state == [node EXCEPT !.applied = r, !.observed = observed,
                                   !.helper = effective.helper,
                                   !.mode = mode, !.startup = startup]
  <2>1. RowOK(row)
    BY RowType DEF RowOK, Row, RowStates
  <2>2. effective.helper \in BOOLEAN
    BY DEF Capabilities
  <2>3. NodeOK(state)
    <3>1. r \in Nat /\ observed \in Int /\ mode \in 1..5
      BY <1>types DEF Revisions
    <3> QED BY <2>2, <3>1, <1>types, NodeObserved
  <2>4. /\ Advance(r, row, state)
        /\ receipts' = receipts \cup {key}
        /\ profile' = IF profile.saved
                         THEN InstallationFields(rows[r].settings, mode)
                         ELSE profile
        /\ UNCHANGED <<now, ops, eligible>>
    BY <1>8 DEF Observe, Record
  <2>5. profile' \in Profile
    BY <2>4, <1>types, RowType
       DEF Profile, InstallationFields, RowOK, Row, Settings
  <2> HIDE DEF row, state
  <2>6. RowsOK(rows') /\ NodeOK(node')
    BY <2>1, <2>3, <2>4, AdvanceType
  <2> QED BY <2>4, <2>5, <2>6, <1>types, TypeFromParts
<1>9. ASSUME NEW key \in ReceiptIds, NEW r \in Revisions, NEW g \in 0..rows[r].gen,
             FailApply(key, r, g)
      PROVE  TypeOK'
  <2> DEFINE row == [rows[r] EXCEPT !.state = "failed"]
  <2>1. RowOK(row)
    BY RowType DEF RowOK, Row, RowStates
  <2>2. /\ Advance(r, row, node)
        /\ receipts' = receipts \cup {key}
        /\ UNCHANGED <<now, ops, eligible, profile>>
    BY <1>9 DEF FailApply, Record
  <2> HIDE DEF row
  <2>3. RowsOK(rows') /\ NodeOK(node')
    BY <2>1, <2>2, <1>types, AdvanceType
  <2> QED BY <2>2, <2>3, <1>types, TypeFromParts
<1>10. ASSUME NEW s \in Installations, NEW service \in Services, NEW preserve \in BOOLEAN,
              InitializeBaseline(s, service, preserve)
       PROVE  TypeOK'
  <2> DEFINE row == [NoRow EXCEPT !.protocol = 2, !.baseline = TRUE,
                                  !.settings = s, !.gen = 1,
                                  !.confirmed = now, !.authorized = TRUE,
                                  !.state = "awaiting_agent"]
             state == [node EXCEPT !.desired = 1]
  <2>1. s \in Settings /\ s.mode \in 1..5
    BY DEF Installations, Settings
  <2>2. RowOK(row)
    <3>1. now \in Int /\ 1 \in Nat /\ "awaiting_agent" \in RowStates
      BY <1>types DEF RowStates
    <3> QED BY <2>1, <3>1, NoRowType, RowBaseline
  <2>3. NodeOK(state)
    BY <1>types DEF NodeOK, Node
  <2>4. /\ 1 \in Revisions
        /\ Advance(1, row, state)
        /\ profile' = IF preserve THEN profile ELSE InstallationFields(s, s.mode)
        /\ eligible' = FALSE
        /\ UNCHANGED <<now, ops, receipts>>
    BY <1>10 DEF InitializeBaseline, Revisions
  <2>5. profile' \in Profile
    BY <2>4, <2>1, <1>types DEF Profile, InstallationFields, Settings
  <2> HIDE DEF row, state
  <2>6. RowsOK(rows') /\ NodeOK(node')
    BY <2>2, <2>3, <2>4, AdvanceType
  <2> QED BY <2>4, <2>5, <2>6, <1>types, TypeFromParts
<1>11. ASSUME NEW p \in Profiles, SaveProfile(p) PROVE TypeOK'
  BY <1>11, <1>types, TypeFromParts DEF SaveProfile
<1>12. CASE Tick
  BY <1>12, <1>types, TypeFromParts DEF Tick
<1>13. CASE UNCHANGED vars
  BY <1>13, <1>types, TypeFromParts DEF vars
<1> QED
  BY <1>1, <1>2, <1>3, <1>4, <1>5, <1>6, <1>7, <1>8, <1>9, <1>10, <1>11, <1>12, <1>13
     DEF Next, Panel, Agent, HostTool

\* Every reachable state of the privileged track has the shape of its tables,
\* and a v2 node and a v2 revision always name an actual service identity.
THEOREM TypeCorrect == Spec => []TypeOK
BY InitType, TypeStep, PTL DEF Spec

-----------------------------------------------------------------------------
(* The inductive invariant. *)

\* Revisions are numbered without gaps up to the desired one, which Save
\* never supersedes.
Numbering ==
  /\ node.desired \in 0..MaxRevision
  /\ \A r \in Revisions : (rows[r].state = "absent") <=> (r > node.desired)
  /\ \A r \in Revisions : rows[r].superseded => rows[r].state = "superseded"
  /\ \A r \in Revisions : rows[r].state = "superseded" => r < node.desired

\* An operation belongs to the one approval its revision will ever have.
Claims ==
  \A i \in OperationIds :
    LET r == ops[i].revision IN
    /\ ops[i].phase = 0 => r = 0
    /\ ops[i].phase # 0 =>
         /\ r \in Revisions
         /\ node.protocol = 2 /\ rows[r].protocol = 2
         /\ rows[r].state \in ClaimedStates
         /\ rows[r].gen = ops[i].gen /\ rows[r].gen # 0
         /\ rows[r].confirmed # Nil

\* No two operations share a revision.
Unshared ==
  \A i, j \in OperationIds :
    ops[i].phase # 0 /\ ops[j].phase # 0 /\ ops[i].revision = ops[j].revision
      => i = j

\* The host's failure of the desired revision is the revision's failure.
HostFailures ==
  \A i \in OperationIds :
    ops[i].phase >= Restored /\ ops[i].revision = node.desired
      => rows[node.desired].state = "failed"

IndInv ==
  /\ Numbering
  /\ OneLiveRevision
  /\ Claims
  /\ Unshared
  /\ HostFailures
  /\ AppliedWasApprovedAndDone

-----------------------------------------------------------------------------
(* What a transaction does to the rows. *)

\* The fields of a row that only Save, Confirm and the baseline write.
Frozen(r) ==
  <<rows[r].protocol, rows[r].settings, rows[r].baseline, rows[r].gen,
    rows[r].confirmed, rows[r].expires, rows[r].authorized, rows[r].actions,
    rows[r].superseded>>

\* Revision r goes to state st; no other row, and no frozen field, changes.
Moves(r, st) ==
  /\ rows'[r].state = st
  /\ Frozen(r)' = Frozen(r)
  /\ \A q \in Revisions : q # r => rows'[q] = rows[q]

\* The node keeps its pointers and its protocol.
Pointers == <<node.desired, node.applied, node.protocol>>

LEMMA AdvanceEffect ==
  ASSUME TypeOK, NEW r \in Revisions, NEW row, NEW state,
         NodeOK(state), Advance(r, row, state)
  PROVE  /\ rows'[r] = row
         /\ \A q \in Revisions : q # r => rows'[q] = rows[q]
         /\ node'.desired = state.desired
         /\ node'.applied = state.applied
         /\ node'.protocol = state.protocol
         /\ node'.observed = state.observed
         /\ node'.seq = node.seq + 1
BY DEF Advance, TypeOK, NodeOK, Node

LEMMA ExpireMoves ==
  ASSUME TypeOK, NEW r \in Revisions, Expire(r)
  PROVE  Moves(r, "expired") /\ Pointers' = Pointers /\ ops' = ops
<1>1. Advance(r, [rows[r] EXCEPT !.state = "expired"], node) /\ ops' = ops
  BY DEF Expire, Lapsed
<1>2. NodeOK(node) /\ rows[r] \in Row
  BY DEF TypeOK, NodeOK
<1>3. /\ rows'[r] = [rows[r] EXCEPT !.state = "expired"]
      /\ \A q \in Revisions : q # r => rows'[q] = rows[q]
      /\ Pointers' = Pointers
  BY <1>1, <1>2, AdvanceEffect DEF Pointers
<1> QED BY <1>1, <1>2, <1>3 DEF Moves, Frozen, Row

LEMMA LegacyReportMoves ==
  ASSUME TypeOK, NEW r \in Revisions, LegacyReport(r)
  PROVE  Moves(r, rows[r].state) /\ Pointers' = Pointers /\ ops' = ops
<1>1. Advance(r, [rows[r] EXCEPT !.received = TRUE], node)
  BY DEF LegacyReport
<1>2. NodeOK(node) /\ rows[r] \in Row
  BY DEF TypeOK, NodeOK
<1>3. /\ rows'[r] = [rows[r] EXCEPT !.received = TRUE]
      /\ \A q \in Revisions : q # r => rows'[q] = rows[q]
      /\ Pointers' = Pointers
  BY <1>1, <1>2, AdvanceEffect DEF Pointers
<1> QED BY <1>2, <1>3 DEF LegacyReport, Moves, Frozen, Row

LEMMA PrepareMoves ==
  ASSUME TypeOK, NEW id \in OperationIds, NEW r \in Revisions, NEW g, NEW k, PrepareOperation(id, r, g, k)
  PROVE  Moves(r, "applying") /\ Pointers' = Pointers
<1>1. Advance(r, [rows[r] EXCEPT !.used = TRUE, !.state = "applying"], node)
  BY DEF PrepareOperation
<1>2. NodeOK(node) /\ rows[r] \in Row
  BY DEF TypeOK, NodeOK
<1>3. /\ rows'[r] = [rows[r] EXCEPT !.used = TRUE, !.state = "applying"]
      /\ \A q \in Revisions : q # r => rows'[q] = rows[q]
      /\ Pointers' = Pointers
  BY <1>1, <1>2, AdvanceEffect DEF Pointers
<1> QED BY <1>2, <1>3 DEF Moves, Frozen, Row

LEMMA FailApplyMoves ==
  ASSUME TypeOK, NEW key \in ReceiptIds, NEW r \in Revisions, NEW g, FailApply(key, r, g)
  PROVE  Moves(r, "failed") /\ Pointers' = Pointers /\ ops' = ops
<1>1. Advance(r, [rows[r] EXCEPT !.state = "failed"], node)
  BY DEF FailApply
<1>2. NodeOK(node) /\ rows[r] \in Row
  BY DEF TypeOK, NodeOK
<1>3. /\ rows'[r] = [rows[r] EXCEPT !.state = "failed"]
      /\ \A q \in Revisions : q # r => rows'[q] = rows[q]
      /\ Pointers' = Pointers
  BY <1>1, <1>2, AdvanceEffect DEF Pointers
<1> QED BY <1>2, <1>3 DEF FailApply, Moves, Frozen, Row

LEMMA ObserveMoves ==
  ASSUME TypeOK, NEW key \in ReceiptIds, NEW r \in Revisions, NEW service,
         NEW startup \in Startups, NEW mode \in 1..5, NEW observed \in Int,
         NEW id \in OperationIds, NEW effective \in Capabilities, NEW g,
         Observe(key, r, g, service, startup, mode, observed, id, effective)
  PROVE  /\ Moves(r, "delivered") /\ ops' = ops
         /\ node'.desired = node.desired /\ node'.protocol = node.protocol
         /\ node'.applied = r /\ node'.observed = observed
<1> DEFINE row == [rows[r] EXCEPT !.state = "delivered"]
           state == [node EXCEPT !.applied = r, !.observed = observed,
                                 !.helper = effective.helper,
                                 !.mode = mode, !.startup = startup]
<1>1. Advance(r, row, state) /\ ops' = ops
  BY DEF Observe
<1>2. NodeOK(node) /\ rows[r] \in Row /\ r \in Nat /\ effective.helper \in BOOLEAN
  BY DEF TypeOK, NodeOK, Revisions, Capabilities
<1>3. NodeOK(state)
  BY <1>2, NodeObserved
<1>4. /\ state.desired = node.desired /\ state.protocol = node.protocol
      /\ state.applied = r /\ state.observed = observed
  BY <1>2 DEF NodeOK, Node
<1>5. row.state = "delivered" /\ rows'[r] = row
  BY <1>1, <1>2, <1>3, AdvanceEffect DEF Row
<1>6. /\ \A q \in Revisions : q # r => rows'[q] = rows[q]
      /\ node'.desired = node.desired /\ node'.protocol = node.protocol
      /\ node'.applied = r /\ node'.observed = observed
  <2> HIDE DEF row, state
  <2>1. /\ \A q \in Revisions : q # r => rows'[q] = rows[q]
        /\ node'.desired = state.desired /\ node'.protocol = state.protocol
        /\ node'.applied = state.applied /\ node'.observed = state.observed
    BY <1>1, <1>3, AdvanceEffect
  <2> QED BY <1>4, <2>1
<1>7. Frozen(r)' = Frozen(r)
  BY <1>2, <1>5 DEF Frozen, Row
<1> QED BY <1>1, <1>5, <1>6, <1>7 DEF Moves

LEMMA ReportMoves ==
  ASSUME TypeOK, NEW id \in OperationIds, NEW key \in ReceiptIds, NEW phase \in 2..5,
         NEW r, r = ops[id].revision, ReportOperation(id, key, phase)
  PROVE  /\ r \in Revisions
         /\ Pointers' = Pointers
         /\ ops' = [ops EXCEPT ![id].phase = phase]
         /\ IF ValidateCurrent(r) /\ rows[r].gen = ops[id].gen
              THEN Moves(r, IF phase >= 4 THEN "failed" ELSE rows[r].state)
              ELSE rows' = rows
<1> DEFINE current == ValidateCurrent(r) /\ rows[r].gen = ops[id].gen
           row == Settle(rows[r], phase)
<1>1. /\ r \in Revisions
      /\ ops' = [ops EXCEPT ![id].phase = phase]
      /\ IF current THEN Advance(r, row, node) ELSE UNCHANGED <<node, rows>>
  BY DEF ReportOperation, Exists
<1>2. NodeOK(node) /\ rows[r] \in Row
  BY <1>1 DEF TypeOK, NodeOK
<1>3. CASE current
  <2>1. /\ rows'[r] = row
        /\ \A q \in Revisions : q # r => rows'[q] = rows[q]
        /\ Pointers' = Pointers
    BY <1>1, <1>2, <1>3, AdvanceEffect DEF Pointers
  <2>2. /\ rows'[r].state = IF phase >= 4 THEN "failed" ELSE rows[r].state
        /\ Frozen(r)' = Frozen(r)
    BY <1>2, <2>1 DEF Settle, Frozen, Row
  <2> QED BY <1>1, <1>3, <2>1, <2>2 DEF Moves
<1>4. CASE ~current
  BY <1>1, <1>4 DEF Pointers
<1> QED BY <1>3, <1>4

-----------------------------------------------------------------------------
(* Every step preserves the invariant. *)

LEMMA InitInv == Init => IndInv
<1> SUFFICES ASSUME Init PROVE IndInv
  OBVIOUS
<1> USE PrivilegedDeliveryAssumption
<1>1. PICK legacy \in BOOLEAN :
        /\ legacy => MaxRevision > 0
        /\ rows = [r \in Revisions |-> IF legacy /\ r = 1 THEN Legacy ELSE NoRow]
        /\ node.desired = IF legacy THEN 1 ELSE 0
        /\ node.applied = 0
  BY DEF Init
<1>2. /\ NoRow.state = "absent" /\ ~NoRow.superseded
      /\ Legacy.state = "needs_manual" /\ ~Legacy.superseded
  BY DEF Legacy, NoRow
<1>3. \A i \in OperationIds : ops[i].phase = 0 /\ ops[i].revision = 0
  BY DEF Init, NoOperation
<1>4. Numbering /\ OneLiveRevision
  BY <1>1, <1>2 DEF Numbering, OneLiveRevision, Revisions
<1>5. Claims /\ Unshared /\ HostFailures
  BY <1>3 DEF Claims, Unshared, HostFailures, Restored
<1>6. AppliedWasApprovedAndDone
  BY <1>1 DEF AppliedWasApprovedAndDone
<1> QED BY <1>4, <1>5, <1>6 DEF IndInv

LEMMA AppliedIsRevision ==
  ASSUME TypeOK, IndInv, node.applied # 0
  PROVE  node.applied \in Revisions
BY PrivilegedDeliveryAssumption
   DEF TypeOK, IndInv, AppliedWasApprovedAndDone, Numbering, Node, Revisions

\* A step that moves the desired revision among the states of the second
\* half of its life, or not at all, and changes no operation.
LEMMA QuietMove ==
  ASSUME TypeOK, IndInv, NEW r \in Revisions, NEW st \in RowStates,
         Moves(r, st), Pointers' = Pointers, ops' = ops,
         \/ st = rows[r].state
         \/ /\ r = node.desired /\ st \notin {"absent", "superseded"}
            /\ rows[r].state \in ClaimedStates => st = "failed"
  PROVE  IndInv'
<1> USE DEF IndInv, Moves, Pointers, Frozen
<1>1. Numbering'
  BY DEF Numbering
<1>2. OneLiveRevision'
  BY DEF OneLiveRevision
<1>3. Claims'
  BY DEF Claims, ClaimedStates
<1>4. Unshared'
  BY DEF Unshared
<1>5. HostFailures'
  BY DEF HostFailures, Claims, ClaimedStates, Restored, TypeOK, Operation, Phases
<1>6. AppliedWasApprovedAndDone'
  <2> SUFFICES ASSUME node.applied # 0 PROVE AppliedWasApprovedAndDone'
    BY DEF AppliedWasApprovedAndDone
  <2>1. node.applied \in Revisions
    BY AppliedIsRevision
  <2>2. /\ rows'[node.applied].state \in {"delivered", "failed"}
        /\ Frozen(node.applied)' = Frozen(node.applied)
    BY <2>1 DEF AppliedWasApprovedAndDone, ClaimedStates
  <2>3. /\ rows'[node.applied].confirmed = rows[node.applied].confirmed
        /\ rows'[node.applied].authorized = rows[node.applied].authorized
        /\ rows'[node.applied].actions = rows[node.applied].actions
        /\ rows'[node.applied].gen = rows[node.applied].gen
    BY <2>1
  <2> QED BY <2>2, <2>3 DEF AppliedWasApprovedAndDone
<1> QED BY <1>1, <1>2, <1>3, <1>4, <1>5, <1>6

LEMMA IndStep == TypeOK /\ IndInv /\ [Next]_vars => IndInv'
<1> SUFFICES ASSUME TypeOK, IndInv, [Next]_vars PROVE IndInv'
  OBVIOUS
<1> USE PrivilegedDeliveryAssumption
<1>types. /\ node \in Node /\ NodeOK(node)
          /\ ops \in [OperationIds -> Operation]
          /\ rows \in [Revisions -> Row]
  BY DEF TypeOK, NodeOK
<1>same. ASSUME rows' = rows, Pointers' = Pointers, ops' = ops PROVE IndInv'
  BY <1>same DEF IndInv, Numbering, OneLiveRevision, Claims, Unshared, HostFailures,
                 AppliedWasApprovedAndDone, Pointers
<1>1. ASSUME NEW s \in Requests, NEW expected \in 0..MaxRevision, Save(s, expected)
      PROVE  IndInv'
  <2> DEFINE new == node.desired + 1
  <2>1. /\ new \in Revisions
        /\ node'.desired = new /\ node'.applied = node.applied
        /\ node'.protocol = node.protocol
        /\ ops' = ops
    <3>1. /\ new <= MaxRevision
          /\ node' = [node EXCEPT !.desired = new, !.seq = node.seq + 1]
          /\ ops' = ops
      BY <1>1 DEF Save
    <3> QED BY <3>1, <1>types DEF Node, Revisions
  <2>2. /\ rows'[new].state = "needs_confirmation" /\ ~rows'[new].superseded
        /\ \A q \in Revisions : q # new /\ rows[q].state \notin LiveStates
                                 => rows'[q] = rows[q]
    BY <1>1, <2>1 DEF Save, NoRow
  <2>3. ASSUME NEW q \in Revisions, q # new, rows[q].state \in LiveStates
        PROVE  /\ rows'[q].state = "superseded"
               /\ rows'[q].protocol = rows[q].protocol
               /\ rows'[q].gen = rows[q].gen
               /\ rows'[q].confirmed = rows[q].confirmed
    BY <1>1, <1>types, <2>3, ZenonT(60) DEF Save, Row
  <2> HIDE DEF new
  <2>4. \A q \in Revisions : q # new => (rows[q].state = "absent" <=> q > new)
    BY <1>types, <2>1 DEF IndInv, Numbering, new, Revisions, Node
  <2>5. \A q \in Revisions : q # new /\ rows[q].state # "absent" => q < new
    BY <1>types, <2>1, <2>4 DEF Revisions, Node, new
  <2>6. Numbering'
    <3>1. node'.desired \in 0..MaxRevision /\ new \in Nat
      BY <2>1 DEF Revisions
    <3>2. ASSUME NEW q \in Revisions, q = new
          PROVE  /\ rows'[q].state = "absent" <=> q > new
                 /\ rows'[q].superseded => rows'[q].state = "superseded"
                 /\ rows'[q].state = "superseded" => q < new
      BY <2>2, <3>1, <3>2
    <3>3. ASSUME NEW q \in Revisions, q # new, rows[q].state \in LiveStates
          PROVE  /\ rows'[q].state = "absent" <=> q > new
                 /\ rows'[q].superseded => rows'[q].state = "superseded"
                 /\ rows'[q].state = "superseded" => q < new
      <4>1. rows'[q].state = "superseded"
        BY <2>3, <3>3
      <4>2. rows[q].state # "absent"
        BY <3>3 DEF LiveStates
      <4> QED BY <2>4, <2>5, <3>3, <4>1, <4>2
    <3>4. ASSUME NEW q \in Revisions, q # new, rows[q].state \notin LiveStates
          PROVE  /\ rows'[q].state = "absent" <=> q > new
                 /\ rows'[q].superseded => rows'[q].state = "superseded"
                 /\ rows'[q].state = "superseded" => q < new
      <4>1. rows'[q] = rows[q]
        BY <2>2, <3>4
      <4>2. rows[q].superseded => rows[q].state = "superseded"
        BY DEF IndInv, Numbering
      <4> QED BY <2>4, <2>5, <3>4, <4>1, <4>2
    <3> QED BY <2>1, <3>1, <3>2, <3>3, <3>4 DEF Numbering
  <2>7. OneLiveRevision'
    <3>1. ASSUME NEW q \in Revisions, q # new
          PROVE  rows'[q].state \in {"absent", "delivered", "failed", "superseded"}
      BY <3>1, <2>2, <2>3, <1>types DEF LiveStates, Row, RowStates
    <3> QED BY <3>1, <2>1 DEF OneLiveRevision
  <2>8. rows[new].state = "absent"
    BY <1>types, <2>1 DEF IndInv, Numbering, new, Node, Revisions
  <2>9. Claims'
    BY <2>1, <2>2, <2>3, <2>8 DEF IndInv, Claims, ClaimedStates, LiveStates
  <2>10. Unshared'
    BY <2>1 DEF IndInv, Unshared
  <2>11. HostFailures'
    BY <2>1, <2>8, <1>types
       DEF IndInv, HostFailures, Claims, ClaimedStates, Restored, Operation, Phases
  <2>12. AppliedWasApprovedAndDone'
    <3> SUFFICES ASSUME node.applied # 0 PROVE AppliedWasApprovedAndDone'
      BY <2>1 DEF AppliedWasApprovedAndDone
    <3>1. node.applied \in Revisions /\ node.applied # new
      BY AppliedIsRevision, <2>8 DEF IndInv, AppliedWasApprovedAndDone
    <3>2. rows'[node.applied] = rows[node.applied]
      BY <3>1, <2>2 DEF IndInv, AppliedWasApprovedAndDone, LiveStates
    <3>3. node.applied <= new
      BY <3>1, <1>types DEF IndInv, AppliedWasApprovedAndDone, new, Node
    <3> QED BY <3>1, <3>2, <3>3, <2>1 DEF IndInv, AppliedWasApprovedAndDone
  <2> QED BY <2>6, <2>7, <2>9, <2>10, <2>11, <2>12 DEF IndInv
<1>2. ASSUME NEW r \in Revisions, Confirm(r)
      PROVE  IndInv'
  <2>1. PICK row : /\ Advance(r, row, node)
                   /\ row.state \in {"awaiting_agent", "needs_manual"}
                   /\ row.superseded = rows[r].superseded
    <3> DEFINE row == [rows[r] EXCEPT
                         !.state = IF RequiredActions(r) = {} THEN "awaiting_agent"
                                                   ELSE "needs_manual",
                         !.confirmed = now, !.gen = @ + 1,
                         !.nonce = rows[r].gen + 1, !.used = FALSE,
                         !.expires = now + NonceLifetime, !.authorized = TRUE,
                         !.actions = RequiredActions(r)]
    <3>1. Advance(r, row, node)
      BY <1>2 DEF Confirm
    <3>2. /\ row.state \in {"awaiting_agent", "needs_manual"}
          /\ row.superseded = rows[r].superseded
      BY <1>types DEF Row
    <3> QED BY <3>1, <3>2
  <2>2. /\ rows'[r].state \in {"awaiting_agent", "needs_manual"}
        /\ rows'[r].superseded = rows[r].superseded
        /\ \A q \in Revisions : q # r => rows'[q] = rows[q]
        /\ Pointers' = Pointers
    BY <2>1, <1>types, AdvanceEffect DEF Pointers
  <2>3. /\ r = node.desired /\ ~rows[r].superseded
        /\ rows[r].state \in ConfirmableStates
        /\ ops' = ops
    BY <1>2 DEF Confirm
  <2>4. rows[r].state \notin ClaimedStates \cup {"absent"}
    BY <2>3 DEF ConfirmableStates, ClaimedStates
  <2> USE DEF IndInv, Pointers
  <2>5. Numbering'
    BY <2>2, <2>3, <2>4 DEF Numbering
  <2>6. OneLiveRevision'
    BY <2>2, <2>3 DEF OneLiveRevision
  <2>7. Claims'
    BY <2>2, <2>3, <2>4 DEF Claims
  <2>8. Unshared'
    BY <2>3 DEF Unshared
  <2>9. HostFailures'
    BY <2>2, <2>3, <2>4, <1>types
       DEF HostFailures, Claims, Restored, Operation, Phases
  <2>10. AppliedWasApprovedAndDone'
    <3>1. node.applied # 0 => node.applied \in Revisions /\ node.applied # r
      BY <2>4, AppliedIsRevision DEF AppliedWasApprovedAndDone, ClaimedStates
    <3> QED BY <3>1, <2>2, <2>3 DEF AppliedWasApprovedAndDone
  <2> QED BY <2>5, <2>6, <2>7, <2>8, <2>9, <2>10
<1>3. ASSUME NEW r \in Revisions, Expire(r)
      PROVE  IndInv'
  <2>1. r = node.desired /\ rows[r].state \in {"needs_manual", "awaiting_agent"}
    BY <1>3 DEF Expire, Lapsed
  <2>2. "expired" \in RowStates /\ rows[r].state \notin ClaimedStates
    BY <2>1 DEF RowStates, ClaimedStates
  <2> QED BY <1>3, <2>1, <2>2, ExpireMoves, QuietMove
<1>4. ASSUME NEW service \in Services, NEW startup \in Startups, NEW mode \in Modes,
             NEW supported \in SupportedSets,
             Negotiate(service, startup, mode, supported)
      PROVE  IndInv'
  <2>1. /\ rows' = rows /\ ops' = ops
        /\ node'.desired = node.desired /\ node'.applied = node.applied
        /\ node'.protocol = 2
    BY <1>4, <1>types DEF Negotiate, Node
  <2> QED BY <2>1 DEF IndInv, Numbering, OneLiveRevision, Claims, Unshared,
                      HostFailures, AppliedWasApprovedAndDone
<1>5. ASSUME NEW r \in Revisions, LegacyReport(r)
      PROVE  IndInv'
  <2>1. rows[r].state \in RowStates
    BY <1>types DEF Row
  <2> QED BY <1>5, <2>1, LegacyReportMoves, QuietMove
<1>6. ASSUME NEW id \in OperationIds, NEW r \in Revisions, NEW g, NEW k,
             PrepareOperation(id, r, g, k)
      PROVE  IndInv'
  <2>1. Moves(r, "applying") /\ Pointers' = Pointers
    BY <1>6, PrepareMoves
  <2>2. /\ r = node.desired /\ rows[r].state = "needs_manual"
        /\ node.protocol = 2 /\ rows[r].protocol = 2
        /\ rows[r].confirmed # Nil /\ rows[r].gen # 0
        /\ ops[id].phase = 0
    BY <1>6 DEF PrepareOperation, ValidateCurrent
  <2>3. /\ ops'[id].phase = 1 /\ ops'[id].revision = r /\ ops'[id].gen = rows[r].gen
        /\ \A i \in OperationIds : i # id => ops'[i] = ops[i]
    BY <1>6, <1>types DEF PrepareOperation, Prepared
  <2>4. \A i \in OperationIds : ops[i].phase # 0 => ops[i].revision # r
    BY <2>2 DEF IndInv, Claims, ClaimedStates
  <2>5. /\ rows'[r].state = "applying" /\ rows'[r].superseded = rows[r].superseded
        /\ rows'[r].protocol = 2 /\ rows'[r].confirmed # Nil
        /\ rows'[r].gen = rows[r].gen
        /\ \A q \in Revisions : q # r => rows'[q] = rows[q]
        /\ node'.desired = node.desired /\ node'.applied = node.applied
        /\ node'.protocol = node.protocol
    BY <2>1, <2>2 DEF Moves, Frozen, Pointers
  <2> USE DEF IndInv
  <2>6. Numbering'
    BY <2>2, <2>5 DEF Numbering
  <2>7. OneLiveRevision'
    BY <2>2, <2>5 DEF OneLiveRevision
  <2>8. Claims'
    <3>1. ASSUME NEW i \in OperationIds, i # id, ops[i].phase # 0
          PROVE  rows'[ops[i].revision] = rows[ops[i].revision]
      BY <3>1, <2>4, <2>5 DEF Claims
    <3> QED BY <3>1, <2>2, <2>3, <2>5 DEF Claims, ClaimedStates
  <2>9. Unshared'
    BY <2>3, <2>4 DEF Unshared
  <2>10. HostFailures'
    BY <2>2, <2>3, <2>4, <2>5, <1>types DEF HostFailures, Restored, Operation, Phases
  <2>11. AppliedWasApprovedAndDone'
    <3>1. node.applied # 0 => node.applied \in Revisions /\ node.applied # r
      BY <2>2, AppliedIsRevision DEF AppliedWasApprovedAndDone
    <3> QED BY <3>1, <2>2, <2>3, <2>5 DEF AppliedWasApprovedAndDone, LocalApplied
  <2> QED BY <2>6, <2>7, <2>8, <2>9, <2>10, <2>11
<1>7. ASSUME NEW id \in OperationIds, NEW key \in ReceiptIds, NEW phase \in 2..5,
             ReportOperation(id, key, phase)
      PROVE  IndInv'
  <2>1. PICK r : r = ops[id].revision
    OBVIOUS
  <2> DEFINE current == ValidateCurrent(r) /\ rows[r].gen = ops[id].gen
  <2>2. /\ r \in Revisions
        /\ Pointers' = Pointers
        /\ ops' = [ops EXCEPT ![id].phase = phase]
        /\ IF current THEN Moves(r, IF phase >= 4 THEN "failed" ELSE rows[r].state)
                      ELSE rows' = rows
    BY <1>7, <2>1, ReportMoves
  <2>3. /\ ops[id].phase # 0 /\ ops[id].phase <= phase
        /\ rows[r].state = "delivered" => phase = Restored
        /\ phase <= 3 => current
    BY <1>7, <2>1 DEF ReportOperation
  <2>4. /\ ops'[id].phase = phase /\ ops'[id].revision = r /\ ops'[id].gen = ops[id].gen
        /\ \A i \in OperationIds : i # id => ops'[i] = ops[i]
    BY <2>1, <2>2, <1>types DEF Operation
  <2>5. /\ rows[r].state \in ClaimedStates /\ rows[r].gen = ops[id].gen
        /\ rows[r].gen # 0 /\ rows[r].confirmed # Nil
        /\ node.protocol = 2 /\ rows[r].protocol = 2
    BY <2>1, <2>3 DEF IndInv, Claims
  <2>6. r = node.desired => current
    BY <2>2, <2>5, <1>types DEF ValidateCurrent, IndInv, Numbering, Revisions, Node
  <2>7. /\ \A q \in Revisions : Frozen(q)' = Frozen(q)
        /\ \A q \in Revisions : \/ rows'[q].state = rows[q].state
                                \/ /\ q = r /\ r = node.desired
                                   /\ rows'[q].state = "failed"
        /\ r = node.desired /\ phase >= 4 => rows'[r].state = "failed"
    BY <2>2, <2>6 DEF Moves, Frozen, ValidateCurrent
  <2> HIDE DEF current
  <2> USE DEF IndInv, Pointers, Frozen
  <2>8. Numbering'
    BY <2>2, <2>5, <2>7 DEF Numbering, ClaimedStates
  <2>9. OneLiveRevision'
    BY <2>2, <2>7 DEF OneLiveRevision
  <2>10. Claims'
    <3>1. ASSUME NEW i \in OperationIds
          PROVE  /\ ops'[i].phase = 0 <=> ops[i].phase = 0
                 /\ ops'[i].revision = ops[i].revision /\ ops'[i].gen = ops[i].gen
      BY <2>1, <2>3, <2>4
    <3> QED BY <3>1, <2>2, <2>5, <2>7 DEF Claims, ClaimedStates
  <2>11. Unshared'
    BY <2>1, <2>3, <2>4 DEF Unshared
  <2>12. HostFailures'
    <3>1. ASSUME NEW i \in OperationIds, ops'[i].phase >= Restored,
                 ops'[i].revision = node.desired
          PROVE  rows'[node.desired].state = "failed"
      <4>1. CASE i = id
        BY <4>1, <3>1, <2>4, <2>7 DEF Restored
      <4>2. CASE i # id
        BY <4>2, <3>1, <2>4, <2>2, <2>7, <1>types
           DEF HostFailures, Claims, Restored, Operation, Phases
      <4> QED BY <4>1, <4>2
    <3> QED BY <3>1, <2>2 DEF HostFailures
  <2>13. AppliedWasApprovedAndDone'
    <3> SUFFICES ASSUME node.applied # 0 PROVE AppliedWasApprovedAndDone'
      BY <2>2 DEF AppliedWasApprovedAndDone
    <3>1. node.applied \in Revisions
      BY AppliedIsRevision
    <3>2. /\ rows'[node.applied].confirmed = rows[node.applied].confirmed
          /\ rows'[node.applied].authorized = rows[node.applied].authorized
          /\ rows'[node.applied].actions = rows[node.applied].actions
          /\ rows'[node.applied].gen = rows[node.applied].gen
      BY <3>1, <2>7
    <3>3. rows'[node.applied].state \in {"delivered", "failed"}
      BY <3>1, <2>7 DEF AppliedWasApprovedAndDone
    <3>4. ASSUME NEW i \in OperationIds, ops[i].phase >= LocalApplied
          PROVE  /\ ops'[i].revision = ops[i].revision /\ ops'[i].gen = ops[i].gen
                 /\ ops'[i].phase >= LocalApplied
      BY <3>4, <2>1, <2>3, <2>4, <1>types DEF Operation, Phases, LocalApplied
    <3> QED BY <3>1, <3>2, <3>3, <3>4, <2>2 DEF AppliedWasApprovedAndDone
  <2> QED BY <2>8, <2>9, <2>10, <2>11, <2>12, <2>13
<1>8. ASSUME NEW key \in ReceiptIds, NEW r \in Revisions, NEW service \in Services,
             NEW startup \in Startups, NEW mode \in Modes,
             NEW observed \in 0..(now + ClockSkew), NEW id \in OperationIds,
             NEW effective \in Effects, NEW g,
             Observe(key, r, g, service, startup, mode, observed, id, effective)
      PROVE  IndInv'
  <2>1. mode \in 1..5 /\ observed \in Int /\ effective \in Capabilities
    BY DEF TypeOK
  <2>2. /\ Moves(r, "delivered") /\ ops' = ops
        /\ node'.desired = node.desired /\ node'.protocol = node.protocol
        /\ node'.applied = r
    BY <1>8, <2>1, ObserveMoves
  <2>3. /\ r = node.desired /\ ~rows[r].superseded
        /\ rows[r].confirmed # Nil /\ rows[r].authorized
        /\ rows[r].state \in {"applying", "awaiting_agent", "delivered"}
    BY <1>8 DEF Observe, ValidateCurrent
  <2>4. rows[r].actions # {} => HostWorkDone(r, ops[id], startup)
    BY <1>8 DEF Observe
  <2> USE DEF IndInv, Moves, Frozen
  <2>5. Numbering'
    BY <2>2, <2>3 DEF Numbering
  <2>6. OneLiveRevision'
    BY <2>2, <2>3 DEF OneLiveRevision
  <2>7. Claims'
    BY <2>2, <2>3 DEF Claims, ClaimedStates
  <2>8. Unshared'
    BY <2>2 DEF Unshared
  <2>9. HostFailures'
    BY <2>2, <2>3, <1>types DEF HostFailures, Restored, Operation, Phases
  <2>10. AppliedWasApprovedAndDone'
    <3>1. /\ rows'[r].confirmed = rows[r].confirmed
          /\ rows'[r].authorized = rows[r].authorized
          /\ rows'[r].actions = rows[r].actions /\ rows'[r].gen = rows[r].gen
          /\ rows'[r].state = "delivered"
      BY <2>2
    <3>2. rows[r].actions # {} => /\ ops[id].revision = r /\ ops[id].gen = rows[r].gen
                                 /\ ops[id].phase >= LocalApplied
      BY <2>4, <1>types DEF HostWorkDone, LocalApplied
    <3>3. r <= node.desired
      BY <2>3 DEF Revisions
    <3> QED BY <2>2, <2>3, <3>1, <3>2, <3>3 DEF AppliedWasApprovedAndDone
  <2> QED BY <2>5, <2>6, <2>7, <2>8, <2>9, <2>10
<1>9. ASSUME NEW key \in ReceiptIds, NEW r \in Revisions, NEW g, FailApply(key, r, g)
      PROVE  IndInv'
  <2>1. /\ r = node.desired /\ "failed" \in RowStates
        /\ Moves(r, "failed") /\ Pointers' = Pointers /\ ops' = ops
    BY <1>9, FailApplyMoves DEF FailApply, ValidateCurrent, RowStates
  <2> QED BY <2>1, QuietMove
<1>10. ASSUME NEW s \in Installations, NEW service \in Services, NEW preserve \in BOOLEAN,
              InitializeBaseline(s, service, preserve)
       PROVE  IndInv'
  <2>1. PICK row : /\ Advance(1, row, [node EXCEPT !.desired = 1])
                   /\ row.state = "awaiting_agent" /\ ~row.superseded
    <3> DEFINE row == [NoRow EXCEPT !.protocol = 2, !.baseline = TRUE,
                                    !.settings = s, !.gen = 1,
                                    !.confirmed = now, !.authorized = TRUE,
                                    !.state = "awaiting_agent"]
    <3>1. Advance(1, row, [node EXCEPT !.desired = 1])
      BY <1>10 DEF InitializeBaseline
    <3>2. row.state = "awaiting_agent" /\ ~row.superseded
      BY DEF NoRow
    <3> QED BY <3>1, <3>2
  <2>2. 1 \in Revisions /\ node.desired = 0 /\ node.applied = 0 /\ ops' = ops
    BY <1>10 DEF InitializeBaseline, Revisions
  <2>3. NodeOK([node EXCEPT !.desired = 1])
    BY <1>types DEF NodeOK, Node
  <2>4. /\ rows'[1] = row
        /\ \A q \in Revisions : q # 1 => rows'[q] = rows[q]
        /\ node'.desired = 1 /\ node'.applied = 0
    BY <2>1, <2>2, <2>3, <1>types, AdvanceEffect DEF Node
  <2>5. \A q \in Revisions : rows[q].state = "absent"
    BY <2>2 DEF IndInv, Numbering, Revisions
  <2>6. \A i \in OperationIds : ops[i].phase = 0
    BY <2>5 DEF IndInv, Claims, ClaimedStates
  <2>7. Numbering' /\ OneLiveRevision'
    BY <2>1, <2>2, <2>4, <2>5 DEF IndInv, Numbering, OneLiveRevision, Revisions
  <2>8. Claims' /\ Unshared' /\ HostFailures'
    BY <2>2, <2>4, <2>6 DEF IndInv, Claims, Unshared, HostFailures, Restored
  <2>9. AppliedWasApprovedAndDone'
    BY <2>4 DEF AppliedWasApprovedAndDone
  <2> QED BY <2>7, <2>8, <2>9 DEF IndInv
<1>11. ASSUME NEW p \in Profiles, SaveProfile(p) PROVE IndInv'
  BY <1>11, <1>same DEF SaveProfile, Pointers
<1>12. CASE Tick
  BY <1>12, <1>same DEF Tick, Pointers
<1>13. CASE UNCHANGED vars
  BY <1>13, <1>same DEF vars, Pointers
<1> QED
  BY <1>1, <1>2, <1>3, <1>4, <1>5, <1>6, <1>7, <1>8, <1>9, <1>10, <1>11, <1>12, <1>13
     DEF Next, Panel, Agent, HostTool

LEMMA Invariance == Spec => [](TypeOK /\ IndInv)
<1>1. TypeOK /\ IndInv /\ [Next]_vars => (TypeOK /\ IndInv)'
  BY TypeStep, IndStep
<1> QED BY <1>1, InitType, InitInv, PTL DEF Spec

-----------------------------------------------------------------------------
(* Safety. *)

\* At every moment only the desired revision can still be approved or
\* executed: Save drops the others in its own transaction.
THEOREM OneLive == Spec => []OneLiveRevision
BY Invariance, PTL DEF IndInv

\* However confirmations, expiries, prepares and reports interleave, a
\* revision's approval is claimed by at most one host operation and the
\* revision never becomes claimable again.
THEOREM ClaimedOnce == Spec => []ApprovalClaimedOnce
<1>1. IndInv => ApprovalClaimedOnce
  BY DEF IndInv, Claims, Unshared, ApprovalClaimedOnce
<1> QED BY <1>1, Invariance, PTL

\* What the applied pointer names was approved, and the host work of that
\* approval was reported done under the approval's own generation.
THEOREM AppliedSound == Spec => []AppliedWasApprovedAndDone
BY Invariance, PTL DEF IndInv

\* A failure or restoration reported by the host for the desired revision
\* closes every capability to new sessions.
THEOREM RestoredDenied == Spec => []RestoredDesiredDenied
<1>1. TypeOK /\ IndInv => RestoredDesiredDenied
  <2> SUFFICES ASSUME TypeOK, IndInv, NEW i \in OperationIds, NEW f \in Features,
                      ops[i].phase >= Restored, ops[i].revision = node.desired
               PROVE  ~CapabilityAllowed(f)
    BY DEF RestoredDesiredDenied
  <2>1. rows[node.desired].state = "failed"
    BY DEF IndInv, HostFailures
  <2>2. node.protocol = 2
    BY DEF IndInv, Claims, Restored, TypeOK, Operation, Phases
  <2> QED BY <2>1, <2>2 DEF CapabilityAllowed, Allows
<1> QED BY <1>1, Invariance, PTL

-----------------------------------------------------------------------------
(* The handlers implement PrivilegedTrack. *)

Life == [r \in Revisions |-> LifeOf(r)]

\* LifeOf is a function of the state and the protocol of the row.
LEMMA LifeChange ==
  ASSUME NEW r \in Revisions,
         \A q \in Revisions : q # r => rows'[q] = rows[q]
  PROVE  Life' = [Life EXCEPT ![r] = LifeOf(r)']
<1>1. ASSUME NEW q \in Revisions, q # r PROVE LifeOf(q)' = LifeOf(q)
  BY <1>1 DEF LifeOf
<1> QED BY <1>1 DEF Life

LEMMA LifeSame ==
  ASSUME NEW r \in Revisions, LifeOf(r)' = LifeOf(r),
         \A q \in Revisions : q # r => rows'[q] = rows[q]
  PROVE  Life' = Life
<1>1. ASSUME NEW q \in Revisions PROVE LifeOf(q)' = LifeOf(q)
  <2>1. CASE q = r
    BY <2>1
  <2>2. CASE q # r
    BY <2>2 DEF LifeOf
  <2> QED BY <2>1, <2>2
<1> QED BY <1>1 DEF Life

\* A move of the desired revision is a move of its life.
LEMMA LifeMove ==
  ASSUME NEW r \in Revisions, r = node.desired, NEW from, NEW to,
         LifeOf(r) \in from, LifeOf(r)' = to, node'.desired = node.desired,
         \A q \in Revisions : q # r => rows'[q] = rows[q]
  PROVE  Track!Move(from, to)
<1>1. Life' = [Life EXCEPT ![r] = to]
  BY LifeChange
<1> QED BY <1>1 DEF Track!Move, Track!Proposals, Life, Revisions

LEMMA TrackStep ==
  TypeOK /\ IndInv /\ [Next]_vars => [Track!TrackNext]_(Track!trackVars)
<1> SUFFICES ASSUME TypeOK, IndInv, [Next]_vars
             PROVE  Track!TrackNext \/ UNCHANGED Track!trackVars
  OBVIOUS
<1> USE PrivilegedDeliveryAssumption
<1>types. /\ node \in Node /\ NodeOK(node)
          /\ rows \in [Revisions -> Row]
  BY DEF TypeOK, NodeOK
<1>same. ASSUME Life' = Life, node'.desired = node.desired, node'.applied = node.applied
         PROVE  UNCHANGED Track!trackVars
  BY <1>same DEF Track!trackVars, Life
<1>1. ASSUME NEW s \in Requests, NEW expected \in 0..MaxRevision, Save(s, expected)
      PROVE  Track!TrackNext
  <2>0. PICK new : new = node.desired + 1
    OBVIOUS
  <2>1. /\ new <= MaxRevision
        /\ node' = [node EXCEPT !.desired = new, !.seq = node.seq + 1]
    BY <1>1, <2>0 DEF Save
  <2>2. /\ new \in Revisions /\ node.desired < MaxRevision
        /\ node'.desired = new /\ node'.applied = node.applied
    BY <2>0, <2>1, <1>types DEF Node, Revisions
  <2>3. rows'[new].state = "needs_confirmation"
    BY <1>1, <2>0, <2>2 DEF Save, NoRow
  <2>4. ASSUME NEW q \in Revisions, q # new
        PROVE  rows'[q] = IF rows[q].state \in LiveStates
                            THEN [rows[q] EXCEPT !.state = "superseded",
                                                 !.superseded = TRUE, !.nonce = 0]
                            ELSE rows[q]
    BY <1>1, <2>0, <2>4 DEF Save
  <2>5. LifeOf(new)' = "pending"
    BY <2>3 DEF LifeOf
  <2>6. ASSUME NEW q \in Revisions, q # new
        PROVE  LifeOf(q)' = IF LifeOf(q) \in Track!Open THEN "dropped" ELSE LifeOf(q)
    <3>1. rows[q] \in Row
      BY <1>types
    <3>2. CASE rows[q].state \in LiveStates
      <4>1. rows'[q].state = "superseded"
        BY <2>4, <2>6, <3>1, <3>2 DEF Row
      <4> QED BY <4>1, <3>2 DEF LifeOf, LiveStates, Track!Open
    <3>3. CASE rows[q].state \notin LiveStates
      BY <2>4, <2>6, <3>1, <3>3 DEF LifeOf, LiveStates, Track!Open, Row, RowStates
    <3> QED BY <3>2, <3>3
  <2>7. Life' = [r \in Revisions |-> IF r = new THEN "pending"
                                     ELSE IF Life[r] \in Track!Open THEN "dropped"
                                     ELSE Life[r]]
    BY <2>5, <2>6 DEF Life
  <2>8. Track!Propose
    BY <2>0, <2>2, <2>7 DEF Track!Propose, Track!Proposals, Life, Revisions
  <2> QED BY <2>8 DEF Track!TrackNext
<1>2. ASSUME NEW r \in Revisions, Confirm(r)
      PROVE  Track!TrackNext \/ UNCHANGED Track!trackVars
  <2> DEFINE row == [rows[r] EXCEPT
                       !.state = IF RequiredActions(r) = {} THEN "awaiting_agent"
                                                 ELSE "needs_manual",
                       !.confirmed = now, !.gen = @ + 1,
                       !.nonce = rows[r].gen + 1, !.used = FALSE,
                       !.expires = now + NonceLifetime, !.authorized = TRUE,
                       !.actions = RequiredActions(r)]
  <2>1. /\ Advance(r, row, node) /\ r = node.desired /\ rows[r].protocol = 2
        /\ rows[r].state \in ConfirmableStates
    BY <1>2 DEF Confirm
  <2>2. row.state \in {"awaiting_agent", "needs_manual"} /\ row.protocol = 2
    BY <2>1, <1>types DEF Row
  <2> HIDE DEF row
  <2>3. /\ rows'[r] = row
        /\ \A q \in Revisions : q # r => rows'[q] = rows[q]
        /\ node'.desired = node.desired /\ node'.applied = node.applied
    BY <2>1, <1>types, AdvanceEffect
  <2>4. LifeOf(r)' = "approved" /\ LifeOf(r) \in {"approved", "pending"}
    BY <2>1, <2>2, <2>3 DEF LifeOf, ConfirmableStates
  <2>5. CASE LifeOf(r) = "pending"
    BY <2>1, <2>3, <2>4, <2>5, LifeMove DEF Track!TrackNext, Track!Approve
  <2>6. CASE LifeOf(r) = "approved"
    BY <2>3, <2>4, <2>6, LifeSame, <1>same
  <2> QED BY <2>4, <2>5, <2>6
<1>3. ASSUME NEW r \in Revisions, Expire(r)
      PROVE  Track!TrackNext \/ UNCHANGED Track!trackVars
  <2>1. /\ Moves(r, "expired") /\ Pointers' = Pointers /\ r = node.desired
        /\ rows[r].state \in {"needs_manual", "awaiting_agent"}
    BY <1>3, ExpireMoves DEF Expire, Lapsed
  <2>2. LifeOf(r)' = "pending" /\ LifeOf(r) \in {"approved", "pending"}
    BY <2>1 DEF LifeOf, Moves
  <2>3. CASE LifeOf(r) = "approved"
    BY <2>1, <2>2, <2>3, LifeMove
       DEF Track!TrackNext, Track!Lapse, Moves, Pointers
  <2>4. CASE LifeOf(r) = "pending"
    BY <2>1, <2>2, <2>4, LifeSame, <1>same DEF Moves, Pointers
  <2> QED BY <2>2, <2>3, <2>4
<1>4. ASSUME NEW service \in Services, NEW startup \in Startups, NEW mode \in Modes,
             NEW supported \in SupportedSets,
             Negotiate(service, startup, mode, supported)
      PROVE  UNCHANGED Track!trackVars
  <2>1. /\ rows' = rows
        /\ node'.desired = node.desired /\ node'.applied = node.applied
    BY <1>4, <1>types DEF Negotiate, Node
  <2> QED BY <2>1, <1>same DEF Life, LifeOf
<1>5. ASSUME NEW r \in Revisions, LegacyReport(r)
      PROVE  UNCHANGED Track!trackVars
  <2>1. Moves(r, rows[r].state) /\ Pointers' = Pointers
    BY <1>5, LegacyReportMoves
  <2>2. LifeOf(r)' = LifeOf(r)
    BY <2>1 DEF LifeOf, Moves, Frozen
  <2> QED BY <2>1, <2>2, LifeSame, <1>same DEF Moves, Pointers
<1>6. ASSUME NEW id \in OperationIds, NEW r \in Revisions, NEW g, NEW k,
             PrepareOperation(id, r, g, k)
      PROVE  Track!TrackNext
  <2>1. Moves(r, "applying") /\ Pointers' = Pointers
    BY <1>6, PrepareMoves
  <2>2. /\ r = node.desired /\ rows[r].state = "needs_manual" /\ rows[r].protocol = 2
    BY <1>6 DEF PrepareOperation, ValidateCurrent
  <2>3. LifeOf(r)' = "claimed" /\ LifeOf(r) = "approved"
    BY <2>1, <2>2 DEF LifeOf, Moves
  <2> QED BY <2>1, <2>2, <2>3, LifeMove
          DEF Track!TrackNext, Track!Claim, Moves, Pointers
<1>7. ASSUME NEW id \in OperationIds, NEW key \in ReceiptIds, NEW phase \in 2..5,
             ReportOperation(id, key, phase)
      PROVE  Track!TrackNext \/ UNCHANGED Track!trackVars
  <2>1. PICK r : r = ops[id].revision
    OBVIOUS
  <2> DEFINE current == ValidateCurrent(r) /\ rows[r].gen = ops[id].gen
  <2>2. /\ r \in Revisions /\ Pointers' = Pointers
        /\ IF current THEN Moves(r, IF phase >= 4 THEN "failed" ELSE rows[r].state)
                      ELSE rows' = rows
    BY <1>7, <2>1, ReportMoves
  <2>3. rows[r].state \in ClaimedStates
    BY <1>7, <2>1 DEF ReportOperation, IndInv, Claims
  <2>4. CASE ~current
    BY <2>2, <2>4, <1>same DEF Life, LifeOf, Pointers
  <2>5. CASE current /\ phase < 4
    <3>1. Moves(r, rows[r].state)
      BY <2>2, <2>5
    <3>2. LifeOf(r)' = LifeOf(r)
      BY <3>1 DEF LifeOf, Moves, Frozen
    <3> QED BY <2>2, <3>1, <3>2, LifeSame, <1>same DEF Moves, Pointers
  <2>6. CASE current /\ phase >= 4
    <3>1. Moves(r, "failed") /\ r = node.desired /\ rows[r].state # "superseded"
      BY <2>2, <2>6 DEF ValidateCurrent
    <3>2. LifeOf(r)' = "failed" /\ LifeOf(r) \in {"claimed", "acknowledged", "failed"}
      BY <2>3, <3>1 DEF LifeOf, Moves, ClaimedStates
    <3>3. CASE LifeOf(r) = "failed"
      BY <2>2, <3>1, <3>2, <3>3, LifeSame, <1>same DEF Moves, Pointers
    <3>4. CASE LifeOf(r) \in {"approved", "claimed", "acknowledged"}
      BY <2>2, <3>1, <3>2, <3>4, LifeMove
         DEF Track!TrackNext, Track!Fail, Moves, Pointers
    <3> QED BY <3>2, <3>3, <3>4
  <2> QED BY <2>4, <2>5, <2>6
<1>8. ASSUME NEW key \in ReceiptIds, NEW r \in Revisions, NEW service \in Services,
             NEW startup \in Startups, NEW mode \in Modes,
             NEW observed \in 0..(now + ClockSkew), NEW id \in OperationIds,
             NEW effective \in Effects, NEW g,
             Observe(key, r, g, service, startup, mode, observed, id, effective)
      PROVE  Track!TrackNext
  <2>1. mode \in 1..5 /\ observed \in Int /\ effective \in Capabilities
    BY DEF TypeOK
  <2>2. /\ Moves(r, "delivered")
        /\ node'.desired = node.desired /\ node'.applied = r
    BY <1>8, <2>1, ObserveMoves
  <2>3. /\ r = node.desired /\ rows[r].protocol = 2
        /\ rows[r].state \in {"applying", "awaiting_agent", "delivered"}
    BY <1>8 DEF Observe, ValidateCurrent
  <2>4. /\ LifeOf(r)' = "acknowledged"
        /\ LifeOf(r) \in {"approved", "claimed", "acknowledged"}
    BY <2>2, <2>3 DEF LifeOf, Moves
  <2> QED BY <2>2, <2>3, <2>4, LifeMove
          DEF Track!TrackNext, Track!Acknowledge, Moves
<1>9. ASSUME NEW key \in ReceiptIds, NEW r \in Revisions, NEW g, FailApply(key, r, g)
      PROVE  Track!TrackNext
  <2>1. Moves(r, "failed") /\ Pointers' = Pointers
    BY <1>9, FailApplyMoves
  <2>2. /\ r = node.desired /\ rows[r].protocol = 2
        /\ rows[r].state \in {"awaiting_agent", "applying", "needs_manual"}
    BY <1>9 DEF FailApply, ValidateCurrent
  <2>3. /\ LifeOf(r)' = "failed"
        /\ LifeOf(r) \in {"approved", "claimed", "acknowledged"}
    BY <2>1, <2>2 DEF LifeOf, Moves
  <2> QED BY <2>1, <2>2, <2>3, LifeMove
          DEF Track!TrackNext, Track!Fail, Moves, Pointers
<1>10. ASSUME NEW s \in Installations, NEW service \in Services, NEW preserve \in BOOLEAN,
              InitializeBaseline(s, service, preserve)
       PROVE  Track!TrackNext
  <2> DEFINE row == [NoRow EXCEPT !.protocol = 2, !.baseline = TRUE,
                                  !.settings = s, !.gen = 1,
                                  !.confirmed = now, !.authorized = TRUE,
                                  !.state = "awaiting_agent"]
  <2>1. /\ Advance(1, row, [node EXCEPT !.desired = 1])
        /\ 1 \in Revisions /\ MaxRevision > 0 /\ node.desired = 0
    BY <1>10 DEF InitializeBaseline, Revisions
  <2>2. row.state = "awaiting_agent" /\ row.protocol = 2
    BY DEF NoRow
  <2> HIDE DEF row
  <2>3. NodeOK([node EXCEPT !.desired = 1])
    BY <1>types DEF NodeOK, Node
  <2>4. /\ rows'[1] = row
        /\ \A q \in Revisions : q # 1 => rows'[q] = rows[q]
        /\ node'.desired = 1 /\ node'.applied = node.applied
    BY <2>1, <2>3, <1>types, AdvanceEffect DEF Node
  <2>5. LifeOf(1)' = "approved"
    BY <2>2, <2>4 DEF LifeOf
  <2>6. Life' = [Life EXCEPT ![1] = "approved"]
    BY <2>1, <2>4, <2>5, LifeChange
  <2>7. Track!Install
    BY <2>1, <2>4, <2>6 DEF Track!Install, Life
  <2> QED BY <2>7 DEF Track!TrackNext
<1>11. ASSUME NEW p \in Profiles, SaveProfile(p) PROVE UNCHANGED Track!trackVars
  BY <1>11, <1>same DEF SaveProfile, Life, LifeOf
<1>12. CASE Tick
  BY <1>12, <1>same DEF Tick, Life, LifeOf
<1>13. CASE UNCHANGED vars
  BY <1>13, <1>same DEF vars, Life, LifeOf
<1> QED
  BY <1>1, <1>2, <1>3, <1>4, <1>5, <1>6, <1>7, <1>8, <1>9, <1>10, <1>11, <1>12, <1>13
     DEF Next, Panel, Agent, HostTool

LEMMA TrackStart == Init => Track!TrackInit
<1> SUFFICES ASSUME Init PROVE Track!TrackInit
  OBVIOUS
<1>1. PICK legacy \in BOOLEAN :
        /\ legacy => MaxRevision > 0
        /\ rows = [r \in Revisions |-> IF legacy /\ r = 1 THEN Legacy ELSE NoRow]
        /\ node.desired = IF legacy THEN 1 ELSE 0
        /\ node.applied = 0
  BY DEF Init
<1>2. /\ NoRow.state = "absent"
      /\ Legacy.state = "needs_manual" /\ Legacy.protocol = 1
  BY DEF Legacy, NoRow
<1>3. \A r \in Revisions : LifeOf(r) = IF legacy /\ r = 1 THEN "pending" ELSE "none"
  BY <1>1, <1>2 DEF LifeOf
<1> QED BY <1>1, <1>3 DEF Track!TrackInit, Track!Proposals, Revisions

\* The stored protocol, with its expiry, leases, receipts and retries, is an
\* implementation of the revision life PrivilegedTrack specifies.
THEOREM Implementation == Spec => ImplementsTrack
BY Invariance, TrackStart, TrackStep, PTL DEF Spec, ImplementsTrack, Track!TrackSpec

-----------------------------------------------------------------------------
(* Action properties. *)

\* What a step of the track may do to the life of one revision.
LEMMA LifeStep ==
  ASSUME TypeOK, IndInv, Track!TrackNext \/ UNCHANGED Track!trackVars,
         NEW r \in Revisions
  PROVE  /\ LifeOf(r) \in {"failed", "dropped"} => LifeOf(r)' = LifeOf(r)
         /\ LifeOf(r) = "acknowledged" => LifeOf(r)' \in {"acknowledged", "failed"}
         /\ node'.applied = node.applied \/ node'.applied = node.desired
<1>life. Life[r] = LifeOf(r) /\ Life'[r] = LifeOf(r)'
  BY DEF Life
<1>new. r > node.desired => LifeOf(r) = "none"
  BY DEF IndInv, Numbering, LifeOf
<1>nat. node.desired \in Nat /\ node.applied \in Nat
  BY DEF TypeOK, Node
<1>move. ASSUME NEW from, NEW to, Track!Move(from, to)
         PROVE  \/ Life'[r] = Life[r]
                \/ Life[r] \in from /\ Life'[r] = to
  BY <1>move DEF Track!Move, Life
<1>1. CASE Track!Propose
  <2>1. /\ node'.applied = node.applied
        /\ Life'[r] = IF r = node.desired + 1 THEN "pending"
                      ELSE IF Life[r] \in Track!Open THEN "dropped" ELSE Life[r]
    BY <1>1 DEF Track!Propose, Track!Proposals, Life, Revisions
  <2> QED BY <2>1, <1>life, <1>new, <1>nat DEF Track!Open
<1>2. CASE Track!Install
  <2>1. /\ node'.applied = node.applied /\ node.desired = 0
        /\ Life'[r] = IF r = 1 THEN "approved" ELSE Life[r]
    BY <1>2 DEF Track!Install, Life
  <2> QED BY <2>1, <1>life, <1>new
<1>3. CASE Track!Approve \/ Track!Lapse \/ Track!Claim
  BY <1>3, <1>move, <1>life DEF Track!Approve, Track!Lapse, Track!Claim
<1>4. CASE Track!Acknowledge
  BY <1>4, <1>move, <1>life DEF Track!Acknowledge
<1>5. CASE Track!Fail
  BY <1>5, <1>move, <1>life DEF Track!Fail
<1>6. CASE UNCHANGED Track!trackVars
  BY <1>6, <1>life DEF Track!trackVars, Life
<1> QED BY <1>1, <1>2, <1>3, <1>4, <1>5, <1>6 DEF Track!TrackNext

\* No handler, whenever it is called, revives a failed or superseded revision
\* or takes back an acknowledgement.
THEOREM Lifecycle == Spec => RevisionLifecycle
<1> DEFINE Step ==
      \A r \in Revisions :
        /\ rows[r].state \in {"failed", "superseded"}
             => rows'[r].state = rows[r].state
        /\ rows[r].state = "delivered"
             => rows'[r].state \in {"delivered", "failed"}
<1>1. ASSUME TypeOK, TypeOK', IndInv, [Next]_vars PROVE Step
  <2> SUFFICES ASSUME NEW r \in Revisions
               PROVE  /\ rows[r].state \in {"failed", "superseded"}
                           => rows'[r].state = rows[r].state
                      /\ rows[r].state = "delivered"
                           => rows'[r].state \in {"delivered", "failed"}
    OBVIOUS
  <2>1. /\ LifeOf(r) \in {"failed", "dropped"} => LifeOf(r)' = LifeOf(r)
        /\ LifeOf(r) = "acknowledged" => LifeOf(r)' \in {"acknowledged", "failed"}
    BY <1>1, TrackStep, LifeStep
  <2>2. rows[r].state \in RowStates /\ rows'[r].state \in RowStates
    BY <1>1 DEF TypeOK, Row
  <2> QED BY <2>1, <2>2 DEF LifeOf, RowStates
<1> QED BY <1>1, Invariance, PTL DEF Spec, RevisionLifecycle

\* The time of the last observation never moves back.
LEMMA ObservedStep ==
  ASSUME TypeOK, [Next]_vars
  PROVE  node'.observed >= node.observed
<1> USE PrivilegedDeliveryAssumption
<1>node. node \in Node /\ rows \in [Revisions -> Row]
  BY DEF TypeOK
<1>int. node.observed \in Int
  BY <1>node DEF Node
<1>advance. ASSUME NEW r, NEW row, NEW state \in Node, Advance(r, row, state)
            PROVE  node'.observed = state.observed
  BY <1>advance DEF Advance, Node
<1>1. ASSUME NEW s \in Requests, NEW expected \in 0..MaxRevision, Save(s, expected)
      PROVE  node'.observed = node.observed
  BY <1>1, <1>node DEF Save, Node
<1>2. ASSUME NEW r \in Revisions, Confirm(r) \/ Expire(r) \/ LegacyReport(r)
      PROVE  node'.observed = node.observed
  BY <1>2, <1>node, <1>advance DEF Confirm, Expire, LegacyReport
<1>3. ASSUME NEW service \in Services, NEW startup \in Startups, NEW mode \in Modes,
             NEW supported \in SupportedSets,
             Negotiate(service, startup, mode, supported)
      PROVE  node'.observed = node.observed
  BY <1>3, <1>node DEF Negotiate, Node
<1>4. ASSUME NEW id \in OperationIds, NEW r \in Revisions, NEW g, NEW k,
             PrepareOperation(id, r, g, k)
      PROVE  node'.observed = node.observed
  BY <1>4, <1>node, <1>advance DEF PrepareOperation
<1>5. ASSUME NEW id \in OperationIds, NEW key \in ReceiptIds, NEW phase \in 2..5,
             ReportOperation(id, key, phase)
      PROVE  node'.observed = node.observed
  BY <1>5, <1>node, <1>advance DEF ReportOperation
<1>6. ASSUME NEW key \in ReceiptIds, NEW r \in Revisions, NEW service \in Services,
             NEW startup \in Startups, NEW mode \in Modes,
             NEW observed \in 0..(now + ClockSkew), NEW id \in OperationIds,
             NEW effective \in Effects, NEW g,
             Observe(key, r, g, service, startup, mode, observed, id, effective)
      PROVE  node'.observed >= node.observed
  <2> DEFINE state == [node EXCEPT !.applied = r, !.observed = observed,
                                   !.helper = effective.helper,
                                   !.mode = mode, !.startup = startup]
  <2>1. \E row : Advance(r, row, state)
    BY <1>6 DEF Observe
  <2>2. state.observed = observed /\ observed \in Int /\ observed >= 0
    BY <1>node DEF TypeOK, Node
  <2>3. node'.observed = observed
    BY <2>1, <2>2, <1>node DEF Advance, Node
  <2>4. node.observed = Nil \/ observed >= node.observed
    BY <1>6 DEF Observe
  <2> QED BY <2>2, <2>3, <2>4 DEF Nil
<1>7. ASSUME NEW key \in ReceiptIds, NEW r \in Revisions, NEW g, FailApply(key, r, g)
      PROVE  node'.observed = node.observed
  BY <1>7, <1>node, <1>advance DEF FailApply
<1>8. ASSUME NEW s \in Installations, NEW service \in Services, NEW preserve \in BOOLEAN,
             InitializeBaseline(s, service, preserve)
      PROVE  node'.observed = node.observed
  <2>1. [node EXCEPT !.desired = 1] \in Node
    BY <1>node DEF Node
  <2> QED BY <1>8, <2>1, <1>node, <1>advance DEF InitializeBaseline, Node
<1>9. ASSUME NEW p \in Profiles, SaveProfile(p) PROVE node'.observed = node.observed
  BY <1>9 DEF SaveProfile
<1>10. CASE Tick \/ UNCHANGED vars
  BY <1>10, <1>int DEF Tick, vars
<1> QED
  BY <1>int, <1>1, <1>2, <1>3, <1>4, <1>5, <1>6, <1>7, <1>8, <1>9, <1>10
     DEF Next, Panel, Agent, HostTool

\* A delayed acknowledgement of an older revision never replaces a newer one.
THEOREM AppliedMonotone == Spec => AppliedNeverRegresses
<1> DEFINE Step == /\ node'.applied >= node.applied
                   /\ node'.observed >= node.observed
                   /\ node'.applied # node.applied => node'.applied = node.desired
<1>1. ASSUME TypeOK, IndInv, [Next]_vars PROVE Step
  <2>1. node'.applied = node.applied \/ node'.applied = node.desired
    <3>1. CASE Revisions = {}
      BY <1>1, <3>1, TrackStep DEF Track!TrackNext, Track!trackVars, Track!Propose,
         Track!Install, Track!Approve, Track!Lapse, Track!Claim, Track!Acknowledge,
         Track!Fail
    <3>2. CASE Revisions # {}
      BY <1>1, <3>2, TrackStep, LifeStep
    <3> QED BY <3>1, <3>2
  <2>2. node.applied \in Nat /\ node.desired \in Nat /\ node.applied <= node.desired
    BY <1>1 DEF TypeOK, Node, IndInv, AppliedWasApprovedAndDone
  <2>3. node'.observed >= node.observed
    BY <1>1, ObservedStep
  <2> QED BY <2>1, <2>2, <2>3
<1> QED BY <1>1, Invariance, PTL DEF Spec, AppliedNeverRegresses

-----------------------------------------------------------------------------
(***************************************************************************)
(* What PrivilegedDelivery promises about deadlines, about the cursor and  *)
(* about the saved profile, step by step.  The invariant above is used as  *)
(* it is; Deadlines adds what it does not say about time.                  *)
(***************************************************************************)

\* A lease ends with the approval it was taken under, and the timestamps of a
\* revision tell where it stands: no approval before the first confirmation,
\* an approval that was confirmed in the past, and one that is over once the
\* row says expired.
Deadline(r) ==
  /\ rows[r].state = "absent" => rows[r].gen = 0 /\ rows[r].expires = Nil
  /\ rows[r].state = "needs_confirmation" => rows[r].expires = Nil
  /\ rows[r].state = "expired" => now >= rows[r].expires
  /\ rows[r].expires # Nil => rows[r].confirmed # Nil
  /\ rows[r].confirmed <= now

Deadlines == \A r \in Revisions : Deadline(r)

Leases ==
  \A i \in OperationIds :
    ops[i].phase # 0 => ops[i].lease <= rows[ops[i].revision].expires

-----------------------------------------------------------------------------
(* What a step may do to a revision, and to an operation. *)

\* The terms of an approval, which it keeps as long as it stands.
Terms(r) == <<rows[r].baseline, rows[r].settings, rows[r].gen, rows[r].confirmed,
              rows[r].expires, rows[r].actions>>

\* Revision r keeps its terms and may move on in its life.
Proceeds(r) ==
  /\ Terms(r)' = Terms(r)
  /\ \/ rows'[r].state = rows[r].state
     \/ rows'[r].state \in {"superseded", "applying", "failed"}
     \/ rows'[r].state = "expired" /\ Lapsed(rows[r])
     \/ rows'[r].state = "delivered" /\ (rows[r].actions = {} => BeforeDeadline(r))

\* Revision r did not exist and is created by Save or by the installer.
Created(r) ==
  /\ rows[r].state = "absent"
  /\ rows'[r].expires = Nil
  /\ \/ /\ rows'[r].state = "needs_confirmation"
        /\ rows'[r].gen = 0 /\ rows'[r].confirmed = Nil
     \/ /\ rows'[r].state = "awaiting_agent"
        /\ rows'[r].gen = 1 /\ rows'[r].confirmed = now

\* Revision r gets a new approval.
Approved(r) ==
  /\ ~ApprovalActive(r)
  /\ rows[r].state \in ConfirmableStates
  /\ rows'[r].state \in {"needs_manual", "awaiting_agent"}
  /\ rows'[r].settings = rows[r].settings
  /\ rows'[r].gen = rows[r].gen + 1
  /\ rows'[r].confirmed = now
  /\ rows'[r].expires = now + NonceLifetime

\* Another row than the one a handler moves proceeds, and so does that one.
LEMMA MovesProceeds ==
  ASSUME NEW r \in Revisions, NEW st, Moves(r, st), NEW q \in Revisions,
         q = r => \/ st = rows[r].state
                  \/ st \in {"superseded", "applying", "failed"}
                  \/ st = "expired" /\ Lapsed(rows[r])
                  \/ st = "delivered" /\ (rows[r].actions = {} => BeforeDeadline(r))
  PROVE  Proceeds(q)
BY DEF Moves, Frozen, Proceeds, Terms

LEMMA SameProceeds ==
  ASSUME NEW q \in Revisions, rows'[q] = rows[q]
  PROVE  Proceeds(q)
BY DEF Proceeds, Terms

LEMMA SaveStep ==
  ASSUME TypeOK, IndInv, NEW s, NEW expected, Save(s, expected), NEW q \in Revisions
  PROVE  Proceeds(q) \/ Created(q)
<1> DEFINE fresh == [NoRow EXCEPT !.protocol = 2, !.settings = ResolveMode(s),
                                  !.state = "needs_confirmation"]
           dropped == [rows[q] EXCEPT !.state = "superseded", !.superseded = TRUE,
                                      !.nonce = 0]
<1>1. rows'[q] = IF q = node.desired + 1 THEN fresh
                 ELSE IF rows[q].state \in LiveStates THEN dropped ELSE rows[q]
  BY DEF Save
<1>2. /\ fresh.state = "needs_confirmation" /\ fresh.gen = 0
      /\ fresh.confirmed = Nil /\ fresh.expires = Nil
  BY DEF NoRow
<1>3. rows[q] \in Row
  BY DEF TypeOK
<1>4. /\ dropped.state = "superseded" /\ dropped.baseline = rows[q].baseline
      /\ dropped.settings = rows[q].settings /\ dropped.gen = rows[q].gen
      /\ dropped.confirmed = rows[q].confirmed /\ dropped.expires = rows[q].expires
      /\ dropped.actions = rows[q].actions
  BY <1>3 DEF Row
<1> HIDE DEF fresh, dropped
<1>5. CASE q = node.desired + 1
  <2>1. rows[q].state = "absent"
    BY <1>5 DEF IndInv, Numbering, TypeOK, Node, Revisions
  <2> QED BY <1>1, <1>2, <1>5, <2>1 DEF Created
<1>6. CASE q # node.desired + 1 /\ rows[q].state \in LiveStates
  BY <1>1, <1>4, <1>6 DEF Proceeds, Terms
<1>7. CASE q # node.desired + 1 /\ rows[q].state \notin LiveStates
  BY <1>1, <1>7 DEF Proceeds, Terms
<1> QED BY <1>5, <1>6, <1>7

LEMMA ConfirmStep ==
  ASSUME TypeOK, NEW r \in Revisions, Confirm(r)
  PROVE  Approved(r) /\ \A q \in Revisions : q # r => rows'[q] = rows[q]
<1> DEFINE st == IF RequiredActions(r) = {} THEN "awaiting_agent" ELSE "needs_manual"
           row == [rows[r] EXCEPT
                     !.state = st, !.confirmed = now, !.gen = @ + 1,
                     !.nonce = rows[r].gen + 1, !.used = FALSE,
                     !.expires = now + NonceLifetime, !.authorized = TRUE,
                     !.actions = RequiredActions(r)]
<1>1. /\ rows' = [rows EXCEPT ![r] = row]
      /\ ~ApprovalActive(r) /\ rows[r].state \in ConfirmableStates
  BY DEF Confirm, Advance
<1>2. rows[r] \in Row /\ rows \in [Revisions -> Row]
  BY DEF TypeOK
<1>3. /\ row.state = st /\ row.confirmed = now /\ row.gen = rows[r].gen + 1
      /\ row.expires = now + NonceLifetime /\ row.settings = rows[r].settings
  BY <1>2 DEF Row
<1>4. st \in {"needs_manual", "awaiting_agent"}
  OBVIOUS
<1> HIDE DEF row, st
<1> QED BY <1>1, <1>2, <1>3, <1>4 DEF Approved

LEMMA BaselineStep ==
  ASSUME TypeOK, IndInv, NEW s, NEW service, NEW preserve,
         InitializeBaseline(s, service, preserve), NEW q \in Revisions
  PROVE  Proceeds(q) \/ Created(q)
<1> DEFINE row == [NoRow EXCEPT !.protocol = 2, !.baseline = TRUE,
                                !.settings = s, !.gen = 1,
                                !.confirmed = now, !.authorized = TRUE,
                                !.state = "awaiting_agent"]
<1>1. node.desired = 0 /\ rows' = [rows EXCEPT ![1] = row]
  BY DEF InitializeBaseline, Advance
<1>2. /\ row.state = "awaiting_agent" /\ row.gen = 1 /\ row.confirmed = now
      /\ row.expires = Nil
  BY DEF NoRow
<1>3. rows[q].state = "absent"
  BY <1>1 DEF IndInv, Numbering, Revisions
<1>4. rows'[q] = IF q = 1 THEN row ELSE rows[q]
  BY <1>1 DEF TypeOK
<1> HIDE DEF row
<1>5. CASE q = 1
  BY <1>2, <1>3, <1>4, <1>5 DEF Created
<1>6. CASE q # 1
  BY <1>4, <1>6, SameProceeds
<1> QED BY <1>5, <1>6

\* Every step, of whichever actor, treats each revision in one of the three
\* ways.
LEMMA RowStep ==
  ASSUME TypeOK, IndInv, [Next]_vars, NEW q \in Revisions
  PROVE  Proceeds(q) \/ Created(q) \/ Approved(q)
<1> USE PrivilegedDeliveryAssumption
<1>1. ASSUME NEW s \in Requests, NEW expected \in 0..MaxRevision, Save(s, expected)
      PROVE  Proceeds(q) \/ Created(q)
  BY <1>1, SaveStep
<1>2. ASSUME NEW r \in Revisions, Confirm(r)
      PROVE  Proceeds(q) \/ Approved(q)
  BY <1>2, ConfirmStep, SameProceeds
<1>3. ASSUME NEW r \in Revisions, Expire(r) PROVE Proceeds(q)
  BY <1>3, ExpireMoves, MovesProceeds DEF Expire
<1>4. ASSUME NEW service \in Services, NEW startup \in Startups, NEW mode \in Modes,
             NEW supported \in SupportedSets,
             Negotiate(service, startup, mode, supported)
      PROVE  Proceeds(q)
  BY <1>4, SameProceeds DEF Negotiate
<1>5. ASSUME NEW r \in Revisions, LegacyReport(r) PROVE Proceeds(q)
  BY <1>5, LegacyReportMoves, MovesProceeds
<1>6. ASSUME NEW id \in OperationIds, NEW r \in Revisions, NEW g, NEW k,
             PrepareOperation(id, r, g, k)
      PROVE  Proceeds(q)
  BY <1>6, PrepareMoves, MovesProceeds
<1>7. ASSUME NEW id \in OperationIds, NEW key \in ReceiptIds, NEW phase \in 2..5,
             ReportOperation(id, key, phase)
      PROVE  Proceeds(q)
  <2> DEFINE r == ops[id].revision
             st == IF phase >= 4 THEN "failed" ELSE rows[r].state
  <2>1. r \in Revisions /\ (Moves(r, st) \/ rows' = rows)
    BY <1>7, ReportMoves
  <2>2. st = "failed" \/ st = rows[r].state
    OBVIOUS
  <2> HIDE DEF r, st
  <2> QED BY <2>1, <2>2, MovesProceeds, SameProceeds
<1>8. ASSUME NEW key \in ReceiptIds, NEW r \in Revisions, NEW service \in Services,
             NEW startup \in Startups, NEW mode \in Modes,
             NEW observed \in 0..(now + ClockSkew), NEW id \in OperationIds,
             NEW effective \in Effects, NEW g,
             Observe(key, r, g, service, startup, mode, observed, id, effective)
      PROVE  Proceeds(q)
  <2>1. rows[r].actions = {} => BeforeDeadline(r)
    BY <1>8 DEF Observe
  <2>2. mode \in 1..5 /\ observed \in Int /\ effective \in Capabilities
    BY DEF TypeOK
  <2>3. Moves(r, "delivered")
    BY <1>8, <2>2, ObserveMoves
  <2> QED BY <2>1, <2>3, MovesProceeds
<1>9. ASSUME NEW key \in ReceiptIds, NEW r \in Revisions, NEW g, FailApply(key, r, g)
      PROVE  Proceeds(q)
  BY <1>9, FailApplyMoves, MovesProceeds
<1>10. ASSUME NEW s \in Installations, NEW service \in Services, NEW preserve \in BOOLEAN,
              InitializeBaseline(s, service, preserve)
       PROVE  Proceeds(q) \/ Created(q)
  BY <1>10, BaselineStep
<1>11. ASSUME NEW p \in Profiles, SaveProfile(p) PROVE Proceeds(q)
  BY <1>11, SameProceeds DEF SaveProfile
<1>12. CASE Tick \/ UNCHANGED vars
  BY <1>12, SameProceeds DEF Tick, vars
<1> QED
  BY <1>1, <1>2, <1>3, <1>4, <1>5, <1>6, <1>7, <1>8, <1>9, <1>10, <1>11, <1>12
     DEF Next, Panel, Agent, HostTool

\* An operation keeps its revision and its lease once it exists; it is claimed
\* inside the approval, and progresses before the lease ends.
OperationProceeds(i) ==
  \/ ops'[i] = ops[i]
  \/ /\ ops[i].phase = 0 /\ ops'[i].phase = Prepared
     /\ ops'[i].revision \in Revisions
     /\ rows[ops'[i].revision].state = "needs_manual"
     /\ now < rows[ops'[i].revision].expires
     /\ ops'[i].lease <= rows[ops'[i].revision].expires
     /\ rows'[ops'[i].revision].expires = rows[ops'[i].revision].expires
  \/ /\ ops[i].phase # 0
     /\ ops'[i].revision = ops[i].revision /\ ops'[i].lease = ops[i].lease
     /\ ops'[i].phase <= LocalApplied => now < ops[i].lease

\* The panel and the agent write no operation, and only Tick moves the clock.
LEMMA PanelStep == Panel => ops' = ops /\ now' = now
<1> SUFFICES ASSUME Panel PROVE ops' = ops /\ now' = now
  OBVIOUS
<1>1. ASSUME NEW s, NEW expected, Save(s, expected) PROVE ops' = ops /\ now' = now
  BY <1>1 DEF Save
<1>2. ASSUME NEW r, Confirm(r) \/ Expire(r) PROVE ops' = ops /\ now' = now
  BY <1>2 DEF Confirm, Expire
<1>3. ASSUME NEW p, SaveProfile(p) PROVE ops' = ops /\ now' = now
  BY <1>3 DEF SaveProfile
<1> QED BY <1>1, <1>2, <1>3 DEF Panel

LEMMA AgentStep == Agent => ops' = ops /\ now' = now
<1> SUFFICES ASSUME Agent PROVE ops' = ops /\ now' = now
  OBVIOUS
<1>1. ASSUME NEW service, NEW startup, NEW mode, NEW supported,
             Negotiate(service, startup, mode, supported)
      PROVE  ops' = ops /\ now' = now
  BY <1>1 DEF Negotiate
<1>2. ASSUME NEW r, LegacyReport(r) PROVE ops' = ops /\ now' = now
  BY <1>2 DEF LegacyReport
<1>3. ASSUME NEW s, NEW service, NEW preserve, InitializeBaseline(s, service, preserve)
      PROVE  ops' = ops /\ now' = now
  BY <1>3 DEF InitializeBaseline
<1>4. ASSUME NEW key, NEW r, NEW service, NEW startup, NEW mode, NEW observed, NEW id,
             NEW effective, NEW g,
             Observe(key, r, g, service, startup, mode, observed, id, effective)
      PROVE  ops' = ops /\ now' = now
  BY <1>4 DEF Observe
<1>5. ASSUME NEW key, NEW r, NEW g, FailApply(key, r, g) PROVE ops' = ops /\ now' = now
  BY <1>5 DEF FailApply
<1> QED BY <1>1, <1>2, <1>3, <1>4, <1>5 DEF Agent

LEMMA OperationStep ==
  ASSUME TypeOK, [Next]_vars, NEW i \in OperationIds
  PROVE  OperationProceeds(i)
<1> USE PrivilegedDeliveryAssumption
<1>types. ops \in [OperationIds -> Operation] /\ rows \in [Revisions -> Row] /\ now \in Int
  BY DEF TypeOK
<1>1. ASSUME NEW id \in OperationIds, NEW r \in Revisions, NEW g, NEW k,
             PrepareOperation(id, r, g, k)
      PROVE  OperationProceeds(i)
  <2>1. /\ ops' = [ops EXCEPT ![id] = [phase |-> Prepared, revision |-> r,
                      gen |-> rows[r].gen, lease |-> Lease(r), prior |-> node.startup]]
        /\ ops[id].phase = 0 /\ rows[r].state = "needs_manual" /\ now < rows[r].expires
    BY <1>1 DEF PrepareOperation
  <2>2. Lease(r) <= rows[r].expires
    BY <1>types DEF Lease, Row
  <2>0. rows'[r].expires = rows[r].expires
    BY <1>1, PrepareMoves DEF Moves, Frozen
  <2>3. CASE i = id
    BY <2>0, <2>1, <2>2, <2>3, <1>types DEF OperationProceeds
  <2>4. CASE i # id
    BY <2>1, <2>4, <1>types DEF OperationProceeds
  <2> QED BY <2>3, <2>4
<1>2. ASSUME NEW id \in OperationIds, NEW key \in ReceiptIds, NEW phase \in 2..5,
             ReportOperation(id, key, phase)
      PROVE  OperationProceeds(i)
  <2>1. /\ ops' = [ops EXCEPT ![id].phase = phase]
        /\ ops[id].phase # 0
        /\ phase <= 3 => now < ops[id].lease
    BY <1>2 DEF ReportOperation
  <2>2. CASE i = id
    BY <2>1, <2>2, <1>types DEF OperationProceeds, Operation, LocalApplied
  <2>3. CASE i # id
    BY <2>1, <2>3, <1>types DEF OperationProceeds
  <2> QED BY <2>2, <2>3
<1>3. CASE ops' = ops
  BY <1>3 DEF OperationProceeds
<1> QED BY <1>1, <1>2, <1>3, PanelStep, AgentStep DEF Next, HostTool, Tick, vars

LEMMA TimeStep ==
  ASSUME TypeOK, [Next]_vars
  PROVE  now' >= now /\ now \in Nat /\ now' \in Nat
<1>1. now \in Nat
  BY PrivilegedDeliveryAssumption DEF TypeOK
<1>2. HostTool => now' = now
  BY DEF HostTool, PrepareOperation, ReportOperation
<1>3. now' = now \/ now' = now + 1
  BY <1>2, PanelStep, AgentStep DEF Next, Tick, vars
<1> QED BY <1>1, <1>3

-----------------------------------------------------------------------------
(* Deadlines and leases are invariant. *)

LEMMA InitDeadlines == Init => Deadlines /\ Leases
<1> SUFFICES ASSUME Init PROVE Deadlines /\ Leases
  OBVIOUS
<1> USE PrivilegedDeliveryAssumption
<1>1. \A r \in Revisions : rows[r] = Legacy \/ rows[r] = NoRow
  BY DEF Init
<1>2. /\ NoRow.state = "absent" /\ NoRow.gen = 0 /\ NoRow.expires = Nil
      /\ NoRow.confirmed = Nil
      /\ Legacy.state = "needs_manual" /\ Legacy.confirmed = 0
  BY DEF NoRow, Legacy
<1>3. now = 0 /\ \A i \in OperationIds : ops[i].phase = 0
  BY DEF Init, NoOperation
<1> QED BY <1>1, <1>2, <1>3 DEF Deadlines, Deadline, Leases, Nil

LEMMA DeadlineStep ==
  ASSUME TypeOK, IndInv, Deadlines, [Next]_vars
  PROVE  Deadlines'
<1> SUFFICES ASSUME NEW r \in Revisions PROVE Deadline(r)'
  BY DEF Deadlines
<1> USE PrivilegedDeliveryAssumption
<1>1. now' >= now /\ now \in Nat /\ now' \in Nat
  BY TimeStep
<1>2. Deadline(r) /\ rows[r] \in Row
  BY DEF Deadlines, TypeOK
<1>3. CASE Proceeds(r)
  <2>1. /\ rows'[r].gen = rows[r].gen /\ rows'[r].confirmed = rows[r].confirmed
        /\ rows'[r].expires = rows[r].expires
    BY <1>3 DEF Proceeds, Terms
  <2>2. \/ rows'[r].state = rows[r].state
        \/ rows'[r].state \in {"superseded", "applying", "failed", "delivered"}
        \/ rows'[r].state = "expired" /\ Lapsed(rows[r])
    BY <1>3 DEF Proceeds
  <2> QED BY <1>1, <1>2, <2>1, <2>2 DEF Deadline, Lapsed, Row
<1>4. CASE Created(r)
  BY <1>1, <1>4 DEF Created, Deadline, Nil
<1>5. CASE Approved(r)
  BY <1>1, <1>5 DEF Approved, Deadline, Nil
<1> QED BY <1>3, <1>4, <1>5, RowStep

LEMMA LeaseStep ==
  ASSUME TypeOK, IndInv, Leases, [Next]_vars
  PROVE  Leases'
<1> SUFFICES ASSUME NEW i \in OperationIds, ops'[i].phase # 0
             PROVE  ops'[i].lease <= rows'[ops'[i].revision].expires
  BY DEF Leases
<1> USE PrivilegedDeliveryAssumption
<1>types. rows \in [Revisions -> Row] /\ ops \in [OperationIds -> Operation]
  BY DEF TypeOK
<1>1. CASE ops[i].phase = 0
  <2>1. /\ ops'[i].lease <= rows[ops'[i].revision].expires
        /\ rows'[ops'[i].revision].expires = rows[ops'[i].revision].expires
    BY <1>1, OperationStep DEF OperationProceeds
  <2> QED BY <2>1
<1>2. CASE ops[i].phase # 0
  <2>0. PICK r : r = ops[i].revision
    OBVIOUS
  <2>1. ops'[i].revision = r /\ ops'[i].lease = ops[i].lease
    BY <1>2, <2>0, OperationStep DEF OperationProceeds
  <2>2. r \in Revisions /\ rows[r].state \in ClaimedStates /\ ops[i].lease <= rows[r].expires
    BY <1>2, <2>0 DEF IndInv, Claims, Leases
  \* The revision of an operation is neither created nor confirmed again.
  <2>3. Proceeds(r)
    BY <2>2, RowStep DEF Created, Approved, ClaimedStates, ConfirmableStates
  <2>4. rows'[r].expires = rows[r].expires
    BY <2>3 DEF Proceeds, Terms
  <2> QED BY <2>1, <2>2, <2>4
<1> QED BY <1>1, <1>2

\* Deadlines and leases hold in every reachable state.
LEMMA DeadlinesHold == Spec => [](TypeOK /\ IndInv /\ Deadlines /\ Leases)
<1>1. /\ TypeOK /\ IndInv /\ Deadlines /\ Leases /\ [Next]_vars
      => (TypeOK /\ IndInv /\ Deadlines /\ Leases)'
  BY TypeStep, IndStep, DeadlineStep, LeaseStep
<1> QED BY <1>1, InitType, InitInv, InitDeadlines, PTL DEF Spec

-----------------------------------------------------------------------------
(* Deadlines. *)

\* Host work progresses only while the approval it was claimed under stands,
\* whenever the host tool claimed it and however late its reports are.
THEOREM HostWorkTimely == Spec => HostWorkInsideApproval
<1> DEFINE Step ==
      \A i \in OperationIds :
        ops'[i].phase # ops[i].phase /\ ops'[i].phase <= LocalApplied
          => now < rows[ops'[i].revision].expires
<1>1. ASSUME TypeOK, IndInv, Leases, [Next]_vars PROVE Step
  <2> SUFFICES ASSUME NEW i \in OperationIds, ops'[i].phase # ops[i].phase,
                      ops'[i].phase <= LocalApplied
               PROVE  now < rows[ops'[i].revision].expires
    OBVIOUS
  <2>1. OperationProceeds(i)
    BY <1>1, OperationStep
  <2>2. CASE ops[i].phase = 0
    BY <2>1, <2>2 DEF OperationProceeds
  <2>3. CASE ops[i].phase # 0
    <3>1. now < ops[i].lease /\ ops'[i].revision = ops[i].revision
      BY <2>1, <2>3 DEF OperationProceeds
    <3>2. ops[i].revision \in Revisions
      BY <1>1, <2>3 DEF IndInv, Claims
    <3>3. ops[i].lease <= rows[ops[i].revision].expires
      BY <1>1, <2>3 DEF Leases
    <3>4. /\ now \in Int /\ ops[i].lease \in Int
          /\ rows[ops[i].revision].expires \in Int
      BY <1>1, <3>2 DEF TypeOK, Operation, Row
    <3> QED BY <3>1, <3>3, <3>4
  <2> QED BY <2>2, <2>3
<1> QED BY <1>1, DeadlinesHold, PTL DEF Spec, HostWorkInsideApproval

\* A revision without host actions is delivered only between its confirmation
\* and its deadline, whatever the delay of the daemon's observation.
THEOREM AcknowledgedInTime == Spec => NoLateAcknowledgement
<1> DEFINE Step ==
      \A r \in Revisions :
        (/\ rows[r].state # "delivered" /\ rows'[r].state = "delivered"
         /\ rows[r].actions = {} /\ ~rows[r].baseline)
        => rows[r].confirmed <= now /\ now < rows[r].expires
<1>1. ASSUME TypeOK, IndInv, Deadlines, [Next]_vars PROVE Step
  <2> SUFFICES ASSUME NEW r \in Revisions,
                      rows[r].state # "delivered", rows'[r].state = "delivered",
                      rows[r].actions = {}, ~rows[r].baseline
               PROVE  rows[r].confirmed <= now /\ now < rows[r].expires
    OBVIOUS
  <2>1. BeforeDeadline(r)
    BY <1>1, RowStep DEF Proceeds, Created, Approved
  <2> QED BY <1>1, <2>1 DEF BeforeDeadline, Deadlines, Deadline
<1> QED BY <1>1, DeadlinesHold, PTL DEF Spec, NoLateAcknowledgement

\* A new approval of a revision is issued only once the previous one has
\* lapsed, and no deadline moves without a new approval.
THEOREM ReapprovedAfterLapse == Spec => ReapprovalOnlyAfterLapse
<1> DEFINE Step ==
      \A r \in Revisions :
        /\ rows'[r].gen # rows[r].gen /\ rows[r].expires # Nil
             => now >= rows[r].expires
        /\ rows'[r].gen = rows[r].gen => rows'[r].expires = rows[r].expires
<1>1. ASSUME TypeOK, IndInv, Deadlines, [Next]_vars PROVE Step
  <2> SUFFICES ASSUME NEW r \in Revisions
               PROVE  /\ rows'[r].gen # rows[r].gen /\ rows[r].expires # Nil
                           => now >= rows[r].expires
                      /\ rows'[r].gen = rows[r].gen
                           => rows'[r].expires = rows[r].expires
    OBVIOUS
  <2>1. Deadline(r) /\ rows[r].gen \in Nat /\ rows[r].expires \in Int /\ now \in Int
    BY <1>1 DEF Deadlines, TypeOK, Row
  <2>2. CASE Proceeds(r)
    BY <2>2 DEF Proceeds, Terms
  <2>3. CASE Created(r)
    BY <2>1, <2>3 DEF Created, Deadline
  <2>4. CASE Approved(r)
    BY <2>1, <2>4 DEF Approved, Deadline, ApprovalActive, ConfirmableStates
  <2> QED BY <1>1, <2>2, <2>3, <2>4, RowStep
<1> QED BY <1>1, DeadlinesHold, PTL DEF Spec, ReapprovalOnlyAfterLapse

-----------------------------------------------------------------------------
(* The cursor, and the saved profile. *)

\* A step that leaves the cursor where it was, apart from the reports of an
\* operation, leaves the node, its revisions and its operations alone.
LEMMA QuietStep ==
  ASSUME TypeOK, [Next]_vars
  PROVE  \/ node'.seq = node.seq + 1
         \/ UNCHANGED <<node, rows, ops>>
         \/ /\ UNCHANGED <<node, rows>>
            /\ \E id \in OperationIds, phase \in 2..5 :
                 /\ ops[id].phase # 0
                 /\ ops' = [ops EXCEPT ![id].phase = phase]
                 /\ ~(/\ ValidateCurrent(ops[id].revision)
                      /\ rows[ops[id].revision].gen = ops[id].gen)
<1> USE PrivilegedDeliveryAssumption
<1>node. node \in Node
  BY DEF TypeOK
<1>advance. ASSUME NEW r, NEW row, NEW state \in Node, Advance(r, row, state)
            PROVE  node'.seq = node.seq + 1
  BY <1>advance DEF Advance, Node
<1>1. ASSUME NEW s, NEW expected, Save(s, expected)
      PROVE  node'.seq = node.seq + 1
  BY <1>1, <1>node DEF Save, Node
<1>2. ASSUME NEW r, Confirm(r) \/ Expire(r) \/ LegacyReport(r)
      PROVE  node'.seq = node.seq + 1
  BY <1>2, <1>node, <1>advance DEF Confirm, Expire, LegacyReport
<1>3. ASSUME NEW service, NEW startup, NEW mode, NEW supported,
             Negotiate(service, startup, mode, supported)
      PROVE  node'.seq = node.seq + 1
  BY <1>3, <1>node DEF Negotiate, Node
<1>4. ASSUME NEW id, NEW r, NEW g, NEW k, PrepareOperation(id, r, g, k)
      PROVE  node'.seq = node.seq + 1
  BY <1>4, <1>node, <1>advance DEF PrepareOperation
<1>5. ASSUME NEW key \in ReceiptIds, NEW r \in Revisions, NEW service \in Services,
             NEW startup \in Startups, NEW mode \in Modes,
             NEW observed \in 0..(now + ClockSkew), NEW id \in OperationIds,
             NEW effective \in Effects, NEW g,
             Observe(key, r, g, service, startup, mode, observed, id, effective)
      PROVE  node'.seq = node.seq + 1
  BY <1>5 DEF Observe, Advance
<1>6. ASSUME NEW key, NEW r, NEW g, FailApply(key, r, g)
      PROVE  node'.seq = node.seq + 1
  BY <1>6, <1>node, <1>advance DEF FailApply
<1>7. ASSUME NEW s, NEW service, NEW preserve, InitializeBaseline(s, service, preserve)
      PROVE  node'.seq = node.seq + 1
  BY <1>7, <1>node DEF InitializeBaseline, Advance, Node
<1>8. ASSUME NEW id \in OperationIds, NEW key \in ReceiptIds, NEW phase \in 2..5,
             ReportOperation(id, key, phase)
      PROVE  \/ node'.seq = node.seq + 1
             \/ /\ UNCHANGED <<node, rows>>
                /\ ops[id].phase # 0
                /\ ops' = [ops EXCEPT ![id].phase = phase]
                /\ ~(/\ ValidateCurrent(ops[id].revision)
                     /\ rows[ops[id].revision].gen = ops[id].gen)
  <2> DEFINE current == /\ ValidateCurrent(ops[id].revision)
                        /\ rows[ops[id].revision].gen = ops[id].gen
  <2>1. /\ ops[id].phase # 0
        /\ ops' = [ops EXCEPT ![id].phase = phase]
        /\ IF current
             THEN Advance(ops[id].revision, Settle(rows[ops[id].revision], phase), node)
             ELSE UNCHANGED <<node, rows>>
    BY <1>8 DEF ReportOperation
  <2> HIDE DEF current
  <2>2. CASE current
    BY <2>1, <2>2, <1>node, <1>advance
  <2>3. CASE ~current
    BY <2>1, <2>3 DEF current
  <2> QED BY <2>2, <2>3
<1>9. ASSUME NEW p, SaveProfile(p) PROVE UNCHANGED <<node, rows, ops>>
  BY <1>9 DEF SaveProfile
<1>10. CASE Tick \/ UNCHANGED vars
  BY <1>10 DEF Tick, vars
<1> QED
  BY <1>1, <1>2, <1>3, <1>4, <1>5, <1>6, <1>7, <1>8, <1>9, <1>10
     DEF Next, Panel, Agent, HostTool

\* The operation of the desired revision is current: only the operation of an
\* earlier revision can be reported without moving the cursor.
LEMMA DesiredOperationIsCurrent ==
  ASSUME TypeOK, IndInv, NEW id \in OperationIds, ops[id].phase # 0,
         ops[id].revision = node.desired
  PROVE  ValidateCurrent(ops[id].revision) /\ rows[ops[id].revision].gen = ops[id].gen
<1> DEFINE r == ops[id].revision
<1>1. /\ r \in Revisions /\ node.protocol = 2 /\ rows[r].protocol = 2
      /\ rows[r].gen = ops[id].gen /\ rows[r].gen # 0 /\ rows[r].confirmed # Nil
  BY DEF IndInv, Claims
<1>2. rows[r].state # "superseded" /\ ~rows[r].superseded
  BY <1>1 DEF IndInv, Numbering, TypeOK, Node
<1> QED BY <1>1, <1>2 DEF ValidateCurrent

\* The cursor covers what GetState shows: a step changes the snapshot exactly
\* when it advances update_sequence, and then by one.
THEOREM CursorCovers == Spec => CursorCoversSnapshot
<1> DEFINE Step == IF Snapshot' = Snapshot THEN node'.seq = node.seq
                                           ELSE node'.seq = node.seq + 1
<1>1. ASSUME TypeOK, IndInv, [Next]_vars PROVE Step
  <2>1. node.seq \in Nat
    BY <1>1 DEF TypeOK, Node
  <2>2. CASE node'.seq = node.seq + 1
    <3>1. node' # node
      BY <2>1, <2>2
    <3>2. Snapshot' # Snapshot
      BY <3>1 DEF Snapshot
    <3> QED BY <2>2, <3>2
  <2>3. CASE UNCHANGED <<node, rows, ops>>
    BY <2>3 DEF Snapshot
  <2>4. CASE /\ UNCHANGED <<node, rows>>
             /\ \E id \in OperationIds, phase \in 2..5 :
                  /\ ops[id].phase # 0
                  /\ ops' = [ops EXCEPT ![id].phase = phase]
                  /\ ~(/\ ValidateCurrent(ops[id].revision)
                       /\ rows[ops[id].revision].gen = ops[id].gen)
    <3>1. PICK id \in OperationIds, phase \in 2..5 :
            /\ ops[id].phase # 0
            /\ ops' = [ops EXCEPT ![id].phase = phase]
            /\ ~(/\ ValidateCurrent(ops[id].revision)
                 /\ rows[ops[id].revision].gen = ops[id].gen)
      BY <2>4
    <3>2. ops[id].revision # node.desired
      BY <1>1, <3>1, DesiredOperationIsCurrent
    <3>3. ops \in [OperationIds -> Operation]
      BY <1>1 DEF TypeOK
    <3>4. \A i \in OperationIds :
            /\ ops'[i].revision = ops[i].revision
            /\ ops[i].revision = node.desired => ops'[i] = ops[i]
      BY <3>1, <3>2, <3>3 DEF Operation
    <3> DEFINE Here == {j \in OperationIds : ops[j].revision = node.desired}
               Shown == {i \in OperationIds :
                           ops[i].phase # 0 /\ ops[i].revision = node.desired}
               Contents == {ops[i] : i \in Here}
    <3>5. Here' = Here /\ Shown' = Shown
      BY <2>4, <3>4
    <3>6. Contents' = {ops'[i] : i \in Here'}
      OBVIOUS
    <3>7. \A i \in Here : ops'[i] = ops[i]
      BY <3>4
    <3>8. Contents' = Contents
      <4> HIDE DEF Here
      <4> QED BY <3>5, <3>6, <3>7
    <3>9. Snapshot = <<node,
                       IF node.desired = 0 THEN NoRow ELSE rows[node.desired],
                       IF node.applied = 0 THEN NoRow ELSE rows[node.applied],
                       Shown, Contents>>
      BY DEF Snapshot
    <3>10. Snapshot' = <<node',
                       IF node'.desired = 0 THEN NoRow ELSE rows'[node'.desired],
                       IF node'.applied = 0 THEN NoRow ELSE rows'[node'.applied],
                       Shown', Contents'>>
      BY DEF Snapshot
    <3> HIDE DEF Shown, Contents, Here
    <3>11. Snapshot' = Snapshot
      BY <2>4, <3>5, <3>8, <3>9, <3>10
    <3> QED BY <2>4, <3>11
  <2> QED BY <1>1, <2>2, <2>3, <2>4, QuietStep
<1> QED BY <1>1, Invariance, PTL DEF Spec, CursorCoversSnapshot

\* What the handlers other than Observe and SaveProfile do to a profile that
\* is saved: nothing.
LEMMA ProfileStep ==
  ASSUME [Next]_vars, node.protocol = 2, profile.saved, profile' # profile
  PROVE  \E key \in ReceiptIds, r \in Revisions, service \in Services,
            startup \in Startups, mode \in Modes,
            observed \in 0..(now + ClockSkew), id \in OperationIds,
            effective \in Effects :
           \E g \in 0..rows[r].gen :
             Observe(key, r, g, service, startup, mode, observed, id, effective)
<1>1. ASSUME NEW s, NEW expected, Save(s, expected) PROVE FALSE
  BY <1>1 DEF Save
<1>2. ASSUME NEW r, Confirm(r) \/ Expire(r) \/ LegacyReport(r) PROVE FALSE
  BY <1>2 DEF Confirm, Expire, LegacyReport
<1>3. ASSUME NEW service, NEW startup, NEW mode, NEW supported,
             Negotiate(service, startup, mode, supported)
      PROVE  FALSE
  BY <1>3 DEF Negotiate
<1>4. ASSUME NEW id, NEW r, NEW g, NEW k, PrepareOperation(id, r, g, k) PROVE FALSE
  BY <1>4 DEF PrepareOperation
<1>5. ASSUME NEW id, NEW key, NEW phase, ReportOperation(id, key, phase) PROVE FALSE
  BY <1>5 DEF ReportOperation
<1>6. ASSUME NEW key, NEW r, NEW g, FailApply(key, r, g) PROVE FALSE
  BY <1>6 DEF FailApply
<1>7. ASSUME NEW s, NEW service, NEW preserve, InitializeBaseline(s, service, preserve)
      PROVE  FALSE
  BY <1>7 DEF InitializeBaseline
<1>8. ASSUME NEW p, SaveProfile(p) PROVE FALSE
  BY <1>8 DEF SaveProfile
<1>9. CASE Tick \/ UNCHANGED vars
  BY <1>9 DEF Tick, vars
<1>10. CASE Panel \/ HostTool
  BY <1>10, <1>1, <1>2, <1>4, <1>5, <1>8 DEF Panel, HostTool
<1>11. CASE Agent
  BY <1>11, <1>2, <1>3, <1>6, <1>7 DEF Agent
<1> QED BY <1>9, <1>10, <1>11 DEF Next

\* Under privileged_delivery_v2 a saved profile changes only with a daemon's
\* acknowledgement, and then to the acknowledged revision.
THEOREM ProfileFollows == Spec => ProfileFollowsAcknowledgement
<1> DEFINE Step ==
      node.protocol = 2 /\ profile.saved /\ profile' # profile =>
        /\ node'.seq = node.seq + 1
        /\ profile' = InstallationFields(rows'[node'.applied].settings, node'.mode)
<1>1. ASSUME TypeOK, [Next]_vars PROVE Step
  <2> SUFFICES ASSUME node.protocol = 2, profile.saved, profile' # profile
               PROVE  /\ node'.seq = node.seq + 1
                      /\ profile' = InstallationFields(rows'[node'.applied].settings,
                                                       node'.mode)
    OBVIOUS
  <2> USE PrivilegedDeliveryAssumption
  <2>1. PICK key \in ReceiptIds, r \in Revisions, service \in Services,
             startup \in Startups, mode \in Modes,
             observed \in 0..(now + ClockSkew), id \in OperationIds,
             effective \in Effects :
               \E g : Observe(key, r, g, service, startup, mode, observed, id, effective)
    BY <1>1, ProfileStep
  <2> DEFINE row == [rows[r] EXCEPT !.state = "delivered"]
             state == [node EXCEPT !.applied = r, !.observed = observed,
                                   !.helper = effective.helper,
                                   !.mode = mode, !.startup = startup]
  <2>2. Advance(r, row, state) /\ profile' = InstallationFields(rows[r].settings, mode)
    BY <2>1 DEF Observe
  <2>3. node \in Node /\ rows \in [Revisions -> Row] /\ r \in Revisions
    BY <1>1 DEF TypeOK
  <2>4. /\ node' = [state EXCEPT !.seq = node.seq + 1]
        /\ rows' = [rows EXCEPT ![r] = row]
    BY <2>2 DEF Advance
  <2>5. node'.seq = node.seq + 1 /\ node'.applied = r /\ node'.mode = mode
    BY <2>3, <2>4 DEF Node
  <2>6. rows'[r].settings = rows[r].settings
    BY <2>3, <2>4 DEF Row
  <2> QED BY <2>2, <2>5, <2>6
<1> QED BY <1>1, TypeCorrect, PTL DEF Spec, ProfileFollowsAcknowledgement


-----------------------------------------------------------------------------
(* What the readers see of a step of the handlers. *)

\* A reader writes nothing but the expiry of the locked read, which is a step
\* of the handlers.
LEMMA ReadersWriteNothingElse == ReadNext \/ UNCHANGED readVars => [Next]_vars
<1>1. ReadTransaction => [Next]_vars
  <2> SUFFICES ASSUME Expire(node.desired) PROVE Next
    BY DEF ReadTransaction
  <2>1. node.desired \in Revisions
    BY DEF Expire, Exists
  <2> QED BY <2>1 DEF Next, Panel
<1>2. StateReader \/ GateReader => UNCHANGED vars
  BY DEF StateReader, GateReader, BeginRead, ReadDesired, ReadApplied,
         ReadHostOperation, CheckRead, RetryRead, BeginGate, GateProfile,
         GateApplied, GateDesired
<1> QED BY <1>1, <1>2 DEF ReadNext, readVars

LEMMA ReadInvariance == ReadSpec => [](TypeOK /\ IndInv)
<1>1. ReadInit => TypeOK /\ IndInv
  BY InitType, InitInv DEF ReadInit
<1>2. TypeOK /\ IndInv /\ [ReadNext]_readVars => (TypeOK /\ IndInv)'
  BY ReadersWriteNothingElse, TypeStep, IndStep
<1> QED BY <1>1, <1>2, PTL DEF ReadSpec

\* A step that leaves the cursor alone leaves alone what the queries of
\* GetStateWithDB return.
LEMMA ShownStep ==
  ASSUME TypeOK, IndInv, [Next]_vars
  PROVE  \/ node'.seq = node.seq + 1
         \/ /\ UNCHANGED <<node, rows>>
            /\ OperationsOf(node.desired)' = OperationsOf(node.desired)
<1>1. CASE UNCHANGED <<node, rows, ops>>
  BY <1>1 DEF OperationsOf
<1>2. CASE /\ UNCHANGED <<node, rows>>
           /\ \E id \in OperationIds, phase \in 2..5 :
                /\ ops[id].phase # 0
                /\ ops' = [ops EXCEPT ![id].phase = phase]
                /\ ~(/\ ValidateCurrent(ops[id].revision)
                     /\ rows[ops[id].revision].gen = ops[id].gen)
  <2>1. PICK id \in OperationIds, phase \in 2..5 :
          /\ ops[id].phase # 0
          /\ ops' = [ops EXCEPT ![id].phase = phase]
          /\ ~(/\ ValidateCurrent(ops[id].revision)
               /\ rows[ops[id].revision].gen = ops[id].gen)
    BY <1>2
  <2>2. ops[id].revision # node.desired
    BY <2>1, DesiredOperationIsCurrent
  <2>3. ops \in [OperationIds -> Operation]
    BY DEF TypeOK
  <2>4. \A i \in OperationIds :
          /\ ops'[i].revision = ops[i].revision
          /\ ops[i].revision = node.desired => ops'[i] = ops[i]
    BY <2>1, <2>2, <2>3 DEF Operation
  <2> DEFINE Here == {j \in OperationIds : ops[j].phase # 0
                                           /\ ops[j].revision = node.desired}
  <2>5. Here' = Here
    BY <1>2, <2>4
  <2>6. \A i \in Here : ops'[i] = ops[i]
    BY <2>4
  <2>7. /\ OperationsOf(node.desired) = {ops[i] : i \in Here}
        /\ OperationsOf(node.desired)' = {ops'[i] : i \in Here'}
    BY DEF OperationsOf
  <2> HIDE DEF Here
  <2>8. OperationsOf(node.desired)' = OperationsOf(node.desired)
    BY <2>5, <2>6, <2>7
  <2> QED BY <1>2, <2>8
<1> QED BY <1>1, <1>2, QuietStep

-----------------------------------------------------------------------------
(* GetStateWithDB. *)

\* The local variables are a record of these fields.
ReadShape ==
  read = [pc |-> read.pc, attempt |-> read.attempt, desired |-> read.desired,
          applied |-> read.applied, operations |-> read.operations,
          node |-> read.node]

\* While the cursor stands where the attempt found it, what the attempt has
\* read is what the database holds.
Fresh ==
  read.pc \in {"desired", "applied", "operation", "check"} =>
    /\ read.node.seq \in Nat
    /\ read.node.seq <= node.seq
    /\ read.node.seq = node.seq =>
         /\ read.node = node
         /\ read.pc # "desired" => read.desired = RowOf(node.desired)
         /\ read.pc \in {"operation", "check"} =>
              read.applied = RowOf(node.applied)
         /\ read.pc = "check" => read.operations = OperationsOf(node.desired)

\* The handlers keep Fresh while no query is made.
LEMMA FreshKept ==
  ASSUME TypeOK, IndInv, Fresh, [Next]_vars, UNCHANGED read
  PROVE  Fresh'
<1>1. node.seq \in Nat
  BY DEF TypeOK, Node
<1>2. CASE node'.seq = node.seq + 1
  BY <1>1, <1>2 DEF Fresh
<1>3. CASE /\ UNCHANGED <<node, rows>>
           /\ OperationsOf(node.desired)' = OperationsOf(node.desired)
  BY <1>3 DEF Fresh, RowOf
<1> QED BY <1>2, <1>3, ShownStep

\* An attempt reads the node first.
LEMMA AttemptFresh ==
  ASSUME TypeOK, NEW n, Attempt(n), UNCHANGED vars
  PROVE  ReadShape' /\ Fresh'
<1>1. read' = [NoRead EXCEPT !.pc = "desired", !.attempt = n, !.node = node]
  BY DEF Attempt
<1>2. ReadShape' /\ read'.pc = "desired" /\ read'.node = node
  BY <1>1 DEF ReadShape, NoRead
<1>3. node' = node /\ node.seq \in Nat
  BY DEF vars, TypeOK, Node
<1> QED BY <1>2, <1>3 DEF Fresh

\* The later queries of an attempt.
LEMMA QueryFresh ==
  ASSUME TypeOK, ReadShape, Fresh, UNCHANGED vars,
         ReadDesired \/ ReadApplied \/ ReadHostOperation \/ CheckRead
  PROVE  ReadShape' /\ Fresh'
<1>same. node' = node /\ rows' = rows /\ ops' = ops
  BY DEF vars
<1>1. CASE ReadDesired /\ ~Lapsed(RowOf(read.node.desired))
  <2>1. read.pc = "desired"
        /\ read' = [read EXCEPT !.pc = "applied", !.desired = RowOf(read.node.desired)]
    BY <1>1 DEF ReadDesired
  <2>2. /\ ReadShape' /\ read'.pc = "applied" /\ read'.node = read.node
        /\ read'.desired = RowOf(read.node.desired)
    BY <2>1 DEF ReadShape
  <2> QED BY <2>1, <2>2, <1>same DEF Fresh, RowOf
<1>2. CASE ReadApplied
  <2> DEFINE row == IF read.node.applied = read.node.desired
                      THEN read.desired ELSE RowOf(read.node.applied)
  <2>1. read.pc = "applied"
        /\ read' = [read EXCEPT !.pc = "operation", !.applied = row]
    BY <1>2 DEF ReadApplied
  <2>2. /\ ReadShape' /\ read'.pc = "operation" /\ read'.node = read.node
        /\ read'.desired = read.desired /\ read'.applied = row
    <3> HIDE DEF row
    <3> QED BY <2>1 DEF ReadShape
  <2> QED BY <2>1, <2>2, <1>same DEF Fresh, RowOf
<1>3. CASE ReadHostOperation
  <2>1. read.pc = "operation"
        /\ read' = [read EXCEPT !.pc = "check",
                                !.operations = OperationsOf(read.node.desired)]
    BY <1>3 DEF ReadHostOperation
  <2>2. /\ ReadShape' /\ read'.pc = "check" /\ read'.node = read.node
        /\ read'.desired = read.desired /\ read'.applied = read.applied
        /\ read'.operations = OperationsOf(read.node.desired)
    BY <2>1 DEF ReadShape
  <2>3. OperationsOf(node.desired)' = OperationsOf(node.desired)
    BY <1>same DEF OperationsOf
  <2> QED BY <2>1, <2>2, <2>3, <1>same DEF Fresh, RowOf
<1>4. CASE \/ CheckRead
           \/ ReadDesired /\ Lapsed(RowOf(read.node.desired))
  <2>1. \/ read' = NoRead
        \/ read' = [NoRead EXCEPT !.pc = "retry", !.attempt = read.attempt]
        \/ \E pc \in {"refused", "transaction"} : read' = [NoRead EXCEPT !.pc = pc]
    BY <1>4 DEF CheckRead, ReadDesired
  <2>2. ReadShape' /\ read'.pc \in {"idle", "retry", "refused", "transaction"}
    <3>1. CASE read' = NoRead
      BY <3>1 DEF ReadShape, NoRead
    <3>2. CASE read' = [NoRead EXCEPT !.pc = "retry", !.attempt = read.attempt]
      BY <3>2 DEF ReadShape, NoRead
    <3>3. ASSUME NEW pc \in {"refused", "transaction"},
                 read' = [NoRead EXCEPT !.pc = pc]
          PROVE  ReadShape' /\ read'.pc = pc
      BY <3>3 DEF ReadShape, NoRead
    <3> QED BY <2>1, <3>1, <3>2, <3>3
  <2> QED BY <2>2 DEF Fresh
<1> QED BY <1>1, <1>2, <1>3, <1>4

LEMMA FreshStep ==
  ASSUME TypeOK, IndInv, ReadShape, Fresh, [ReadNext]_readVars
  PROVE  ReadShape' /\ Fresh'
<1>1. CASE UNCHANGED read
  <2>1. ReadShape'
    BY <1>1 DEF ReadShape
  <2> QED BY <1>1, <2>1, FreshKept, ReadersWriteNothingElse
<1>2. CASE ReadTransaction
  <2>1. read' = NoRead
    BY <1>2 DEF ReadTransaction
  <2> QED BY <2>1 DEF ReadShape, Fresh, NoRead
<1>3. CASE BeginRead \/ RetryRead
  <2>1. UNCHANGED vars /\ \E n : Attempt(n)
    BY <1>3 DEF BeginRead, RetryRead
  <2> QED BY <2>1, AttemptFresh
<1>4. CASE ReadDesired \/ ReadApplied \/ ReadHostOperation \/ CheckRead
  <2>1. UNCHANGED vars
    BY <1>4 DEF ReadDesired, ReadApplied, ReadHostOperation, CheckRead
  <2> QED BY <1>4, <2>1, QueryFresh
<1> QED BY <1>1, <1>2, <1>3, <1>4 DEF ReadNext, StateReader, readVars

LEMMA FreshHolds == ReadSpec => [](TypeOK /\ IndInv /\ ReadShape /\ Fresh)
<1>1. ReadInit => ReadShape /\ Fresh
  BY DEF ReadInit, ReadShape, Fresh, NoRead
<1>2. /\ TypeOK /\ IndInv /\ TypeOK' /\ IndInv' /\ ReadShape /\ Fresh
      /\ [ReadNext]_readVars
      => (ReadShape /\ Fresh)'
  BY FreshStep
<1> QED BY <1>1, <1>2, ReadInvariance, PTL DEF ReadSpec

\* What GetState returns was the node's state at one moment: the bracket of
\* two equal cursors is enough for every interleaving of its four queries
\* with the handlers.
THEOREM ReadSnapshot == ReadSpec => ReadIsOneMoment
<1> DEFINE Step ==
      read.pc = "check" /\ read'.pc = "idle" =>
        /\ read.node = node
        /\ read.desired = RowOf(node.desired)
        /\ read.applied = RowOf(node.applied)
        /\ read.operations = OperationsOf(node.desired)
<1>1. ASSUME Fresh, [ReadNext]_readVars PROVE Step
  <2> SUFFICES ASSUME read.pc = "check", read'.pc = "idle" PROVE Step
    OBVIOUS
  <2>1. CheckRead
    BY <1>1 DEF ReadNext, readVars, ReadTransaction, StateReader, BeginRead,
       ReadDesired, ReadApplied, ReadHostOperation, RetryRead
  <2>2. Bracketed
    BY <2>1 DEF CheckRead, NoRead
  <2> QED BY <1>1, <2>2 DEF Bracketed, Fresh
<1> QED BY <1>1, FreshHolds, PTL DEF ReadSpec, ReadIsOneMoment

\* A reader writes only the expiry of an approval that is lapsed when it
\* writes, whatever happened since it saw it lapsed.
THEOREM ReaderExpires == ReadSpec => ReaderExpiresOnlyLapsed
<1> DEFINE Step ==
      read' # read /\ rows' # rows =>
        \A r \in Revisions : rows'[r] # rows[r] =>
          /\ rows'[r] = [rows[r] EXCEPT !.state = "expired"]
          /\ rows[r].state \in {"needs_manual", "awaiting_agent"}
          /\ now >= rows[r].expires
<1>1. ASSUME TypeOK, [ReadNext]_readVars PROVE Step
  <2> SUFFICES ASSUME read' # read, rows' # rows, NEW r \in Revisions,
                      rows'[r] # rows[r]
               PROVE  /\ rows'[r] = [rows[r] EXCEPT !.state = "expired"]
                      /\ rows[r].state \in {"needs_manual", "awaiting_agent"}
                      /\ now >= rows[r].expires
    OBVIOUS
  <2>1. StateReader => rows' = rows
    BY DEF StateReader, BeginRead, ReadDesired, ReadApplied, ReadHostOperation,
           CheckRead, RetryRead, vars
  <2>2. ReadTransaction
    BY <1>1, <2>1 DEF ReadNext, readVars
  <2>3. Expire(node.desired)
    BY <2>2 DEF ReadTransaction, vars
  <2>4. /\ Lapsed(rows[node.desired])
        /\ rows' = [rows EXCEPT ![node.desired] =
                      [rows[node.desired] EXCEPT !.state = "expired"]]
    BY <2>3 DEF Expire, Advance
  <2>5. r = node.desired
    BY <1>1, <2>4 DEF TypeOK
  <2> QED BY <1>1, <2>4, <2>5 DEF Lapsed, TypeOK
<1> QED BY <1>1, ReadInvariance, PTL DEF ReadSpec, ReaderExpiresOnlyLapsed

-----------------------------------------------------------------------------
(* PrivilegedCapabilityAllowedWithDB. *)

\* The local variables are a record of these fields.
GateShape ==
  gate = [pc |-> gate.pc, feature |-> gate.feature, desired |-> gate.desired,
          applied |-> gate.applied, seen |-> gate.seen]

\* The gate under privileged_delivery_v2.  A revision that does not allow the
\* feature any more has shown a denial; and as a revision never comes to allow
\* it again, one that still allows it did so when the gate began.
Witnessed ==
  gate.pc \in {"applied", "desired"} =>
    /\ node.protocol = 2
    /\ gate.applied \in Revisions /\ gate.desired \in Revisions
    /\ rows[gate.applied].state # "absent" /\ rows[gate.desired].state # "absent"
    /\ ~Allows(gate.applied, gate.feature) => FALSE \in gate.seen
    /\ ~Allows(gate.desired, gate.feature) => FALSE \in gate.seen
    /\ /\ gate.pc = "applied" => Allows(gate.applied, gate.feature)
       /\ Allows(gate.desired, gate.feature)
       => TRUE \in gate.seen

\* A revision fails only while it is the desired one, and the pointers stay.
LEMMA FailStep ==
  ASSUME TypeOK, TypeOK', IndInv, [Next]_vars, NEW r \in Revisions,
         rows[r].state # "failed", rows'[r].state = "failed"
  PROVE  r = node.desired /\ node'.desired = node.desired
<1>life. Life[r] = LifeOf(r) /\ Life'[r] = LifeOf(r)'
  BY DEF Life
<1>states. rows[r].state \in RowStates
  BY DEF TypeOK, Row
<1>fails. Life[r] # "failed" /\ Life'[r] = "failed"
  BY <1>life, <1>states DEF LifeOf, RowStates
<1>move. ASSUME NEW from, NEW to, Track!Move(from, to)
         PROVE  r = node.desired /\ node'.desired = node.desired
  BY <1>move, <1>fails DEF Track!Move, Life
<1>1. CASE Track!Propose
  <2>1. Life'[r] = IF r = node.desired + 1 THEN "pending"
                   ELSE IF Life[r] \in Track!Open THEN "dropped" ELSE Life[r]
    BY <1>1 DEF Track!Propose, Track!Proposals, Life, Revisions
  <2> QED BY <2>1, <1>fails
<1>2. CASE Track!Install
  <2>1. Life'[r] = IF r = 1 THEN "approved" ELSE Life[r]
    BY <1>2 DEF Track!Install, Life
  <2> QED BY <2>1, <1>fails
<1>3. CASE UNCHANGED Track!trackVars
  BY <1>3, <1>fails DEF Track!trackVars, Life
<1> QED BY <1>1, <1>2, <1>3, <1>move, TrackStep
     DEF Track!TrackNext, Track!Approve, Track!Lapse, Track!Claim,
         Track!Acknowledge, Track!Fail

\* Once a revision exists it keeps its settings, so that it loses a feature
\* only by failing, and never gets it back.
LEMMA AllowsStep ==
  ASSUME TypeOK, TypeOK', IndInv, [Next]_vars, NEW r \in Revisions, NEW f,
         rows[r].state # "absent"
  PROVE  /\ rows'[r].state # "absent"
         /\ Allows(r, f)' => Allows(r, f)
         /\ Allows(r, f) /\ ~Allows(r, f)'
              => r = node.desired /\ node'.desired = node.desired
<1>1. rows'[r].settings = rows[r].settings /\ rows'[r].state # "absent"
  <2>1. Proceeds(r) \/ Approved(r)
    BY RowStep DEF Created
  <2> QED BY <2>1 DEF Proceeds, Terms, Approved
<1>2. rows[r].state = "failed" => rows'[r].state = "failed"
  <2>1. LifeOf(r) = "failed" => LifeOf(r)' = "failed"
    BY TrackStep, LifeStep
  <2>2. rows[r].state \in RowStates /\ rows'[r].state \in RowStates
    BY DEF TypeOK, Row
  <2> QED BY <2>1, <2>2 DEF LifeOf, RowStates
<1>3. Grants(rows'[r].settings, f) = Grants(rows[r].settings, f)
  BY <1>1
<1>4. rows[r].state # "failed" /\ rows'[r].state = "failed"
        => r = node.desired /\ node'.desired = node.desired
  BY FailStep
<1> QED BY <1>1, <1>2, <1>3, <1>4 DEF Allows

\* A node that speaks privileged_delivery_v2 keeps to it.
LEMMA ProtocolStep ==
  ASSUME TypeOK, [Next]_vars, node.protocol = 2
  PROVE  node'.protocol = 2
<1> USE PrivilegedDeliveryAssumption
<1>node. node \in Node
  BY DEF TypeOK
<1>advance. ASSUME NEW r, NEW row, NEW state \in Node, Advance(r, row, state)
            PROVE  node'.protocol = state.protocol
  BY <1>advance DEF Advance, Node
<1>1. ASSUME NEW s, NEW expected, Save(s, expected) PROVE node'.protocol = 2
  BY <1>1, <1>node DEF Save, Node
<1>2. ASSUME NEW r, Confirm(r) \/ Expire(r) \/ LegacyReport(r)
      PROVE  node'.protocol = 2
  BY <1>2, <1>node, <1>advance DEF Confirm, Expire, LegacyReport
<1>3. ASSUME NEW service, NEW startup, NEW mode, NEW supported,
             Negotiate(service, startup, mode, supported)
      PROVE  node'.protocol = 2
  BY <1>3, <1>node DEF Negotiate, Node
<1>4. ASSUME NEW id, NEW r, NEW g, NEW k, PrepareOperation(id, r, g, k)
      PROVE  node'.protocol = 2
  BY <1>4, <1>node, <1>advance DEF PrepareOperation
<1>5. ASSUME NEW id, NEW key, NEW phase, ReportOperation(id, key, phase)
      PROVE  node'.protocol = 2
  BY <1>5, <1>node, <1>advance DEF ReportOperation
<1>6. ASSUME NEW key \in ReceiptIds, NEW r \in Revisions, NEW service \in Services,
             NEW startup \in Startups, NEW mode \in Modes,
             NEW observed \in 0..(now + ClockSkew), NEW id \in OperationIds,
             NEW effective \in Effects, NEW g,
             Observe(key, r, g, service, startup, mode, observed, id, effective)
      PROVE  node'.protocol = 2
  <2>1. mode \in 1..5 /\ observed \in Int /\ effective \in Capabilities
    BY DEF TypeOK
  <2> QED BY <1>6, <2>1, ObserveMoves
<1>7. ASSUME NEW key, NEW r, NEW g, FailApply(key, r, g) PROVE node'.protocol = 2
  BY <1>7, <1>node, <1>advance DEF FailApply
<1>8. ASSUME NEW s, NEW service, NEW preserve, InitializeBaseline(s, service, preserve)
      PROVE  node'.protocol = 2
  <2>1. [node EXCEPT !.desired = 1] \in Node
    BY <1>node DEF Node
  <2> QED BY <1>8, <2>1, <1>node, <1>advance DEF InitializeBaseline, Node
<1>9. ASSUME NEW p, SaveProfile(p) PROVE node'.protocol = 2
  BY <1>9 DEF SaveProfile
<1>10. CASE Tick \/ UNCHANGED vars
  BY <1>10 DEF Tick, vars
<1> QED
  BY <1>1, <1>2, <1>3, <1>4, <1>5, <1>6, <1>7, <1>8, <1>9, <1>10
     DEF Next, Panel, Agent, HostTool

\* The handlers keep Witnessed: the step in which a revision of the gate fails
\* is one after which the capability is denied, and the gate sees it.
LEMMA WitnessedKept ==
  ASSUME TypeOK, TypeOK', IndInv, GateShape, Witnessed, [Next]_vars, Witness
  PROVE  GateShape' /\ Witnessed'
<1>1. CASE gate.pc \in {"allowed", "denied"}
  <2>1. gate' = gate
    BY <1>1 DEF Witness
  <2> QED BY <1>1, <2>1 DEF GateShape, Witnessed
<1>2. CASE gate.pc \notin {"allowed", "denied"}
  <2>1. PICK f : f = gate.feature /\
                 gate' = [gate EXCEPT !.seen = @ \cup {CapabilityAllowed(f)'}]
    BY <1>2 DEF Witness
  <2>2. /\ GateShape' /\ gate'.pc = gate.pc /\ gate'.feature = f
        /\ gate'.desired = gate.desired /\ gate'.applied = gate.applied
        /\ gate'.seen = gate.seen \cup {CapabilityAllowed(f)'}
    BY <2>1 DEF GateShape
  <2>3. CASE gate.pc \notin {"applied", "desired"}
    BY <2>2, <2>3 DEF Witnessed
  <2>4. CASE gate.pc \in {"applied", "desired"}
    <3>0. PICK a, d : a = gate.applied /\ d = gate.desired
      OBVIOUS
    <3>1. node'.protocol = 2 /\ a \in Revisions /\ d \in Revisions
      BY <2>4, <3>0, ProtocolStep DEF Witnessed
    <3>2. /\ rows[a].state # "absent" /\ rows[d].state # "absent"
          /\ ~Allows(a, f) => FALSE \in gate.seen
          /\ ~Allows(d, f) => FALSE \in gate.seen
          /\ (gate.pc = "applied" => Allows(a, f)) /\ Allows(d, f)
               => TRUE \in gate.seen
      BY <2>1, <2>4, <3>0 DEF Witnessed
    <3>3. ASSUME NEW r \in Revisions, rows[r].state # "absent",
                 ~Allows(r, f) => FALSE \in gate.seen
          PROVE  /\ rows'[r].state # "absent"
                 /\ Allows(r, f)' => Allows(r, f)
                 /\ ~Allows(r, f)' => FALSE \in gate'.seen
      <4>1. /\ rows'[r].state # "absent"
            /\ Allows(r, f)' => Allows(r, f)
            /\ Allows(r, f) /\ ~Allows(r, f)' => r = node'.desired
        BY <3>3, AllowsStep
      <4>2. r = node'.desired /\ ~Allows(r, f)' => CapabilityAllowed(f)' = FALSE
        BY <3>1 DEF CapabilityAllowed
      <4> QED BY <3>3, <4>1, <4>2, <2>2
    <3>4. /\ rows'[a].state # "absent"
          /\ Allows(a, f)' => Allows(a, f)
          /\ ~Allows(a, f)' => FALSE \in gate'.seen
      BY <3>1, <3>2, <3>3
    <3>5. /\ rows'[d].state # "absent"
          /\ Allows(d, f)' => Allows(d, f)
          /\ ~Allows(d, f)' => FALSE \in gate'.seen
      BY <3>1, <3>2, <3>3
    <3> QED BY <2>2, <3>0, <3>1, <3>2, <3>4, <3>5 DEF Witnessed, Allows
  <2> QED BY <2>2, <2>3, <2>4
<1> QED BY <1>1, <1>2

\* The first query of the gate: the applied and the desired revision exist.
LEMMA BeginWitnessed ==
  ASSUME TypeOK, IndInv, NEW f, BeginGate(f)
  PROVE  GateShape' /\ Witnessed'
<1>1. CASE node.protocol = 2 /\ node.applied = 0
  <2>1. gate' = NoGate
    BY <1>1 DEF BeginGate
  <2> QED BY <2>1 DEF NoGate, GateShape, Witnessed
<1>2. CASE ~(node.protocol = 2 /\ node.applied = 0)
  <2>1. gate' = [pc |-> IF node.protocol = 2 THEN "applied" ELSE "profile",
                 feature |-> f, desired |-> node.desired,
                 applied |-> node.applied, seen |-> {CapabilityAllowed(f)}]
    BY <1>2 DEF BeginGate
  <2>2. /\ GateShape' /\ gate'.feature = f /\ gate'.desired = node.desired
        /\ gate'.applied = node.applied /\ gate'.seen = {CapabilityAllowed(f)}
        /\ gate'.pc = IF node.protocol = 2 THEN "applied" ELSE "profile"
    BY <2>1 DEF GateShape
  <2>3. node' = node /\ rows' = rows
    BY DEF BeginGate, vars
  <2>4. CASE node.protocol = 2
    <3>1. node.applied # 0 /\ node.applied \in Revisions
      BY <1>2, <2>4, AppliedIsRevision
    <3>2. node.desired \in Revisions
      BY <3>1 DEF IndInv, AppliedWasApprovedAndDone, Numbering, Revisions, TypeOK, Node
    <3>3. rows[node.applied].state # "absent" /\ rows[node.desired].state # "absent"
      BY <3>1, <3>2 DEF IndInv, AppliedWasApprovedAndDone, Numbering, Revisions
    <3>4. CapabilityAllowed(f) = (Allows(node.applied, f) /\ Allows(node.desired, f))
      BY <2>4, <3>1 DEF CapabilityAllowed
    <3> QED BY <2>2, <2>3, <2>4, <3>1, <3>2, <3>3, <3>4 DEF Witnessed, Allows
  <2>5. CASE node.protocol # 2
    BY <2>2, <2>5 DEF Witnessed
  <2> QED BY <2>4, <2>5
<1> QED BY <1>1, <1>2

LEMMA WitnessedStep ==
  ASSUME TypeOK, TypeOK', IndInv, GateShape, Witnessed, [ReadNext]_readVars
  PROVE  GateShape' /\ Witnessed'
<1>1. CASE (Next \/ ReadTransaction) /\ Witness
  <2>1. [Next]_vars
    <3>1. CASE ReadTransaction
      BY <1>1, <3>1, ReadersWriteNothingElse DEF ReadNext
    <3> QED BY <1>1, <3>1
  <2> QED BY <1>1, <2>1, WitnessedKept
<1>2. ASSUME NEW f \in Features, BeginGate(f) PROVE GateShape' /\ Witnessed'
  BY <1>2, BeginWitnessed
<1>3. ASSUME NEW allowed, Answer(allowed) PROVE GateShape' /\ Witnessed'
  <2>1. \E pc \in {"allowed", "denied"} : gate' = [NoGate EXCEPT !.pc = pc]
    BY <1>3 DEF Answer
  <2> QED BY <2>1 DEF NoGate, GateShape, Witnessed
<1>4. CASE GateApplied /\ gate' = [gate EXCEPT !.pc = "desired"]
           /\ Allows(gate.applied, gate.feature)
  <2>1. gate.pc = "applied" /\ node' = node /\ rows' = rows
    BY <1>4 DEF GateApplied, vars
  <2>2. /\ GateShape' /\ gate'.pc = "desired" /\ gate'.feature = gate.feature
        /\ gate'.applied = gate.applied /\ gate'.desired = gate.desired
        /\ gate'.seen = gate.seen
    BY <1>4 DEF GateShape
  <2> QED BY <1>4, <2>1, <2>2 DEF Witnessed, Allows
<1>5. CASE UNCHANGED gate /\ UNCHANGED vars
  BY <1>5 DEF GateShape, Witnessed, Allows, vars
<1>6. CASE GateReader
  BY <1>2, <1>3, <1>4, <1>6 DEF GateReader, GateProfile, GateApplied, GateDesired
<1>7. StateReader => UNCHANGED vars
  BY DEF StateReader, BeginRead, ReadDesired, ReadApplied, ReadHostOperation,
         CheckRead, RetryRead
<1> QED BY <1>1, <1>5, <1>6, <1>7 DEF ReadNext, readVars

\* The answer of the gate was true at some moment while it ran: no save,
\* confirmation, acknowledgement or failure between its queries makes it give
\* an answer that the track never had.
THEOREM GateTruthful == ReadSpec => GateAnswerWasTrue
<1> DEFINE Step ==
      gate.pc \in {"applied", "desired"} =>
        /\ gate'.pc = "allowed" => TRUE \in gate.seen
        /\ gate'.pc = "denied" => FALSE \in gate.seen
<1>1. ReadInit => GateShape /\ Witnessed
  BY DEF ReadInit, GateShape, Witnessed, NoGate
<1>2. /\ TypeOK /\ TypeOK' /\ IndInv /\ GateShape /\ Witnessed /\ [ReadNext]_readVars
      => (GateShape /\ Witnessed)'
  BY WitnessedStep
<1>3. ASSUME GateShape, Witnessed, [ReadNext]_readVars PROVE Step
  <2> SUFFICES ASSUME gate.pc \in {"applied", "desired"},
                      gate'.pc \in {"allowed", "denied"}
               PROVE  /\ gate'.pc = "allowed" => TRUE \in gate.seen
                      /\ gate'.pc = "denied" => FALSE \in gate.seen
    OBVIOUS
  <2>1. ~Witness
    BY <1>3 DEF Witness, GateShape
  <2>2. GateApplied \/ GateDesired
    BY <1>3, <2>1 DEF ReadNext, readVars, GateReader, BeginGate, GateProfile
  <2>3. ASSUME NEW allowed, Answer(allowed)
        PROVE  gate'.pc = IF allowed THEN "allowed" ELSE "denied"
    BY <2>3 DEF Answer, NoGate
  <2>4. CASE GateApplied
    <3>1. ~Allows(gate.applied, gate.feature) /\ gate'.pc = "denied"
      BY <1>3, <2>3, <2>4 DEF GateApplied, GateShape
    <3> QED BY <1>3, <3>1 DEF Witnessed
  <2>5. CASE GateDesired
    <3>1. /\ gate.pc = "desired"
          /\ gate'.pc = IF Allows(gate.desired, gate.feature)
                          THEN "allowed" ELSE "denied"
      BY <2>3, <2>5 DEF GateDesired
    <3> QED BY <1>3, <3>1 DEF Witnessed
  <2> QED BY <2>2, <2>4, <2>5
<1> QED BY <1>1, <1>2, <1>3, ReadInvariance, PTL DEF ReadSpec, GateAnswerWasTrue
=============================================================================
