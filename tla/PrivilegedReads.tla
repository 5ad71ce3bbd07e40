--------------------------- MODULE PrivilegedReads ---------------------------
(***************************************************************************)
(* Two readers of the privileged track that hold no lock and open no       *)
(* transaction, so that every query of theirs is a step and any handler    *)
(* of PrivilegedDelivery can commit between two of them:                   *)
(*   - GetStateWithDB, which reads the node, its rows and its operation,   *)
(*     and accepts them when the cursor has not moved meanwhile;           *)
(*   - PrivilegedCapabilityAllowedWithDB, the gate of every new session,   *)
(*     which reads the node and then one row after the other.              *)
(***************************************************************************)
EXTENDS PrivilegedDelivery

CONSTANTS
  MaxAttempts,      \* the three attempts of GetStateWithDB
  Readers           \* which of "state" and "gate" run

ASSUME PrivilegedReadsAssumption ==
  /\ MaxAttempts \in Nat \ {0}
  /\ Readers \subseteq {"state", "gate"}

VARIABLES
  read,    \* the local variables of GetStateWithDB
  gate     \* the local variables of PrivilegedCapabilityAllowedWithDB

readVars == <<vars, read, gate>>

-----------------------------------------------------------------------------
(* GetStateWithDB. *)

\* pc names the next query; "refused" is the error of the last attempt.
NoRead == [pc |-> "idle", attempt |-> 0, desired |-> NoRow, applied |-> NoRow,
           operations |-> {}, node |-> [desired |-> 0, applied |-> 0, seq |-> 0]]

\* An attempt starts with a query of the node.
Attempt(n) ==
  read' = [NoRead EXCEPT !.pc = "desired", !.attempt = n, !.node = node]

RowOf(r) == IF r = 0 THEN NoRow ELSE rows[r]

OperationsOf(r) == {ops[i] : i \in {j \in OperationIds :
                                      ops[j].phase # 0 /\ ops[j].revision = r}}

BeginRead ==
  /\ "state" \in Readers
  /\ read.pc \in {"idle", "refused"}
  /\ Attempt(1)
  /\ UNCHANGED vars

\* A lapsed desired row sends the reader to getStateTransactional, which
\* expires whatever is lapsed by then and returns what it locked.
ReadDesired ==
  LET row == RowOf(read.node.desired) IN
  /\ read.pc = "desired"
  /\ read' = IF Lapsed(row) THEN [NoRead EXCEPT !.pc = "transaction"]
             ELSE [read EXCEPT !.pc = "applied", !.desired = row]
  /\ UNCHANGED vars

\* Defect: the row that was seen lapsed is expired without a second look.
ExpireSeen ==
  /\ read.pc = "transaction"
  /\ read' = NoRead
  /\ Advance(node.desired, [rows[node.desired] EXCEPT !.state = "expired"], node)
  /\ UNCHANGED <<now, ops, receipts, eligible, profile>>

ReadTransaction ==
  /\ read.pc = "transaction"
  /\ read' = NoRead
  /\ IF node.desired # 0 /\ Lapsed(rows[node.desired])
       THEN Expire(node.desired)
       ELSE UNCHANGED vars

\* The applied row is the one already read when it is the desired one.
ReadApplied ==
  /\ read.pc = "applied"
  /\ read' = [read EXCEPT !.pc = "operation",
                !.applied = IF read.node.applied = read.node.desired
                              THEN read.desired ELSE RowOf(read.node.applied)]
  /\ UNCHANGED vars

ReadHostOperation ==
  /\ read.pc = "operation"
  /\ read' = [read EXCEPT !.pc = "check",
                          !.operations = OperationsOf(read.node.desired)]
  /\ UNCHANGED vars

\* Defect: only the pointers are compared, as if rows never changed in place.
SamePointers ==
  node.desired = read.node.desired /\ node.applied = read.node.applied

\* The second read of the node brackets the queries between the two.
Bracketed ==
  /\ node.seq = read.node.seq
  /\ node.desired = read.node.desired
  /\ node.applied = read.node.applied

CheckRead ==
  /\ read.pc = "check"
  /\ read' = IF Bracketed THEN NoRead
             ELSE IF read.attempt < MaxAttempts
               THEN [NoRead EXCEPT !.pc = "retry", !.attempt = read.attempt]
             ELSE [NoRead EXCEPT !.pc = "refused"]
  /\ UNCHANGED vars

RetryRead ==
  /\ read.pc = "retry"
  /\ Attempt(read.attempt + 1)
  /\ UNCHANGED vars

-----------------------------------------------------------------------------
(* PrivilegedCapabilityAllowedWithDB. *)

\* seen is what CapabilityAllowed was at some moment since the first query;
\* no code reads it.
NoGate == [pc |-> "denied", feature |-> "remote", desired |-> 0, applied |-> 0,
           seen |-> {}]

BeginGate(f) ==
  /\ "gate" \in Readers
  /\ gate.pc \in {"allowed", "denied"}
  /\ gate' = IF node.protocol = 2 /\ node.applied = 0 THEN NoGate
             ELSE [pc |-> IF node.protocol = 2 THEN "applied" ELSE "profile",
                   feature |-> f, desired |-> node.desired,
                   applied |-> node.applied, seen |-> {CapabilityAllowed(f)}]
  /\ UNCHANGED vars

\* The answer of the gate, after its last query.
Answer(allowed) == gate' = [NoGate EXCEPT !.pc = IF allowed THEN "allowed"
                                                             ELSE "denied"]

GateProfile ==
  /\ gate.pc = "profile"
  /\ Answer(LegacyAllowed(gate.feature))
  /\ UNCHANGED vars

\* Defect: a pending revocation is not asked for.
GateAppliedOnly ==
  /\ gate.pc = "applied"
  /\ Answer(Allows(gate.applied, gate.feature))
  /\ UNCHANGED vars

GateApplied ==
  /\ gate.pc = "applied"
  /\ IF Allows(gate.applied, gate.feature)
       THEN gate' = [gate EXCEPT !.pc = "desired"]
       ELSE Answer(FALSE)
  /\ UNCHANGED vars

GateDesired ==
  /\ gate.pc = "desired"
  /\ Answer(Allows(gate.desired, gate.feature))
  /\ UNCHANGED vars

-----------------------------------------------------------------------------
(* The readers beside the handlers. *)

ReadInit == Init /\ read = NoRead /\ gate = NoGate

\* A gate that is under way witnesses what a handler changed.
Witness ==
  \E f \in {gate.feature} :
    gate' = IF gate.pc \in {"allowed", "denied"} THEN gate
            ELSE [gate EXCEPT !.seen = @ \cup {CapabilityAllowed(f)'}]

StateReader ==
  \/ BeginRead \/ ReadDesired \/ ReadApplied \/ ReadHostOperation
  \/ CheckRead \/ RetryRead

GateReader ==
  \/ \E f \in Features : BeginGate(f)
  \/ GateProfile \/ GateApplied \/ GateDesired

ReadNext ==
  \/ Next /\ Witness /\ UNCHANGED read
  \/ ReadTransaction /\ Witness
  \/ StateReader /\ UNCHANGED gate
  \/ GateReader /\ UNCHANGED read

ReadSpec == ReadInit /\ [][ReadNext]_readVars

-----------------------------------------------------------------------------
(* Properties. *)

\* What GetState returns was the node's state at one moment, although it was
\* read by four queries: a snapshot never mixes the row of one approval with
\* the operation or the cursor of another.
ReadIsOneMoment ==
  [][read.pc = "check" /\ read'.pc = "idle" =>
       /\ read.node = node
       /\ read.desired = RowOf(node.desired)
       /\ read.applied = RowOf(node.applied)
       /\ read.operations = OperationsOf(node.desired)]_readVars

\* A reader expires only what is lapsed when it writes: an approval that was
\* renewed, claimed or replaced after the reader saw it lapsed is left alone,
\* and no approval gets a new generation, nonce or deadline from a read.
ReaderExpiresOnlyLapsed ==
  [][read' # read /\ rows' # rows =>
       \A r \in Revisions : rows'[r] # rows[r] =>
         /\ rows'[r] = [rows[r] EXCEPT !.state = "expired"]
         /\ rows[r].state \in {"needs_manual", "awaiting_agent"}
         /\ now >= rows[r].expires]_readVars

\* The gate's answer is one that CapabilityAllowed gave at some moment between
\* the gate's first query and its last, although a save, a confirmation, an
\* acknowledgement or a failure may commit between any two of them.
GateAnswerWasTrue ==
  [][gate.pc \in {"applied", "desired"} =>
       /\ gate'.pc = "allowed" => TRUE \in gate.seen
       /\ gate'.pc = "denied" => FALSE \in gate.seen]_readVars
=============================================================================
