------------------------- MODULE MCPrivilegedReads -------------------------
(* Small instances of PrivilegedReads for TLC. *)
EXTENDS PrivilegedReads

\* The cursor only counts: what matters of it is whether it has moved since
\* the reader's first query.  Receipts are told apart only by being spent.
View == <<now, [node EXCEPT !.seq = 0], rows, ops, Cardinality(receipts), eligible, profile,
          gate, [read EXCEPT !.node.seq = 0], read.node.seq = node.seq>>

MCHelper == [NoSettings EXCEPT !.remote = TRUE, !.webssh = TRUE, !.helper = TRUE]
MCRevoke == NoSettings

MCGateRequests == {MCHelper, MCRevoke}

\* The two readers are followed in two scopes: the snapshot beside a clock,
\* one kind of request and two reports; the gate beside grants, revocations
\* and three reports, while the clock stands still.
Scope ==
  \/ /\ gate = NoGate
     /\ Cardinality(receipts) <= 2
     /\ \A r \in Revisions : rows[r].state # "absent" => rows[r].settings.helper
  \/ now = 0 /\ read = NoRead

MCEffects == {[remote |-> s.remote, webssh |-> s.webssh,
               execution |-> s.execution, gpu |-> s.gpu, helper |-> s.helper] :
                s \in Requests}
MCAllActions == {HostActions}
MCNoProfiles == {}
=============================================================================
