------------------------ MODULE MCPrivilegedDelivery ------------------------
(* Small instances of PrivilegedDelivery for TLC. *)
EXTENDS PrivilegedDelivery, TLC

Symmetry == Permutations(Services) \cup Permutations(Startups)
              \cup Permutations(OperationIds) \cup Permutations(ReceiptIds)

\* The cursor only counts, and only LegacyReport reads the time a revision
\* was received: states that differ in nothing else need not be told apart.
View == <<now, [node EXCEPT !.seq = 0],
          [r \in Revisions |-> [rows[r] EXCEPT !.received = FALSE]],
          ops, receipts, eligible, profile>>

\* Settings that need no host work, that need the rescue helper installed,
\* and that need the service to run as another user; and none at all.
MCGrant   == [NoSettings EXCEPT !.remote = TRUE, !.webssh = TRUE]
MCHelper  == [MCGrant EXCEPT !.helper = TRUE]
MCConvert == [MCGrant EXCEPT !.mode = 2]
MCRevoke  == NoSettings

MCApprovalRequests == {MCGrant, MCHelper}
MCIdentityRequests == {MCRevoke, MCConvert}
MCGateRequests == {MCGrant, MCRevoke}

EffectOf(s) == [remote |-> s.remote, webssh |-> s.webssh,
                execution |-> s.execution, gpu |-> s.gpu, helper |-> s.helper]

MCEffects == {EffectOf(s) : s \in Requests}
MCAllActions == {HostActions}
MCSomeActions == {{}, HostActions}
MCProfiles == {[NoProfile EXCEPT !.saved = TRUE],
               [NoProfile EXCEPT !.saved = TRUE, !.remote = TRUE]}
MCNoProfiles == {}
=============================================================================
