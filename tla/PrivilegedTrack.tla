--------------------------- MODULE PrivilegedTrack ---------------------------
(***************************************************************************)
(* What the privileged track of a node promises, without its storage: a    *)
(* revision is proposed, approved, perhaps claimed by the host, and        *)
(* acknowledged; only the newest proposal can make progress, an approval   *)
(* is claimed at most once, and what is failed or dropped stays so.        *)
(* PrivilegedDelivery implements this specification.                       *)
(***************************************************************************)
EXTENDS Integers

CONSTANT MaxRevision

VARIABLES desired, applied, life

trackVars == <<desired, applied, life>>

Proposals == 1..MaxRevision

\* A revision no one may act on any more does not leave these states.
Settled == {"failed", "dropped"}
Open == {"pending", "approved", "claimed"}
Lives == {"none", "acknowledged"} \cup Open \cup Settled

TrackInit ==
  /\ applied = 0
  /\ \/ desired = 0 /\ life = [r \in Proposals |-> "none"]
     \/ /\ desired = 1 /\ MaxRevision > 0
        /\ life = [r \in Proposals |-> IF r = 1 THEN "pending" ELSE "none"]

\* A new proposal drops every other one that was still open.
Propose ==
  /\ desired < MaxRevision
  /\ desired' = desired + 1
  /\ life' = [r \in Proposals |-> IF r = desired + 1 THEN "pending"
                                  ELSE IF life[r] \in Open THEN "dropped"
                                  ELSE life[r]]
  /\ UNCHANGED applied

\* The installer proposes and approves at once.
Install ==
  /\ desired = 0 /\ MaxRevision > 0
  /\ desired' = 1
  /\ life' = [life EXCEPT ![1] = "approved"]
  /\ UNCHANGED applied

\* The newest proposal moves from one of the states in from to state to.
Move(from, to) ==
  /\ desired \in Proposals
  /\ life[desired] \in from
  /\ life' = [life EXCEPT ![desired] = to]
  /\ UNCHANGED desired

Approve == Move({"pending"}, "approved") /\ UNCHANGED applied
Lapse   == Move({"approved"}, "pending") /\ UNCHANGED applied
Claim   == Move({"approved"}, "claimed") /\ UNCHANGED applied
Acknowledge ==
  Move({"approved", "claimed", "acknowledged"}, "acknowledged") /\ applied' = desired
Fail ==
  Move({"approved", "claimed", "acknowledged"}, "failed") /\ UNCHANGED applied

TrackNext ==
  \/ Propose \/ Install \/ Approve \/ Lapse \/ Claim \/ Acknowledge \/ Fail

TrackSpec == TrackInit /\ [][TrackNext]_trackVars
=============================================================================
