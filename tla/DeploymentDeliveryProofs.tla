---------------------- MODULE DeploymentDeliveryProofs ----------------------
(***************************************************************************)
(* Theorems about DeploymentDelivery for every value of its constants.     *)
(***************************************************************************)
EXTENDS DeploymentDelivery, TLAPS

-----------------------------------------------------------------------------
(* The inductive invariant. *)

\* Everything that carries a revision: what was handed to the agent, the
\* queued event, and what can be said of the rows that calls have read.
InHand ==
  sent \cup ({queue} \ {Null})
    \cup {MessageOf(proc[p].seen) : p \in {q \in Procs : proc[q].seen # Null}}
    \cup {ConfigParams(proc[p].seen) : p \in {q \in Procs : proc[q].seen # Null}}

\* RevisionMeaning, of everything that carries a revision.
OneContent ==
  \A m \in InHand :
    /\ row # Null
    /\ m.revision <= row.revision
    /\ m.revision = row.revision => Agrees(row.content, m.content)
    /\ \A n \in InHand : m.revision = n.revision =>
         \E x \in Content : Agrees(x, m.content) /\ Agrees(x, n.content)

\* What the local variables of a call hold at each of its statements.
ReadOps == {"edit", "update", "rollback", "enroll", "poll", "watch", "basic"}
Reads == {"client", "row", "repair", "final"}
HasRead == {"repair", "final", "hasWatch", "signal", "transport", "markSent",
            "offline", "upgrade-required", "send"}

ProcOK(me) ==
  /\ me \in Proc
  /\ me.pc \in Reads => me.op \in ReadOps
  /\ me.pc \in HasRead => me.seen # Null
  /\ me.pc \in Reads /\ me.op = "update" => me.want # Null
  /\ me.pc \in {"save", "adopt"} => me.want \in Content
  /\ me.pc = "adopt" => me.op = "basic"
  /\ me.pc \in {"subscribe", "select"} => me.op = "watch"

CallsOK == proc \in [Procs -> Proc] /\ \A p \in Procs : ProcOK(proc[p])

\* What the agent reports or has decided, it has run.
RanSo ==
  /\ agent.content \in ran
  /\ \A p \in Procs : proc[p].pc = "adopt" => proc[p].want \in ran
  /\ \A o \in outcome : o.status = "applied" =>
       \E m \in sent, x \in ran : m.revision = o.revision /\ Agrees(x, m.content)

Inv ==
  /\ DeploymentTypeOK
  /\ CallsOK
  /\ OneContent
  /\ RanSo
  /\ AppliedWasRun

-----------------------------------------------------------------------------
(* Contents and messages. *)

Asked == [runtime: Runtimes, nic: BOOLEAN \cup {Null}, day: Days \cup {Null}]

LEMMA DefaultContentType ==
  ASSUME NEW d \in Days \cup {Null}
  PROVE  DefaultContent(d) \in Content
<1>1. DayOf(d) \in Days
  BY DeploymentDeliveryAssumption DEF DayOf
<1>2. ASSUME NEW b \in BOOLEAN, NEW e \in Days
      PROVE  [runtime |-> Default, nic |-> b, day |-> e] \in Content
  BY DeploymentDeliveryAssumption DEF Content
<1> QED BY <1>1, <1>2 DEF DefaultContent

LEMMA MergeType ==
  ASSUME NEW request \in Asked, NEW content \in Content
  PROVE  Merge(request, content) \in Content
BY DEF Merge, Asked, Content

LEMMA RolledBackType ==
  ASSUME NEW previous \in Content
  PROVE  RolledBack(previous) \in Content
<1>1. ASSUME NEW b \in BOOLEAN
      PROVE  [runtime |-> previous.runtime, nic |-> b, day |-> previous.day] \in Content
  BY DEF Content
<1> QED BY <1>1 DEF RolledBack

LEMMA WantType ==
  ASSUME NEW w \in Requests \cup Content \cup {Null}, w # Null
  PROVE  w \in Asked
BY DeploymentDeliveryAssumption DEF Asked, Content

LEMMA ReportedType ==
  ASSUME NEW me, me.want \in Content, day \in Days \cup {Null}
  PROVE  Reported(me) \in Content /\ Reported(me).runtime = me.want.runtime
<1> DEFINE e == IF day = Null THEN me.want.day ELSE day
<1>1. e \in Days
  BY DEF Content
<1>2. ASSUME NEW b \in BOOLEAN
      PROVE  /\ [me.want EXCEPT !.nic = b, !.day = e] \in Content
             /\ [me.want EXCEPT !.nic = b, !.day = e].runtime = me.want.runtime
  BY <1>1 DEF Content
<1> QED BY <1>2 DEF Reported

LEMMA ReadOfType ==
  ASSUME NEW r \in Row
  PROVE  /\ ReadOf(r) \in Read
         /\ ReadOf(r).revision = r.revision /\ ReadOf(r).content = r.content
         /\ ReadOf(r).previous = r.previous
         /\ MessageOf(ReadOf(r)) = MessageOf(r)
         /\ ConfigParams(ReadOf(r)) = ConfigParams(r)
BY DEF ReadOf, MessageOf, ConfigParams, Row, Read

\* What can be said of a row, over Connect or over v2.
Said(m, r) == m = MessageOf(r) \/ m = ConfigParams(r)

LEMMA SaidType ==
  ASSUME NEW r \in Row \cup Read, NEW m, Said(m, r)
  PROVE  /\ m \in Message /\ m.revision = r.revision
         /\ Agrees(r.content, m.content)
<1>1. r.revision \in 0..MaxRevision /\ r.content \in Content
  BY DEF Row, Read
<1>2. r.content \in Carried /\ Agrees(r.content, r.content)
  BY <1>1 DEF Content, Carried, Agrees
<1> DEFINE c == [r.content EXCEPT !.nic = Null]
<1>3. c \in Carried /\ Agrees(r.content, c)
  BY <1>1 DEF Content, Carried, Agrees
<1>4. CASE m = MessageOf(r)
  BY <1>1, <1>2, <1>4 DEF MessageOf, Message
<1>5. CASE m = ConfigParams(r)
  <2>1. m = [revision |-> r.revision, content |-> c]
    BY <1>5 DEF ConfigParams
  <2> HIDE DEF c
  <2> QED BY <1>1, <1>3, <2>1 DEF Message
<1> QED BY <1>4, <1>5 DEF Said

-----------------------------------------------------------------------------
(* What a statement does to the row. *)

\* A row is never removed, its content changes only with its revision, which
\* only grows, and a delivery that is over stays so.
RowKept(new) ==
  /\ new \in Row \cup {Null}
  /\ row # Null => /\ new # Null
                   /\ \/ new.revision > row.revision
                      \/ new.revision = row.revision /\ new.content = row.content
                   /\ row.status \in Closed /\ new.revision = row.revision
                        => new.status \in Closed \cup {"upgrade-required"}

\* "applied" is earned, if the agent's reports have closed these revisions.
Earned(new, closed) ==
  (new # Null /\ new.status = "applied") =>
    /\ new.applied = new.revision
    /\ \E x \in ran :
         /\ x.runtime = new.content.runtime
         /\ \/ new.revision \in closed
            \/ \E m \in sent : m.revision = new.revision /\ Agrees(x, m.content)

RowGoes(new) == RowKept(new) /\ Earned(new, adopted)

LEMMA RowStays ==
  ASSUME Inv
  PROVE  RowGoes(row)
BY DEF Inv, DeploymentTypeOK, AppliedWasRun, RowGoes, RowKept, Earned

LEMMA NewRevisionGoes ==
  ASSUME Inv, row # Null, row.revision < MaxRevision,
         NEW content \in Content, NEW previous \in Content \cup {Null}
  PROVE  /\ NewRevision(row, content, previous) \in Row
         /\ RowGoes(NewRevision(row, content, previous))
         /\ NewRevision(row, content, previous).content = content
<1> DEFINE new == NewRevision(row, content, previous)
<1>1. row \in Row
  BY DEF Inv, DeploymentTypeOK
<1>2. row.revision + 1 \in 0..MaxRevision /\ row.revision \in Nat
  BY <1>1, DeploymentDeliveryAssumption DEF Row
<1>3. /\ new \in Row /\ new.revision = row.revision + 1 /\ new.status = "saved"
      /\ new.content = content
  BY <1>1, <1>2 DEF Row, NewRevision, Pending
<1>4. new # Null
  BY <1>3, NullAssumption
<1>5. RowGoes(new)
  <2> HIDE DEF new
  <2> QED BY <1>1, <1>2, <1>3, <1>4 DEF RowGoes, RowKept, Earned
<1> QED BY <1>3, <1>5

LEMMA ReconciledGoes ==
  ASSUME Inv, row # Null, row.revision < MaxRevision, NEW d \in Days \cup {Null}
  PROVE  RowGoes(Reconciled(row, d))
<1>1. row \in Row /\ row.content \in Content /\ DayOf(d) \in Days
  BY DeploymentDeliveryAssumption DEF Inv, DeploymentTypeOK, Row, DayOf
<1>2. [row.content EXCEPT !.day = DayOf(d)] \in Content
  BY <1>1 DEF Content
<1> QED BY <1>1, <1>2, RowStays, NewRevisionGoes DEF Reconciled

LEMMA SavedGoes ==
  ASSUME Inv, NEW content \in Content, NEW force \in BOOLEAN, RevisionOf(row) < MaxRevision
  PROVE  /\ RowGoes(Saved(content, force))
         /\ Saved(content, force) \in Row
<1>1. CASE row = Null
  <2> DEFINE new == [revision |-> 1, applied |-> 0, status |-> "saved",
                     content |-> content, previous |-> Null]
  <2>1. Saved(content, force) = new
    BY <1>1 DEF Saved
  <2>2. new \in Row /\ new.status = "saved"
    BY DeploymentDeliveryAssumption DEF Row, Pending
  <2> HIDE DEF new
  <2> QED BY <1>1, <2>1, <2>2 DEF RowGoes, RowKept, Earned
<1>2. CASE row # Null /\ RuntimeChanged(content, force)
  <2> DEFINE previous == IF row.content # content THEN row.content ELSE row.previous
  <2>1. Saved(content, force) = NewRevision(row, content, previous)
    BY <1>2 DEF Saved
  <2>2. row \in Row
    BY <1>2 DEF Inv, DeploymentTypeOK
  <2>3. previous \in Content \cup {Null} /\ row.revision < MaxRevision
    BY <1>2, <2>2 DEF Row, RevisionOf
  <2> HIDE DEF previous
  <2> QED BY <1>2, <2>1, <2>3, NewRevisionGoes
<1>3. CASE row # Null /\ ~RuntimeChanged(content, force)
  <2>1. Saved(content, force) = row
    BY <1>3 DEF Saved
  <2> QED BY <1>3, <2>1, RowStays DEF Inv, DeploymentTypeOK
<1> QED BY <1>1, <1>2, <1>3

\* The marks change nothing but a status that is not final.
LEMMA StatusGoes ==
  ASSUME Inv, row # Null, row.status \in Pending, NEW status \in Pending
  PROVE  RowGoes([row EXCEPT !.status = status])
<1> DEFINE new == [row EXCEPT !.status = status]
<1>1. row \in Row
  BY DEF Inv, DeploymentTypeOK
<1>2. /\ new \in Row /\ new.revision = row.revision /\ new.content = row.content
      /\ new.status = status
  BY <1>1 DEF Row
<1>3. new # Null
  BY <1>2, NullAssumption
<1>4. RowGoes(new)
  <2> HIDE DEF new
  <2> QED BY <1>2, <1>3 DEF RowGoes, RowKept, Earned, Pending, Closed
<1> QED BY <1>4

LEMMA MarkSentGoes ==
  ASSUME Inv, NEW revision
  PROVE  RowGoes(MarkSent(revision))
BY RowStays, StatusGoes DEF MarkSent, Pending

LEMMA MarkUnavailableGoes ==
  ASSUME Inv, NEW revision, NEW status \in {"offline", "upgrade-required"}
  PROVE  RowGoes(MarkUnavailable(revision, status))
BY RowStays, StatusGoes DEF MarkUnavailable, Pending

\* What the agent decided about the desired revision it has run.
LEMMA CompletedGoes ==
  ASSUME Inv, NEW o \in outcome
  PROVE  RowGoes(Completed(o.revision, o.status))
<1>1. CASE row = Null \/ row.revision # o.revision
  BY <1>1, RowStays DEF Completed
<1>2. CASE row # Null /\ row.revision = o.revision
  <2> DEFINE applied == IF o.status = "applied" THEN o.revision ELSE row.applied
             new == [row EXCEPT !.status = o.status, !.applied = applied]
  <2>1. row \in Row /\ o.revision \in 0..MaxRevision /\ o.status \in Closed \cup {"upgrade-required"}
    BY <1>2 DEF Inv, DeploymentTypeOK
  <2>2. Completed(o.revision, o.status) = new
    BY <1>2 DEF Completed
  <2>3. applied \in 0..MaxRevision /\ o.status \in Pending \cup Closed
    BY <2>1 DEF Row, Pending
  <2>4. o.status = "applied" => applied = row.revision
    BY <1>2
  <2>5. o.status = "applied" =>
          \E x \in ran : /\ x.runtime = row.content.runtime
                         /\ \E m \in sent : /\ m.revision = row.revision
                                            /\ Agrees(x, m.content)
    <3> SUFFICES ASSUME o.status = "applied"
                 PROVE  \E x \in ran : /\ x.runtime = row.content.runtime
                                       /\ \E m \in sent : /\ m.revision = row.revision
                                                          /\ Agrees(x, m.content)
      OBVIOUS
    <3>1. PICK m \in sent, x \in ran : m.revision = o.revision /\ Agrees(x, m.content)
      BY DEF Inv, RanSo
    <3>2. m \in InHand
      BY DEF InHand
    <3>3. Agrees(row.content, m.content)
      BY <1>2, <3>1, <3>2 DEF Inv, OneContent
    <3>4. x.runtime = row.content.runtime
      BY <3>1, <3>3 DEF Agrees
    <3> QED BY <1>2, <3>1, <3>4
  <2> HIDE DEF applied
  <2>6. /\ new \in Row /\ new.revision = row.revision /\ new.content = row.content
        /\ new.status = o.status /\ new.applied = applied
    BY <2>1, <2>3 DEF Row
  <2>7. new # Null
    BY <2>6, NullAssumption
  <2> HIDE DEF new
  <2> QED BY <2>1, <2>2, <2>4, <2>5, <2>6, <2>7 DEF RowGoes, RowKept, Earned
<1> QED BY <1>1, <1>2

\* Adopting what the agent runs.
ClosedBy(new) ==
  IF new # row /\ new.status = "applied" THEN adopted \cup {new.revision} ELSE adopted

LEMMA AdoptedGoes ==
  ASSUME Inv, NEW reported \in Content, NEW x \in ran, x.runtime = reported.runtime
  PROVE  /\ RowKept(Adopted(reported))
         /\ Earned(Adopted(reported), ClosedBy(Adopted(reported)))
         /\ ClosedBy(Adopted(reported)) \subseteq 1..MaxRevision
<1> USE DeploymentDeliveryAssumption
<1> DEFINE Good(new) == /\ RowKept(new) /\ Earned(new, ClosedBy(new))
                        /\ ClosedBy(new) \subseteq 1..MaxRevision
<1>0. adopted \subseteq 1..MaxRevision /\ 1 \in 1..MaxRevision
  BY DEF Inv, DeploymentTypeOK
<1>row. Good(row)
  <2>1. ClosedBy(row) = adopted
    BY DEF ClosedBy
  <2> QED BY <1>0, <2>1, RowStays DEF RowGoes
\* An "applied" row whose revision the report has just closed.
<1>new. ASSUME NEW new \in Row, new # row, new.status = "applied", RowKept(new),
               new.applied = new.revision, new.revision \in 1..MaxRevision,
               new.content.runtime = x.runtime
        PROVE  Good(new)
  <2>1. ClosedBy(new) = adopted \cup {new.revision}
    BY <1>new DEF ClosedBy
  <2>2. Earned(new, ClosedBy(new))
    BY <1>new, <2>1 DEF Earned
  <2> QED BY <1>0, <1>new, <2>1, <2>2
<1> HIDE DEF Good
<1>1. CASE row = Null
  <2> DEFINE new == [revision |-> 1, applied |-> 1, status |-> "applied",
                     content |-> reported, previous |-> Null]
  <2>1. Adopted(reported) = new
    BY <1>1 DEF Adopted
  <2>2. /\ new \in Row /\ new.applied = new.revision /\ new.revision = 1
        /\ new.status = "applied" /\ new.content.runtime = reported.runtime
    BY DEF Row, Pending, Closed
  <2> HIDE DEF new
  <2>3. new # row /\ RowKept(new)
    BY <1>1, <2>2, NullAssumption DEF RowKept
  <2>4. Good(new)
    BY <1>0, <1>new, <2>2, <2>3
  <2> QED BY <2>1, <2>4 DEF Good
<1>2. CASE row # Null /\ SameRuntime(row.content, reported)
  <2> DEFINE revision == IF row.revision = 0 THEN 1 ELSE row.revision
             new == [row EXCEPT !.revision = revision, !.applied = revision,
                                !.status = "applied"]
  <2>1. row \in Row
    BY <1>2 DEF Inv, DeploymentTypeOK
  <2>2. Adopted(reported) = row \/ Adopted(reported) = new
    BY <1>2 DEF Adopted
  <2>3. /\ revision \in 1..MaxRevision /\ revision \in 0..MaxRevision
        /\ revision > row.revision \/ revision = row.revision
    BY <2>1 DEF Row
  <2> HIDE DEF revision
  <2>4. /\ new \in Row /\ new.revision = revision /\ new.content = row.content
        /\ new.status = "applied" /\ new.applied = revision
    BY <2>1, <2>3 DEF Row, Pending, Closed
  <2>5. new # Null
    BY <2>4, NullAssumption
  <2>6. row.content.runtime = x.runtime
    BY <1>2 DEF SameRuntime
  <2> HIDE DEF new
  <2>7. RowKept(new)
    BY <2>3, <2>4, <2>5 DEF RowKept, Closed
  <2>8. new # row => Good(new)
    BY <1>new, <2>3, <2>4, <2>6, <2>7
  <2> QED BY <1>row, <2>2, <2>8 DEF Good
<1>3. CASE row # Null /\ ~SameRuntime(row.content, reported)
  <2> DEFINE new == [row EXCEPT !.revision = 1, !.status = "saved"]
  <2>1. row \in Row
    BY <1>3 DEF Inv, DeploymentTypeOK
  <2>2. Adopted(reported) = IF row.revision = 0 THEN new ELSE row
    BY <1>3 DEF Adopted
  <2>3. new \in Row /\ new.revision = 1 /\ new.status = "saved"
    <3>1. 1 \in 0..MaxRevision /\ "saved" \in Pending
      BY DEF Pending
    <3>2. ASSUME NEW n \in 0..MaxRevision, NEW status \in Pending
          PROVE  /\ [row EXCEPT !.revision = n, !.status = status] \in Row
                 /\ [row EXCEPT !.revision = n, !.status = status].revision = n
                 /\ [row EXCEPT !.revision = n, !.status = status].status = status
      BY <2>1 DEF Row
    <3> QED BY <3>1, <3>2
  <2>4. new # Null
    BY <2>3, NullAssumption
  <2> HIDE DEF new
  <2>5. row.revision = 0 => RowKept(new)
    BY <2>3, <2>4 DEF RowKept
  <2>6. Earned(new, ClosedBy(new)) /\ ClosedBy(new) = adopted
    BY <2>3 DEF Earned, ClosedBy
  <2>7. row.revision = 0 => Good(new)
    BY <1>0, <2>5, <2>6 DEF Good
  <2> QED BY <1>row, <2>2, <2>7 DEF Good
<1> QED BY <1>1, <1>2, <1>3

-----------------------------------------------------------------------------
(* What a statement does to the local variables of its call. *)

Ops == {"none", "edit", "update", "save", "rollback", "enroll", "poll", "watch", "basic"}
Pcs == {"idle", "client", "row", "repair", "final", "save", "hasWatch", "signal",
        "transport", "markSent", "offline", "upgrade-required", "subscribe",
        "select", "send", "adopt"}

LEMMA IdleOK == ProcOK(Idle) /\ Idle.seen = Null /\ Idle.pc = "idle"
<1>1. ASSUME NEW b \in BOOLEAN, NEW c \in BOOLEAN, NEW e \in BOOLEAN
      PROVE  [op |-> "none", pc |-> "idle", known |-> 0, attempt |-> 1,
              day |-> Null, seen |-> Null, want |-> Null, force |-> b,
              watched |-> c, live |-> e] \in Proc
  BY DeploymentDeliveryAssumption DEF Proc
<1>2. Idle \in Proc
  BY <1>1 DEF Idle
<1>3. Idle.seen = Null /\ Idle.pc = "idle"
  BY DEF Idle
<1> QED BY <1>2, <1>3 DEF ProcOK, Reads, HasRead

\* The updates that statements make keep a call's variables typed.
LEMMA GoToType ==
  ASSUME NEW me \in Proc, NEW pc \in Pcs, NEW rec, rec = [me EXCEPT !.pc = pc]
  PROVE  /\ rec \in Proc /\ rec.pc = pc /\ rec.op = me.op /\ rec.seen = me.seen
         /\ rec.want = me.want
BY DEF Proc, Pcs

LEMMA SeenType ==
  ASSUME NEW me \in Proc, NEW r \in Read \cup {Null}, NEW rec, rec = [me EXCEPT !.seen = r]
  PROVE  /\ rec \in Proc /\ rec.seen = r /\ rec.pc = me.pc /\ rec.op = me.op
         /\ rec.want = me.want
BY DEF Proc

LEMMA DayType ==
  ASSUME NEW me \in Proc, NEW d \in Days \cup {Null}, NEW rec, rec = [me EXCEPT !.day = d]
  PROVE  /\ rec \in Proc /\ rec.seen = me.seen /\ rec.pc = me.pc /\ rec.op = me.op
         /\ rec.want = me.want
BY DEF Proc

LEMMA AttemptType ==
  ASSUME NEW me \in Proc, NEW n \in 1..MaxAttempts, NEW rec, rec = [me EXCEPT !.attempt = n]
  PROVE  /\ rec \in Proc /\ rec.seen = me.seen /\ rec.pc = me.pc /\ rec.op = me.op
         /\ rec.want = me.want
BY DEF Proc

LEMMA WantedType ==
  ASSUME NEW me \in Proc, NEW w \in Requests \cup Content \cup {Null}, NEW rec,
         rec = [me EXCEPT !.want = w]
  PROVE  /\ rec \in Proc /\ rec.seen = me.seen /\ rec.pc = me.pc /\ rec.op = me.op
         /\ rec.want = w
BY DEF Proc

LEMMA ForceType ==
  ASSUME NEW me \in Proc, NEW b \in BOOLEAN, NEW rec,
         \/ rec = [me EXCEPT !.force = b]
         \/ rec = [me EXCEPT !.watched = b]
         \/ rec = [me EXCEPT !.live = b]
  PROVE  /\ rec \in Proc /\ rec.seen = me.seen /\ rec.pc = me.pc /\ rec.op = me.op
         /\ rec.want = me.want
BY DEF Proc

LEMMA KnownType ==
  ASSUME NEW me \in Proc, NEW k \in 0..MaxRevision, NEW rec, rec = [me EXCEPT !.known = k]
  PROVE  /\ rec \in Proc /\ rec.seen = me.seen /\ rec.pc = me.pc /\ rec.op = me.op
         /\ rec.want = me.want
BY DEF Proc

LEMMA OpType ==
  ASSUME NEW me \in Proc, NEW o \in Ops, NEW rec, rec = [me EXCEPT !.op = o]
  PROVE  /\ rec \in Proc /\ rec.seen = me.seen /\ rec.pc = me.pc /\ rec.op = o
         /\ rec.want = me.want
BY DEF Proc, Ops

LEMMA GotType ==
  ASSUME NEW me \in Proc, NEW r \in Read \cup {Null}, NEW got,
         got = [me EXCEPT !.seen = r, !.day = Null, !.attempt = 1]
  PROVE  got \in Proc /\ got.seen = r /\ got.op = me.op /\ got.want = me.want
<1> DEFINE a == [me EXCEPT !.seen = r]
           b == [a EXCEPT !.day = Null]
<1>0. got = [b EXCEPT !.attempt = 1] /\ 1 \in 1..MaxAttempts
  BY DeploymentDeliveryAssumption
<1>1. a \in Proc /\ a.seen = r /\ a.op = me.op /\ a.want = me.want
  BY SeenType
<1> HIDE DEF a
<1>2. b \in Proc /\ b.seen = r /\ b.op = me.op /\ b.want = me.want
  BY <1>1, DayType
<1> HIDE DEF b
<1> QED BY <1>0, <1>2, AttemptType, ZenonT(60)

\* What a reader does with the row it got.
LEMMA ContinueOK ==
  ASSUME NEW me, ProcOK(me), me.pc \in Reads, NEW r \in Read \cup {Null},
         day \in Days \cup {Null}
  PROVE  /\ ProcOK(Continue(me, r))
         /\ Continue(me, r).seen \in {Null, r}
         /\ Continue(me, r).pc # "adopt"
<1> DEFINE got == [me EXCEPT !.seen = r, !.day = Null, !.attempt = 1]
           Fine(rec) == ProcOK(rec) /\ rec.seen \in {Null, r} /\ rec.pc # "adopt"
<1>me. me \in Proc /\ me.op \in ReadOps
  BY DEF ProcOK
<1>got. got \in Proc /\ got.seen = r /\ got.op = me.op /\ got.want = me.want
  BY <1>me, GotType, ZenonT(60)
<1>idle. Fine(Idle)
  BY IdleOK
<1>pcs. {"hasWatch", "save", "markSent", "select", "send"} \subseteq Pcs
  BY DEF Pcs
<1>goto. ASSUME NEW pc \in {"hasWatch", "markSent", "send"}, r # Null
         PROVE  Fine([got EXCEPT !.pc = pc])
  <2> DEFINE rec == [got EXCEPT !.pc = pc]
  <2>1. rec \in Proc /\ rec.pc = pc /\ rec.seen = r
    <3> HIDE DEF got
    <3> QED BY <1>got, <1>pcs, GoToType
  <2> HIDE DEF rec
  <2>2. Fine(rec)
    BY <1>goto, <2>1 DEF ProcOK, Reads
  <2> QED BY <2>2 DEF rec
<1>save. ASSUME NEW w \in Content, NEW rec,
                \/ rec = [got EXCEPT !.pc = "save", !.want = w]
                \/ rec = [got EXCEPT !.pc = "save", !.force = TRUE, !.want = w]
         PROVE  Fine(rec)
  <2>1. rec \in Proc /\ rec.pc = "save" /\ rec.seen = r /\ rec.want = w
    <3> DEFINE a == [got EXCEPT !.pc = "save"]
               b == [a EXCEPT !.force = TRUE]
    <3>1. rec = [a EXCEPT !.want = w] \/ rec = [b EXCEPT !.want = w]
      BY <1>save
    <3>2. a \in Proc /\ a.pc = "save" /\ a.seen = r
      <4> HIDE DEF got
      <4> QED BY <1>got, <1>pcs, GoToType
    <3> HIDE DEF a
    <3>3. b \in Proc /\ b.pc = "save" /\ b.seen = r
      BY <3>2, ForceType
    <3> HIDE DEF b
    <3> QED BY <3>1, <3>2, <3>3, WantedType
  <2> QED BY <2>1 DEF ProcOK, Reads, HasRead
<1> HIDE DEF Fine
<1>1. CASE me.op = "edit"
  <2>1. Continue(me, r) = IF r = Null THEN Idle ELSE [got EXCEPT !.pc = "hasWatch"]
    BY <1>1 DEF Continue
  <2> QED BY <2>1, <1>idle, <1>goto DEF Fine
<1>2. CASE me.op = "update"
  <2> DEFINE w == Merge(me.want, IF r = Null THEN DefaultContent(me.day) ELSE r.content)
  <2>1. Continue(me, r) = IF me.known # RevisionOf(r) THEN Idle
                          ELSE [got EXCEPT !.pc = "save", !.want = w]
    BY <1>2, <1>got DEF Continue
  <2>2. me.want \in Asked
    BY <1>2, <1>me, WantType DEF ProcOK, Proc
  <2>3. me.day \in Days \cup {Null} /\ (r # Null => r.content \in Content)
    BY <1>me DEF Proc, Read
  <2>4. w \in Content
    BY <2>2, <2>3, MergeType, DefaultContentType
  <2> HIDE DEF w
  <2> QED BY <2>1, <2>4, <1>idle, <1>save DEF Fine
<1>3. CASE me.op = "rollback"
  <2>1. Continue(me, r) = IF r = Null THEN Idle
                          ELSE IF r.previous = Null THEN Idle
                          ELSE [got EXCEPT !.pc = "save", !.force = TRUE,
                                           !.want = RolledBack(r.previous)]
    BY <1>3 DEF Continue
  <2>2. r # Null /\ r.previous # Null => RolledBack(r.previous) \in Content
    BY RolledBackType DEF Read
  <2> QED BY <2>1, <2>2, <1>idle, <1>save DEF Fine
<1>4. CASE me.op = "enroll"
  <2>1. Continue(me, r) = IF r # Null THEN Idle
                          ELSE [got EXCEPT !.pc = "save", !.force = TRUE,
                                           !.want = DefaultContent(day)]
    BY <1>4 DEF Continue
  <2> QED BY <2>1, <1>idle, <1>save, DefaultContentType DEF Fine
<1>5. CASE me.op = "poll"
  <2>1. Continue(me, r) = IF RevisionOf(r) <= me.known THEN Idle
                          ELSE [got EXCEPT !.pc = "markSent"]
    BY <1>5 DEF Continue
  <2>2. r = Null => RevisionOf(r) <= me.known
    BY <1>me DEF RevisionOf, Proc
  <2> QED BY <2>1, <2>2, <1>idle, <1>goto DEF Fine
<1>6. CASE me.op = "watch"
  <2> DEFINE rec == [got EXCEPT !.pc = "select", !.seen = Null]
  <2>1. Continue(me, r) = IF RevisionOf(r) <= me.known THEN rec
                          ELSE [got EXCEPT !.pc = "send"]
    BY <1>6 DEF Continue
  <2>2. r = Null => RevisionOf(r) <= me.known
    BY <1>me DEF RevisionOf, Proc
  <2>3. rec \in Proc /\ rec.pc = "select" /\ rec.seen = Null /\ rec.op = "watch"
    <3> DEFINE a == [got EXCEPT !.pc = "select"]
    <3> HIDE DEF got
    <3>1. a \in Proc /\ a.pc = "select" /\ a.op = "watch"
      BY <1>6, <1>got, <1>pcs, GoToType
    <3>2. rec = [a EXCEPT !.seen = Null]
      OBVIOUS
    <3> HIDE DEF a, rec
    <3> QED BY <3>1, <3>2, SeenType
  <2> HIDE DEF rec
  <2>4. Fine(rec)
    BY <2>3 DEF Fine, ProcOK, Reads, HasRead
  <2> QED BY <2>1, <2>2, <2>4, <1>goto DEF Fine
<1>7. CASE me.op = "basic"
  <2>1. Continue(me, r) = IF r = Null THEN Idle ELSE [got EXCEPT !.pc = "send"]
    BY <1>7 DEF Continue
  <2> QED BY <2>1, <1>idle, <1>goto DEF Fine
<1> QED BY <1>me, <1>1, <1>2, <1>3, <1>4, <1>5, <1>6, <1>7 DEF ReadOps

-----------------------------------------------------------------------------
(* A step, in general. *)

\* The variables of call p become rec.
CallGoes(p, rec) ==
  /\ ProcOK(rec)
  /\ \/ rec.seen \in {Null, proc[p].seen}
     \/ row' # Null /\ rec.seen = ReadOf(row')
  /\ rec.pc = "adopt" => rec.want \in ran

CallsGo == proc' \in [Procs -> Proc] /\ \A p \in Procs : CallGoes(p, proc'[p])

LEMMA CallStays ==
  ASSUME Inv, NEW p \in Procs
  PROVE  CallGoes(p, proc[p])
BY DEF Inv, CallsOK, RanSo, CallGoes

LEMMA OneCallGoes ==
  ASSUME Inv, NEW p \in Procs, NEW rec, CallGoes(p, rec), Step(p, rec)
  PROVE  CallsGo
<1>1. proc \in [Procs -> Proc] /\ proc' = [proc EXCEPT ![p] = rec] /\ rec \in Proc
  BY DEF Inv, CallsOK, Step, CallGoes, ProcOK
<1>2. proc' \in [Procs -> Proc]
  BY <1>1
<1>3. ASSUME NEW q \in Procs PROVE CallGoes(q, proc'[q])
  <2>1. CASE q = p
    BY <1>1, <2>1
  <2>2. CASE q # p
    BY <1>1, <2>2, CallStays
  <2> QED BY <2>1, <2>2
<1> QED BY <1>2, <1>3 DEF CallsGo

LEMMA NoCallGoes ==
  ASSUME Inv, proc' = proc
  PROVE  CallsGo
BY CallStays DEF Inv, CallsOK, CallsGo

\* What a statement hands over, it has read.
HandsOver ==
  /\ sent' \subseteq InHand \cup sent
  /\ queue' \in {Null, queue} \cup InHand

\* The row a statement finds is the only source of what is carried.
LEMMA CarriedFrom ==
  ASSUME Inv, CallsGo, HandsOver, row' \in Row \cup {Null}, NEW m \in InHand'
  PROVE  m \in InHand \/ (row' # Null /\ Said(m, row'))
<1>1. CASE m \in sent'
  BY <1>1 DEF HandsOver, InHand
<1>2. CASE m = queue' /\ m # Null
  BY <1>2 DEF HandsOver, InHand
<1>3. ASSUME NEW p \in Procs, proc'[p].seen # Null, Said(m, proc'[p].seen)
      PROVE  m \in InHand \/ (row' # Null /\ Said(m, row'))
  <2>1. \/ proc'[p].seen = proc[p].seen
        \/ row' # Null /\ proc'[p].seen = ReadOf(row')
    BY <1>3 DEF CallsGo, CallGoes
  <2>2. CASE proc'[p].seen = proc[p].seen
    BY <1>3, <2>2 DEF InHand, Said
  <2>3. CASE row' # Null /\ proc'[p].seen = ReadOf(row')
    BY <1>3, <2>3, ReadOfType DEF Said
  <2> QED BY <2>1, <2>2, <2>3
<1> QED BY <1>1, <1>2, <1>3 DEF InHand, Said

LEMMA CarriedType ==
  ASSUME Inv, NEW m \in InHand
  PROVE  m \in Message
<1>1. sent \subseteq Message /\ queue \in Message \cup {Null} /\ proc \in [Procs -> Proc]
  BY DEF Inv, DeploymentTypeOK
<1>2. ASSUME NEW p \in Procs, proc[p].seen # Null
      PROVE  {MessageOf(proc[p].seen), ConfigParams(proc[p].seen)} \subseteq Message
  <2>1. proc[p].seen \in Read
    BY <1>1, <1>2 DEF Proc
  <2> QED BY <2>1, SaidType DEF Said
<1> QED BY <1>1, <1>2 DEF InHand

\* A step whose row grows keeps every revision's meaning.
LEMMA MeaningStep ==
  ASSUME Inv, CallsGo, HandsOver, RowKept(row')
  PROVE  OneContent'
<1>1. ASSUME NEW m \in InHand'
      PROVE  /\ row' # Null
             /\ m.revision <= row'.revision
             /\ m.revision = row'.revision => Agrees(row'.content, m.content)
  <2>1. CASE row' # Null /\ Said(m, row')
    <3>1. /\ m.revision = row'.revision /\ Agrees(row'.content, m.content)
          /\ row'.revision \in Nat
      BY <2>1, SaidType DEF RowKept, Row
    <3> QED BY <2>1, <3>1
  <2>2. CASE m \in InHand
    <3>1. /\ row # Null /\ m.revision <= row.revision
          /\ m.revision = row.revision => Agrees(row.content, m.content)
      BY <2>2 DEF Inv, OneContent
    <3>2. /\ row' # Null
          /\ \/ row'.revision > row.revision
             \/ row'.revision = row.revision /\ row'.content = row.content
      BY <3>1 DEF RowKept
    <3>3. m.revision \in Nat /\ row.revision \in Nat /\ row'.revision \in Nat
      <4>1. m \in Message /\ row \in Row /\ row' \in Row
        BY <2>2, <3>1, <3>2, CarriedType DEF Inv, DeploymentTypeOK, RowKept
      <4> QED BY <4>1 DEF Message, Row
    <3> QED BY <3>1, <3>2, <3>3
  <2> QED BY <2>1, <2>2, CarriedFrom DEF RowKept
<1>2. ASSUME NEW m \in InHand', NEW n \in InHand', m.revision = n.revision
      PROVE  \E x \in Content : Agrees(x, m.content) /\ Agrees(x, n.content)
  <2>1. CASE m \in InHand /\ n \in InHand
    BY <1>2, <2>1 DEF Inv, OneContent
  <2>2. CASE row' # Null /\ (Said(m, row') \/ Said(n, row'))
    <3>1. row' \in Row /\ row'.content \in Content
      BY <2>2 DEF RowKept, Row
    <3>2. m.revision = row'.revision /\ n.revision = row'.revision
      BY <1>2, <2>2, <3>1, SaidType
    <3>3. Agrees(row'.content, m.content) /\ Agrees(row'.content, n.content)
      BY <1>1, <3>2
    <3> QED BY <3>1, <3>3
  <2> QED BY <2>1, <2>2, CarriedFrom DEF RowKept
<1>3. \A m \in InHand' :
        /\ row' # Null
        /\ m.revision <= row'.revision
        /\ m.revision = row'.revision => Agrees(row'.content, m.content)
        /\ \A n \in InHand' : m.revision = n.revision =>
             \E x \in Content : Agrees(x, m.content) /\ Agrees(x, n.content)
  BY <1>1, <1>2
<1> QED BY <1>3 DEF OneContent, Agrees

\* A step of a call: the agent and what it has run stay as they are.
Sound ==
  /\ CallsGo
  /\ HandsOver
  /\ RowKept(row')
  /\ Earned(row', adopted')
  /\ adopted' \subseteq 1..MaxRevision
  /\ UNCHANGED <<link, agent, ran, outcome>>
  /\ day' \in Days \cup {Null}
  /\ chan' \in [Calls -> {"none", "open", "closed"}]
  /\ sent \subseteq sent'

\* A step that adopts no report.
LEMMA QuietStep ==
  ASSUME Inv, CallsGo, HandsOver, RowGoes(row'), UNCHANGED agentVars,
         day' \in Days \cup {Null}, chan' \in [Calls -> {"none", "open", "closed"}],
         sent \subseteq sent'
  PROVE  Sound
<1>1. adopted' = adopted /\ UNCHANGED <<link, agent, ran, outcome>>
  BY DEF agentVars
<1> QED BY <1>1 DEF Sound, RowGoes, Inv, DeploymentTypeOK

LEMMA CallStep ==
  ASSUME Inv, Sound
  PROVE  Inv'
<1> USE DEF Sound
<1>1. link' = link /\ agent' = agent /\ ran' = ran /\ outcome' = outcome
  OBVIOUS
<1>2. OneContent'
  BY MeaningStep
<1>3. CallsOK'
  BY DEF CallsGo, CallGoes, CallsOK
<1>4. AppliedWasRun'
  BY <1>1 DEF Earned, AppliedWasRun
<1>5. RanSo'
  <2>1. agent'.content \in ran'
    BY <1>1 DEF Inv, RanSo
  <2>2. \A p \in Procs : proc'[p].pc = "adopt" => proc'[p].want \in ran'
    BY <1>1 DEF CallsGo, CallGoes
  <2>3. \A o \in outcome' : o.status = "applied" =>
          \E m \in sent', x \in ran' : m.revision = o.revision /\ Agrees(x, m.content)
    BY <1>1 DEF Inv, RanSo
  <2> QED BY <2>1, <2>2, <2>3 DEF RanSo, Agrees
<1>6. DeploymentTypeOK'
  <2>1. sent' \subseteq Message /\ queue' \in Message \cup {Null}
    BY CarriedType DEF HandsOver, Inv, DeploymentTypeOK
  <2> QED BY <1>1, <2>1 DEF Inv, DeploymentTypeOK, RowKept, CallsGo
<1> QED BY <1>2, <1>3, <1>4, <1>5, <1>6 DEF Inv

-----------------------------------------------------------------------------
(* The statements, one by one. *)

\* A statement that changes nothing but the variables of its call.
LEMMA LocalStep ==
  ASSUME Inv, NEW p \in Procs, NEW rec, Step(p, rec), ProcOK(rec),
         \/ rec.seen \in {Null, proc[p].seen}
         \/ row # Null /\ rec.seen = ReadOf(row),
         rec.pc = "adopt" => rec.want \in ran,
         UNCHANGED <<row, queue, sent, agentVars>>,
         day' \in Days \cup {Null}, chan' \in [Calls -> {"none", "open", "closed"}]
  PROVE  Sound
<1>1. CallGoes(p, rec)
  BY DEF CallGoes
<1>2. CallsGo
  BY <1>1, OneCallGoes
<1>3. RowGoes(row')
  BY RowStays
<1>4. HandsOver
  BY DEF HandsOver
<1> QED BY <1>2, <1>3, <1>4, QuietStep

LEMMA GoToOK ==
  ASSUME NEW me, ProcOK(me), NEW pc \in Pcs \ {"save", "adopt"}, NEW rec,
         rec = [me EXCEPT !.pc = pc],
         pc \in HasRead => me.seen # Null,
         pc \in Reads => /\ me.op \in ReadOps
                         /\ me.op = "update" => me.want # Null,
         pc \in {"subscribe", "select"} => me.op = "watch"
  PROVE  ProcOK(rec) /\ rec.seen = me.seen /\ rec.pc = pc
<1>1. /\ rec \in Proc /\ rec.pc = pc /\ rec.op = me.op /\ rec.seen = me.seen
      /\ rec.want = me.want
  BY GoToType DEF ProcOK
<1> QED BY <1>1 DEF ProcOK

LEMMA ReadClientSound ==
  ASSUME Inv, NEW p \in Procs, ReadClient(p)
  PROVE  Sound
<1> DEFINE me == proc[p]
           a == [me EXCEPT !.pc = "row"]
           rec == [me EXCEPT !.pc = "row", !.day = day]
<1>1. ProcOK(me) /\ me.pc = "client" /\ day \in Days \cup {Null}
  BY DEF Inv, CallsOK, ReadClient, DeploymentTypeOK
<1>2. ProcOK(a) /\ a.seen = me.seen /\ a.pc = "row"
  <2> HIDE DEF me
  <2> QED BY <1>1, GoToOK DEF ProcOK, Reads, HasRead, Pcs
<1>3. rec = [a EXCEPT !.day = day]
  OBVIOUS
<1>4. Step(p, rec)
  BY DEF ReadClient
<1> HIDE DEF a, rec
<1>5. ProcOK(rec) /\ rec.seen = me.seen /\ rec.pc = "row"
  BY <1>1, <1>2, <1>3, DayType DEF ProcOK
<1> QED BY <1>1, <1>4, <1>5, LocalStep DEF ReadClient, Inv, DeploymentTypeOK

LEMMA ReadRowSound ==
  ASSUME Inv, NEW p \in Procs, ReadRow(p)
  PROVE  Sound
<1> DEFINE me == proc[p]
           rec == IF row = Null THEN Continue(me, Null)
                  ELSE [me EXCEPT !.seen = ReadOf(row),
                          !.pc = IF row.content.day = DayOf(me.day)
                                   THEN "final" ELSE "repair"]
<1>1. /\ ProcOK(me) /\ me.pc = "row" /\ day \in Days \cup {Null}
      /\ row \in Row \cup {Null} /\ chan' = chan /\ day' = day
      /\ chan \in [Calls -> {"none", "open", "closed"}]
      /\ UNCHANGED <<row, queue, sent, agentVars>>
  BY DEF Inv, CallsOK, ReadRow, DeploymentTypeOK
<1>2. Step(p, rec)
  BY DEF ReadRow
<1> HIDE DEF me
<1>3. CASE row = Null
  <2>1. rec = Continue(me, Null)
    BY <1>3
  <2> HIDE DEF rec
  <2>2. ProcOK(rec) /\ rec.seen = Null /\ rec.pc # "adopt"
    BY <1>1, <2>1, ContinueOK DEF Reads
  <2> QED BY <1>1, <1>2, <2>2, LocalStep
<1>4. CASE row # Null
  <2> DEFINE pc == IF row.content.day = DayOf(me.day) THEN "final" ELSE "repair"
             a == [me EXCEPT !.seen = ReadOf(row)]
  <2>1. rec = [a EXCEPT !.pc = pc]
    BY <1>4
  <2>2. ReadOf(row) \in Read /\ ReadOf(row) # Null
    BY <1>1, <1>4, ReadOfType, NullAssumption
  <2>3. /\ a \in Proc /\ a.seen = ReadOf(row) /\ a.pc = me.pc /\ a.op = me.op
        /\ a.want = me.want
    BY <1>1, <2>2, SeenType DEF ProcOK
  <2>4. pc \in {"final", "repair"}
    OBVIOUS
  <2> HIDE DEF a, pc, rec
  <2>5. /\ rec \in Proc /\ rec.pc = pc /\ rec.op = me.op /\ rec.seen = ReadOf(row)
        /\ rec.want = me.want
    BY <2>1, <2>3, <2>4, GoToType DEF Pcs
  <2>6. ProcOK(rec) /\ rec.pc # "adopt"
    BY <1>1, <2>2, <2>4, <2>5 DEF ProcOK, Reads, HasRead
  <2> QED BY <1>1, <1>2, <1>4, <2>5, <2>6, LocalStep
<1> QED BY <1>3, <1>4

\* A call that has read a row finds one.
LEMMA RowExists ==
  ASSUME Inv, NEW p \in Procs, proc[p].pc \in HasRead
  PROVE  row # Null /\ row \in Row /\ proc[p].seen \in Read
         /\ {MessageOf(proc[p].seen), ConfigParams(proc[p].seen)} \subseteq InHand
<1>1. proc[p].seen # Null /\ proc[p].seen \in Read
  BY DEF Inv, CallsOK, ProcOK, Proc
<1>2. {MessageOf(proc[p].seen), ConfigParams(proc[p].seen)} \subseteq InHand
  BY <1>1 DEF InHand
<1>3. row # Null
  BY <1>2 DEF Inv, OneContent
<1> QED BY <1>1, <1>2, <1>3 DEF Inv, DeploymentTypeOK

LEMMA RepairSound ==
  ASSUME Inv, NEW p \in Procs, Repair(p)
  PROVE  Sound
<1> DEFINE me == proc[p]
           rec == [me EXCEPT !.pc = "final"]
<1>1. /\ ProcOK(me) /\ me.pc = "repair" /\ day \in Days \cup {Null}
      /\ chan' = chan /\ day' = day
      /\ chan \in [Calls -> {"none", "open", "closed"}]
      /\ UNCHANGED <<queue, sent, agentVars>>
      /\ row.revision < MaxRevision
      /\ row' = Reconciled(row, me.day)
      /\ Step(p, rec)
      /\ me.day \in Days \cup {Null}
  BY DEF Inv, CallsOK, Repair, DeploymentTypeOK, Proc
<1>2. row # Null
  BY <1>1, RowExists DEF HasRead
<1>3. RowGoes(row')
  BY <1>1, <1>2, ReconciledGoes
<1>4. ProcOK(rec) /\ rec.seen = me.seen /\ rec.pc = "final"
  <2> HIDE DEF me
  <2> QED BY <1>1, GoToOK DEF ProcOK, Reads, HasRead, Pcs
<1> HIDE DEF rec
<1>5. CallsGo
  <2>1. CallGoes(p, rec)
    BY <1>4 DEF CallGoes
  <2> QED BY <1>1, <2>1, OneCallGoes
<1> QED BY <1>1, <1>3, <1>5, QuietStep DEF HandsOver

LEMMA RepairConflictSound ==
  ASSUME Inv, NEW p \in Procs, RepairConflict(p)
  PROVE  Sound
<1> DEFINE me == proc[p]
           again == [me EXCEPT !.pc = "client", !.seen = Null, !.day = Null,
                               !.attempt = @ + 1]
           rec == IF me.attempt = MaxAttempts
                    THEN IF me.op = "enroll" THEN Continue(me, Null) ELSE Idle
                  ELSE again
<1>1. /\ ProcOK(me) /\ me.pc = "repair" /\ day \in Days \cup {Null}
      /\ day' = day
      /\ chan' \in [Calls -> {"none", "open", "closed"}]
      /\ UNCHANGED <<row, queue, sent, agentVars>>
      /\ Step(p, rec)
  BY DEF Inv, CallsOK, RepairConflict, DeploymentTypeOK
<1>2. ProcOK(Idle) /\ Idle.seen = Null /\ Idle.pc # "adopt"
  BY IdleOK
<1> HIDE DEF me
<1>3. ProcOK(Continue(me, Null)) /\ Continue(me, Null).seen = Null
      /\ Continue(me, Null).pc # "adopt"
  BY <1>1, ContinueOK DEF Reads
<1>4. me.attempt # MaxAttempts => ProcOK(again) /\ again.seen = Null /\ again.pc # "adopt"
  <2> SUFFICES ASSUME me.attempt # MaxAttempts
               PROVE  ProcOK(again) /\ again.seen = Null /\ again.pc # "adopt"
    OBVIOUS
  <2> DEFINE a == [me EXCEPT !.pc = "client"]
             b == [a EXCEPT !.seen = Null]
             c == [b EXCEPT !.day = Null]
  <2>1. me.attempt + 1 \in 1..MaxAttempts
    BY <1>1, DeploymentDeliveryAssumption DEF ProcOK, Proc
  <2>2. again = [c EXCEPT !.attempt = me.attempt + 1]
    BY <1>1 DEF ProcOK, Proc
  <2> HIDE DEF again
  <2>3. a \in Proc /\ a.pc = "client" /\ a.op = me.op /\ a.want = me.want
    BY <1>1, GoToType DEF ProcOK, Pcs
  <2> HIDE DEF a
  <2>4. b \in Proc /\ b.pc = "client" /\ b.op = me.op /\ b.want = me.want /\ b.seen = Null
    BY <2>3, SeenType
  <2> HIDE DEF b
  <2>5. c \in Proc /\ c.pc = "client" /\ c.op = me.op /\ c.want = me.want /\ c.seen = Null
    BY <2>4, DayType
  <2> HIDE DEF c
  <2>6. /\ again \in Proc /\ again.pc = "client" /\ again.op = me.op
        /\ again.want = me.want /\ again.seen = Null
    BY <2>1, <2>2, <2>5, AttemptType
  <2> QED BY <1>1, <2>6 DEF ProcOK, Reads, HasRead
<1>5. ProcOK(rec) /\ rec.seen = Null /\ rec.pc # "adopt"
  <2> HIDE DEF again
  <2> QED BY <1>2, <1>3, <1>4
<1> HIDE DEF rec
<1> QED BY <1>1, <1>5, LocalStep

LEMMA ReadFinalSound ==
  ASSUME Inv, NEW p \in Procs, ReadFinal(p)
  PROVE  Sound
<1> DEFINE me == proc[p]
           rec == Continue(me, ReadOf(row))
<1>1. /\ ProcOK(me) /\ me.pc = "final" /\ day \in Days \cup {Null}
      /\ chan' = chan /\ day' = day
      /\ chan \in [Calls -> {"none", "open", "closed"}]
      /\ UNCHANGED <<row, queue, sent, agentVars>>
      /\ Step(p, rec)
  BY DEF Inv, CallsOK, ReadFinal, DeploymentTypeOK
<1>2. row # Null /\ ReadOf(row) \in Read
  BY <1>1, RowExists, ReadOfType DEF HasRead
<1> HIDE DEF me
<1>3. ProcOK(rec) /\ rec.seen \in {Null, ReadOf(row)} /\ rec.pc # "adopt"
  BY <1>1, <1>2, ContinueOK DEF Reads
<1> HIDE DEF rec
<1> QED BY <1>1, <1>2, <1>3, LocalStep

\* A call begins, with no row read.
Beginning(o, pc) == [Idle EXCEPT !.op = o, !.pc = pc]

LEMMA BeginType ==
  ASSUME NEW o \in Ops, NEW pc \in Pcs
  PROVE  /\ Beginning(o, pc) \in Proc
         /\ Beginning(o, pc).op = o /\ Beginning(o, pc).pc = pc
         /\ Beginning(o, pc).seen = Null /\ Beginning(o, pc).want = Null
<1> DEFINE b == [Idle EXCEPT !.op = o]
           a == [b EXCEPT !.pc = pc]
<1>1. Idle \in Proc /\ Idle.seen = Null /\ Idle.want = Null
  BY IdleOK DEF ProcOK, Idle
<1>2. Beginning(o, pc) = a
  BY DEF Beginning
<1>3. b \in Proc /\ b.op = o /\ b.seen = Null /\ b.want = Null
  BY <1>1, OpType
<1> HIDE DEF b
<1>4. a \in Proc /\ a.op = o /\ a.pc = pc /\ a.seen = Null /\ a.want = Null
  BY <1>3, GoToType
<1> QED BY <1>2, <1>4

LEMMA EditSound ==
  ASSUME Inv, NEW a \in Admins, NEW d \in Edits, Edit(a, d)
  PROVE  Sound
<1> DEFINE rec == Beginning("edit", "client")
<1>1. /\ RevisionOf(row) < MaxRevision
      /\ Step(a, rec) /\ day' = d /\ d \in Days \cup {Null}
      /\ row' = IF row = Null THEN Null ELSE Reconciled(row, d)
      /\ UNCHANGED <<chan, queue, sent, agentVars>>
      /\ chan \in [Calls -> {"none", "open", "closed"}]
      /\ a \in Procs
  BY DeploymentDeliveryAssumption
     DEF Edit, Start, Procs, Inv, DeploymentTypeOK, Beginning
<1>2. rec \in Proc /\ rec.op = "edit" /\ rec.pc = "client" /\ rec.seen = Null
  BY BeginType DEF Ops, Pcs
<1> HIDE DEF rec
<1>3. ProcOK(rec)
  BY <1>2 DEF ProcOK, Reads, HasRead, ReadOps
<1>4. CallsGo
  <2>1. CallGoes(a, rec)
    BY <1>2, <1>3 DEF CallGoes
  <2> QED BY <1>1, <2>1, OneCallGoes
<1>5. RowGoes(row')
  <2>1. CASE row = Null
    BY <1>1, <2>1, RowStays
  <2>2. CASE row # Null
    BY <1>1, <2>2, ReconciledGoes DEF RevisionOf
  <2> QED BY <2>1, <2>2
<1> QED BY <1>1, <1>4, <1>5, QuietStep DEF HandsOver

LEMMA RevisionOfType ==
  ASSUME Inv
  PROVE  RevisionOf(row) \in 0..MaxRevision
BY DeploymentDeliveryAssumption DEF RevisionOf, Inv, DeploymentTypeOK, Row

LEMMA UpdateSound ==
  ASSUME Inv, NEW a \in Admins, NEW request \in Requests, NEW force \in BOOLEAN,
         Update(a, request, force)
  PROVE  Sound
<1> DEFINE b == Beginning("update", "client")
           c == [b EXCEPT !.known = RevisionOf(row)]
           d == [c EXCEPT !.want = request]
           rec == [Idle EXCEPT !.op = "update", !.pc = "client",
                               !.known = RevisionOf(row), !.want = request,
                               !.force = force]
<1>1. /\ Step(a, rec) /\ day' = day /\ day \in Days \cup {Null}
      /\ UNCHANGED <<row, queue, sent, agentVars>>
      /\ chan' \in [Calls -> {"none", "open", "closed"}]
      /\ a \in Procs
  BY DEF Update, Start, Procs, Inv, DeploymentTypeOK
<1>2. b \in Proc /\ b.op = "update" /\ b.pc = "client" /\ b.seen = Null
  BY BeginType DEF Ops, Pcs
<1>3. rec = [d EXCEPT !.force = force]
  BY DEF Beginning
<1> HIDE DEF b, rec
<1>4. c \in Proc /\ c.op = "update" /\ c.pc = "client" /\ c.seen = Null
  BY <1>2, RevisionOfType, KnownType
<1> HIDE DEF c
<1>5. d \in Proc /\ d.op = "update" /\ d.pc = "client" /\ d.seen = Null /\ d.want = request
  BY <1>4, WantedType
<1> HIDE DEF d
<1>6. /\ rec \in Proc /\ rec.op = "update" /\ rec.pc = "client" /\ rec.seen = Null
      /\ rec.want = request
  BY <1>3, <1>5, ForceType
<1>7. request # Null
  BY DeploymentDeliveryAssumption
<1>8. ProcOK(rec)
  BY <1>6, <1>7 DEF ProcOK, Reads, HasRead, ReadOps
<1> QED BY <1>1, <1>6, <1>8, LocalStep

LEMMA SaveWholeSound ==
  ASSUME Inv, NEW a \in Admins, NEW request \in Requests, NEW force \in BOOLEAN,
         SaveWhole(a, request, force)
  PROVE  Sound
<1> DEFINE w == Merge(request, IF row = Null THEN DefaultContent(day) ELSE row.content)
           b == Beginning("save", "save")
           c == [b EXCEPT !.force = force]
           rec == [Idle EXCEPT !.op = "save", !.pc = "save", !.force = force, !.want = w]
<1>1. /\ Step(a, rec) /\ day' = day /\ day \in Days \cup {Null}
      /\ UNCHANGED <<row, queue, sent, agentVars>>
      /\ chan' \in [Calls -> {"none", "open", "closed"}]
      /\ a \in Procs
  BY DEF SaveWhole, Start, Procs, Inv, DeploymentTypeOK
<1>2. b \in Proc /\ b.pc = "save" /\ b.seen = Null
  BY BeginType DEF Ops, Pcs
<1>3. rec = [c EXCEPT !.want = w]
  BY DEF Beginning
<1>4. w \in Content
  <2>1. request \in Asked
    BY DeploymentDeliveryAssumption DEF Asked
  <2>2. row # Null => row.content \in Content
    BY DEF Inv, DeploymentTypeOK, Row
  <2> QED BY <1>1, <2>1, <2>2, MergeType, DefaultContentType
<1> HIDE DEF b, rec, w
<1>5. c \in Proc /\ c.pc = "save" /\ c.seen = Null
  BY <1>2, ForceType
<1> HIDE DEF c
<1>6. rec \in Proc /\ rec.pc = "save" /\ rec.seen = Null /\ rec.want = w
  BY <1>3, <1>4, <1>5, WantedType
<1>7. ProcOK(rec)
  BY <1>4, <1>6 DEF ProcOK, Reads, HasRead
<1> QED BY <1>1, <1>6, <1>7, LocalStep

LEMMA ReadBeginsSound ==
  ASSUME Inv, NEW p \in Procs, NEW o \in {"rollback", "enroll"},
         Step(p, [Idle EXCEPT !.op = o, !.pc = "client"]),
         UNCHANGED <<day, row, chan, queue, sent, agentVars>>
  PROVE  Sound
<1> DEFINE rec == Beginning(o, "client")
<1>1. rec \in Proc /\ rec.op = o /\ rec.pc = "client" /\ rec.seen = Null
  BY BeginType DEF Ops, Pcs
<1>2. Step(p, rec)
  BY DEF Beginning
<1> HIDE DEF rec
<1>3. ProcOK(rec)
  BY <1>1 DEF ProcOK, Reads, HasRead, ReadOps
<1> QED BY <1>1, <1>2, <1>3, LocalStep DEF Inv, DeploymentTypeOK

LEMMA AdminBeginsSound ==
  ASSUME Inv, NEW a \in Admins, AdminBegins(a)
  PROVE  Sound
<1>1. a \in Procs
  BY DEF Procs
<1>2. ASSUME RollbackOnlineConfig(a) \/ ApproveEnrollment(a) PROVE Sound
  BY <1>1, <1>2, ReadBeginsSound DEF RollbackOnlineConfig, ApproveEnrollment, Start
<1> QED BY <1>2, EditSound, UpdateSound, SaveWholeSound DEF AdminBegins

LEMMA ReadingSound ==
  ASSUME Inv, NEW p \in Procs, Reading(p)
  PROVE  Sound
BY ReadClientSound, ReadRowSound, RepairSound, RepairConflictSound, ReadFinalSound
   DEF Reading

LEMMA SaveProfileSound ==
  ASSUME Inv, NEW a \in Admins, SaveProfile(a)
  PROVE  Sound
<1> DEFINE me == proc[a]
           new == Saved(me.want, me.force)
           rec == [me EXCEPT !.pc = "hasWatch", !.seen = ReadOf(new),
                             !.want = Null, !.force = FALSE, !.known = 0]
           next == IF RuntimeChanged(me.want, me.force) THEN rec ELSE Idle
<1>1. /\ ProcOK(me) /\ me.pc = "save" /\ a \in Procs
      /\ RevisionOf(row) < MaxRevision
      /\ day' = me.want.day /\ row' = new /\ Step(a, next)
      /\ UNCHANGED <<chan, queue, sent, agentVars>>
      /\ chan \in [Calls -> {"none", "open", "closed"}]
  BY DEF Inv, CallsOK, SaveProfile, DeploymentTypeOK, Procs
<1> HIDE DEF me
<1>2. me.want \in Content /\ me.want.day \in Days /\ me.force \in BOOLEAN
  BY <1>1 DEF ProcOK, Content, Proc
<1>3. RowGoes(new) /\ new \in Row
  BY <1>1, <1>2, SavedGoes
<1>4. new # Null /\ ReadOf(new) \in Read /\ ReadOf(new) # Null
  BY <1>3, NullAssumption, ReadOfType
<1> HIDE DEF new
<1>5. ProcOK(rec) /\ rec.seen = ReadOf(new) /\ rec.pc # "adopt"
  <2> DEFINE b == [me EXCEPT !.pc = "hasWatch"]
             c == [b EXCEPT !.seen = ReadOf(new)]
             d == [c EXCEPT !.want = Null]
             e == [d EXCEPT !.force = FALSE]
  <2>1. rec = [e EXCEPT !.known = 0] /\ 0 \in 0..MaxRevision
    BY DeploymentDeliveryAssumption
  <2> HIDE DEF rec
  <2>2. b \in Proc /\ b.pc = "hasWatch"
    BY <1>1, GoToType DEF ProcOK, Pcs
  <2> HIDE DEF b
  <2>3. c \in Proc /\ c.pc = "hasWatch" /\ c.seen = ReadOf(new)
    BY <1>4, <2>2, SeenType
  <2> HIDE DEF c
  <2>4. d \in Proc /\ d.pc = "hasWatch" /\ d.seen = ReadOf(new)
    BY <2>3, WantedType
  <2> HIDE DEF d
  <2>5. e \in Proc /\ e.pc = "hasWatch" /\ e.seen = ReadOf(new)
    BY <2>4, ForceType
  <2> HIDE DEF e
  <2>6. rec \in Proc /\ rec.pc = "hasWatch" /\ rec.seen = ReadOf(new)
    BY <2>1, <2>5, KnownType
  <2> QED BY <1>4, <2>6 DEF ProcOK, Reads
<1> HIDE DEF rec
<1>6. /\ ProcOK(next) /\ next.pc # "adopt"
      /\ next.seen = Null \/ next.seen = ReadOf(row')
  BY <1>1, <1>5, IdleOK
<1> HIDE DEF next
<1>7. CallsGo
  <2>1. CallGoes(a, next)
    BY <1>1, <1>4, <1>6 DEF CallGoes
  <2> QED BY <1>1, <2>1, OneCallGoes
<1> QED BY <1>1, <1>2, <1>3, <1>7, QuietStep DEF HandsOver

LEMMA HasWatchSound ==
  ASSUME Inv, NEW a \in Admins, HasWatch(a)
  PROVE  Sound
<1> DEFINE me == proc[a]
           found == \E c \in Calls : Registered(c)
           b == [me EXCEPT !.pc = "signal"]
           rec == [me EXCEPT !.pc = "signal", !.watched = found]
<1>1. /\ ProcOK(me) /\ me.pc = "hasWatch" /\ a \in Procs
      /\ Step(a, rec)
      /\ UNCHANGED <<row, queue, sent, agentVars>>
      /\ day' \in Days \cup {Null}
      /\ chan' \in [Calls -> {"none", "open", "closed"}]
  BY DEF Inv, CallsOK, HasWatch, DeploymentTypeOK, Procs
<1>2. rec = [b EXCEPT !.watched = found]
  OBVIOUS
<1>3. found \in BOOLEAN
  OBVIOUS
<1>4. ProcOK(b) /\ b.seen = me.seen /\ b.pc = "signal"
  <2> HIDE DEF me
  <2> QED BY <1>1, GoToOK DEF ProcOK, Reads, HasRead, Pcs
<1> HIDE DEF b, rec, found
<1>5. ProcOK(rec) /\ rec.seen = me.seen /\ rec.pc = "signal"
  BY <1>2, <1>3, <1>4, ForceType DEF ProcOK
<1> QED BY <1>1, <1>5, LocalStep

LEMMA SignalSound ==
  ASSUME Inv, NEW a \in Admins, Signal(a)
  PROVE  Sound
<1> DEFINE me == proc[a]
           on == [me EXCEPT !.pc = "transport"]
           rec == IF me.watched THEN Idle ELSE on
<1>1. /\ ProcOK(me) /\ me.pc = "signal" /\ a \in Procs
      /\ Step(a, rec)
      /\ UNCHANGED <<row, queue, sent, agentVars>>
      /\ day' \in Days \cup {Null}
      /\ chan' \in [Calls -> {"none", "open", "closed"}]
  BY DEF Inv, CallsOK, Signal, DeploymentTypeOK, Procs
<1>2. ProcOK(on) /\ on.seen = me.seen /\ on.pc = "transport"
  <2> HIDE DEF me
  <2> QED BY <1>1, GoToOK DEF ProcOK, Reads, HasRead, Pcs
<1> HIDE DEF on
<1>3. ProcOK(rec) /\ rec.seen \in {Null, me.seen} /\ rec.pc # "adopt"
  BY <1>2, IdleOK
<1> HIDE DEF rec
<1> QED BY <1>1, <1>3, LocalStep

\* A statement that may hand over what its call has read.
LEMMA HandingStep ==
  ASSUME Inv, NEW p \in Procs, proc[p].pc \in HasRead, NEW rec, Step(p, rec),
         ProcOK(rec), rec.seen \in {Null, proc[p].seen}, rec.pc # "adopt",
         sent' \in {sent, sent \cup {MessageOf(proc[p].seen)},
                   sent \cup {ConfigParams(proc[p].seen)}},
         queue' \in {queue, ConfigParams(proc[p].seen)},
         RowGoes(row'),
         UNCHANGED <<day, agentVars>>, chan' \in [Calls -> {"none", "open", "closed"}]
  PROVE  Sound
<1>1. CallsGo
  <2>1. CallGoes(p, rec)
    BY DEF CallGoes
  <2> QED BY <2>1, OneCallGoes
<1>2. {MessageOf(proc[p].seen), ConfigParams(proc[p].seen)} \subseteq InHand
  BY RowExists
<1>3. HandsOver
  BY <1>2 DEF HandsOver
<1> QED BY <1>1, <1>3, QuietStep DEF Inv, DeploymentTypeOK

LEMMA TransportSound ==
  ASSUME Inv, NEW a \in Admins, Transport(a)
  PROVE  Sound
<1> DEFINE me == proc[a]
           to(pc) == [me EXCEPT !.pc = pc]
<1>1. /\ ProcOK(me) /\ me.pc = "transport" /\ a \in Procs
      /\ UNCHANGED <<day, row, agentVars>>
      /\ chan' \in [Calls -> {"none", "open", "closed"}]
      /\ me.pc \in HasRead
  BY DEF Inv, CallsOK, Transport, DeploymentTypeOK, Procs, HasRead
<1>2. \/ Step(a, Idle) \/ Step(a, to("markSent"))
      \/ Step(a, to("upgrade-required")) \/ Step(a, to("offline"))
  BY DEF Transport, End
<1>3. /\ sent' \in {sent, sent \cup {ConfigParams(me.seen)}}
      /\ queue' \in {queue, ConfigParams(me.seen)}
  BY DEF Transport
<1>4. ASSUME NEW pc \in {"markSent", "upgrade-required", "offline"}
      PROVE  ProcOK(to(pc)) /\ to(pc).seen = me.seen /\ to(pc).pc = pc
  <2> HIDE DEF me
  <2> QED BY <1>1, GoToOK DEF ProcOK, Reads, HasRead, Pcs
<1>5. RowGoes(row')
  BY <1>1, RowStays
<1> HIDE DEF to
<1>6. CASE Step(a, Idle)
  BY <1>1, <1>3, <1>5, <1>6, IdleOK, HandingStep
<1>7. ASSUME NEW pc \in {"markSent", "upgrade-required", "offline"}, Step(a, to(pc))
      PROVE  Sound
  BY <1>1, <1>3, <1>4, <1>5, <1>7, HandingStep
<1> QED BY <1>2, <1>6, <1>7

LEMMA DispatchMarkSound ==
  ASSUME Inv, NEW a \in Admins, DispatchMark(a)
  PROVE  Sound
<1>1. /\ proc[a].pc \in {"markSent", "offline", "upgrade-required"} /\ a \in Procs
      /\ row' = IF proc[a].pc = "markSent" THEN MarkSent(proc[a].seen.revision)
                ELSE MarkUnavailable(proc[a].seen.revision, proc[a].pc)
      /\ Step(a, Idle)
      /\ UNCHANGED <<day, queue, sent, agentVars>>
      /\ chan' \in [Calls -> {"none", "open", "closed"}]
  BY DEF DispatchMark, End, Procs, Inv, DeploymentTypeOK
<1>2. RowGoes(row')
  BY <1>1, MarkSentGoes, MarkUnavailableGoes
<1> QED BY <1>1, <1>2, IdleOK, HandingStep DEF HasRead

LEMMA AdminGoesOnSound ==
  ASSUME Inv, NEW a \in Admins, AdminGoesOn(a)
  PROVE  Sound
BY ReadingSound, SaveProfileSound, HasWatchSound, SignalSound, TransportSound,
   DispatchMarkSound DEF AdminGoesOn, Procs

LEMMA AskSound ==
  ASSUME Inv, NEW c \in Calls, GetDesiredConfig(c) \/ WatchDesiredConfig(c)
  PROVE  Sound
<1> DEFINE b(o, pc) == Beginning(o, pc)
           rec(o, pc) == [b(o, pc) EXCEPT !.known = agent.revision]
<1>1. /\ Step(c, rec("poll", "client")) \/ Step(c, rec("watch", "subscribe"))
      /\ UNCHANGED <<row, queue, sent, agentVars>>
      /\ day' \in Days \cup {Null} /\ c \in Procs
      /\ chan' \in [Calls -> {"none", "open", "closed"}]
      /\ agent.revision \in 0..MaxRevision
  BY DEF GetDesiredConfig, WatchDesiredConfig, Start, Beginning, Procs, Inv,
         DeploymentTypeOK, Message
<1>2. ASSUME NEW o \in {"poll", "watch"}, NEW pc \in {"client", "subscribe"}
      PROVE  /\ rec(o, pc) \in Proc /\ rec(o, pc).op = o /\ rec(o, pc).pc = pc
             /\ rec(o, pc).seen = Null
  <2>1. b(o, pc) \in Proc /\ b(o, pc).op = o /\ b(o, pc).pc = pc /\ b(o, pc).seen = Null
    BY BeginType DEF Ops, Pcs
  <2> HIDE DEF b
  <2> QED BY <1>1, <2>1, KnownType
<1> HIDE DEF rec
<1>3. /\ ProcOK(rec("poll", "client")) /\ ProcOK(rec("watch", "subscribe"))
      /\ rec("poll", "client").seen = Null /\ rec("watch", "subscribe").seen = Null
      /\ rec("poll", "client").pc # "adopt" /\ rec("watch", "subscribe").pc # "adopt"
  BY <1>2 DEF ProcOK, Reads, HasRead, ReadOps
<1> QED BY <1>1, <1>3, LocalStep

LEMMA BasicInfoSound ==
  ASSUME Inv, NEW c \in Calls, BasicInfo(c)
  PROVE  Sound
<1> DEFINE pc == IF link = "old" THEN "client" ELSE "adopt"
           a == [Idle EXCEPT !.op = "basic"]
           b == [a EXCEPT !.want = agent.content]
           rec == [Idle EXCEPT !.op = "basic", !.want = agent.content, !.pc = pc]
<1>1. /\ Step(c, rec)
      /\ UNCHANGED <<row, queue, sent, agentVars>>
      /\ day' \in {day, agent.content.day}
      /\ c \in Procs
      /\ chan' \in [Calls -> {"none", "open", "closed"}]
  BY DEF BasicInfo, Start, Procs, Inv, DeploymentTypeOK
<1>2. agent.content \in Content /\ agent.content.day \in Days /\ agent.content \in ran
  BY DEF Inv, DeploymentTypeOK, Content, RanSo
<1>3. day' \in Days \cup {Null}
  BY <1>1, <1>2 DEF Inv, DeploymentTypeOK
<1>4. rec = [b EXCEPT !.pc = pc] /\ pc \in {"client", "adopt"}
  OBVIOUS
<1>5. Idle \in Proc /\ Idle.seen = Null
  BY IdleOK DEF ProcOK
<1> HIDE DEF rec, pc
<1>6. a \in Proc /\ a.seen = Null /\ a.op = "basic"
  BY <1>5, OpType DEF Ops
<1> HIDE DEF a
<1>7. b \in Proc /\ b.seen = Null /\ b.op = "basic" /\ b.want = agent.content
  BY <1>2, <1>6, WantedType
<1> HIDE DEF b
<1>8. /\ rec \in Proc /\ rec.seen = Null /\ rec.op = "basic" /\ rec.want = agent.content
      /\ rec.pc = pc
  BY <1>4, <1>7, GoToType DEF Pcs
<1>9. ProcOK(rec)
  BY <1>2, <1>4, <1>8 DEF ProcOK, Reads, HasRead, ReadOps
<1> QED BY <1>1, <1>2, <1>3, <1>8, <1>9, LocalStep

LEMMA AnswerPollSound ==
  ASSUME Inv, NEW c \in Calls, AnswerPoll(c) \/ MarkWatch(c)
  PROVE  Sound
<1>1. /\ proc[c].pc \in HasRead /\ c \in Procs
      /\ row' = MarkSent(proc[c].seen.revision)
      /\ sent' \in {sent, sent \cup {MessageOf(proc[c].seen)}}
      /\ Step(c, Idle)
      /\ UNCHANGED <<day, queue, agentVars>>
      /\ chan' \in [Calls -> {"none", "open", "closed"}]
  BY DEF AnswerPoll, MarkWatch, End, Procs, Inv, DeploymentTypeOK, HasRead
<1>2. RowGoes(row')
  BY <1>1, MarkSentGoes
<1> QED BY <1>1, <1>2, IdleOK, HandingStep

LEMMA SendSound ==
  ASSUME Inv, NEW c \in Calls, Send(c) \/ SendFails(c)
  PROVE  Sound
<1> DEFINE me == proc[c]
           mark == [me EXCEPT !.pc = "markSent"]
<1>1. /\ ProcOK(me) /\ me.pc = "send" /\ me.pc \in HasRead /\ c \in Procs
      /\ sent' \in {sent, sent \cup {MessageOf(me.seen)}, sent \cup {ConfigParams(me.seen)}}
      /\ UNCHANGED <<day, row, queue, agentVars>>
      /\ chan' \in [Calls -> {"none", "open", "closed"}]
      /\ Step(c, Idle) \/ Step(c, mark)
  BY DEF Send, SendFails, End, Procs, Inv, CallsOK, DeploymentTypeOK, HasRead
<1>2. ProcOK(mark) /\ mark.seen = me.seen /\ mark.pc = "markSent"
  <2> HIDE DEF me
  <2> QED BY <1>1, GoToOK DEF ProcOK, Reads, HasRead, Pcs
<1>3. RowGoes(row')
  BY <1>1, RowStays
<1> HIDE DEF mark
<1> QED BY <1>1, <1>2, <1>3, IdleOK, HandingStep

LEMMA WaitSound ==
  ASSUME Inv, NEW c \in Calls, Subscribe(c) \/ Wake(c) \/ Cancel(c)
  PROVE  Sound
<1> DEFINE me == proc[c]
           to(pc) == [me EXCEPT !.pc = pc]
<1>1. /\ ProcOK(me) /\ me.pc \in {"subscribe", "select"} /\ c \in Procs
      /\ UNCHANGED <<row, queue, sent, agentVars>>
      /\ day' \in Days \cup {Null}
      /\ chan' \in [Calls -> {"none", "open", "closed"}]
      /\ Step(c, to("client")) \/ Step(c, to("subscribe")) \/ Step(c, Idle)
  BY DEF Subscribe, Wake, Cancel, End, Procs, Inv, CallsOK, DeploymentTypeOK
<1>2. ASSUME NEW pc \in {"client", "subscribe"}
      PROVE  ProcOK(to(pc)) /\ to(pc).seen = me.seen /\ to(pc).pc = pc
  <2> HIDE DEF me
  <2> QED BY <1>1, GoToOK DEF ProcOK, Reads, HasRead, Pcs, ReadOps
<1>3. /\ ProcOK(to("client")) /\ to("client").seen = me.seen /\ to("client").pc # "adopt"
      /\ ProcOK(to("subscribe")) /\ to("subscribe").seen = me.seen
      /\ to("subscribe").pc # "adopt"
  <2> HIDE DEF to
  <2> QED BY <1>2
<1> HIDE DEF to
<1> QED BY <1>1, <1>3, IdleOK, LocalStep

LEMMA AdoptSound ==
  ASSUME Inv, NEW c \in Calls, AdoptRuntime(c) \/ SkipAdopt(c)
  PROVE  Sound
<1> DEFINE me == proc[c]
           a == [me EXCEPT !.pc = "client"]
           rec == [me EXCEPT !.pc = "client", !.want = Null]
<1>1. /\ ProcOK(me) /\ me.pc = "adopt" /\ c \in Procs
      /\ me.want \in Content /\ me.want \in ran /\ me.op = "basic"
      /\ day \in Days \cup {Null} /\ chan' \in [Calls -> {"none", "open", "closed"}]
      /\ UNCHANGED <<queue, sent, link, agent, ran, outcome>>
      /\ Step(c, rec)
  BY DEF AdoptRuntime, SkipAdopt, Procs, Inv, CallsOK, ProcOK, DeploymentTypeOK, RanSo,
         agentVars
<1>2. Reported(me) \in Content /\ Reported(me).runtime = me.want.runtime
  <2> HIDE DEF me
  <2> QED BY <1>1, ReportedType
<1>3. Reported(me).day \in Days
  BY <1>2 DEF Content
<1>4. /\ \/ row' = row /\ adopted' = adopted
         \/ row' = Adopted(Reported(me)) /\ adopted' = ClosedBy(row')
      /\ day' = day \/ day' = Reported(me).day
  BY DEF AdoptRuntime, SkipAdopt, ClosedBy, agentVars
<1>5. RowKept(row') /\ Earned(row', adopted') /\ adopted' \subseteq 1..MaxRevision
  <2> HIDE DEF me
  <2>1. CASE row' = row /\ adopted' = adopted
    BY <2>1, RowStays DEF RowGoes, Inv, DeploymentTypeOK
  <2>2. CASE row' = Adopted(Reported(me)) /\ adopted' = ClosedBy(row')
    BY <1>1, <1>2, <2>2, AdoptedGoes
  <2> QED BY <1>4, <2>1, <2>2
<1>6. ProcOK(rec) /\ rec.seen = me.seen /\ rec.pc # "adopt"
  <2>1. rec = [a EXCEPT !.want = Null]
    OBVIOUS
  <2>2. a \in Proc /\ a.pc = "client" /\ a.op = "basic" /\ a.seen = me.seen
    <3> HIDE DEF me
    <3> QED BY <1>1, GoToType DEF ProcOK, Pcs
  <2> HIDE DEF a, rec
  <2>3. rec \in Proc /\ rec.pc = "client" /\ rec.op = "basic" /\ rec.seen = me.seen
    BY <2>1, <2>2, WantedType
  <2> QED BY <2>3 DEF ProcOK, Reads, HasRead, ReadOps
<1> HIDE DEF rec
<1>7. CallsGo
  <2>1. CallGoes(c, rec)
    BY <1>6 DEF CallGoes
  <2> QED BY <1>1, <2>1, OneCallGoes
<1> QED BY <1>1, <1>3, <1>4, <1>5, <1>7 DEF Sound, HandsOver

LEMMA CallSound ==
  ASSUME Inv, NEW c \in Calls, CallBegins(c) \/ CallGoesOn(c) \/ Cancel(c)
  PROVE  Sound
<1>1. CASE CallBegins(c)
  BY <1>1, AskSound, BasicInfoSound DEF CallBegins
<1>2. CASE CallGoesOn(c) \/ Cancel(c)
  BY <1>2, ReadingSound, AnswerPollSound, SendSound, WaitSound, AdoptSound
     DEF CallGoesOn, Procs
<1> QED BY <1>1, <1>2

-----------------------------------------------------------------------------
(* The agent. *)

LEMMA QueueSound ==
  ASSUME Inv, TakeV2Events \/ DropV2Event \/ (\E o \in outcome : Acknowledge(o))
  PROVE  Sound
<1>1. proc' = proc /\ day' = day /\ chan' = chan /\ UNCHANGED agentVars
  BY DEF TakeV2Events, DropV2Event, Acknowledge
<1>2. CallsGo
  BY <1>1, NoCallGoes
<1>3. RowGoes(row')
  BY RowStays, CompletedGoes DEF TakeV2Events, DropV2Event, Acknowledge
<1>4. HandsOver /\ sent \subseteq sent'
  BY DEF TakeV2Events, DropV2Event, Acknowledge, HandsOver, InHand
<1> QED BY <1>1, <1>2, <1>3, <1>4, QuietStep DEF Inv, DeploymentTypeOK

LEMMA ApplyingType ==
  ASSUME Inv, NEW m \in Message
  PROVE  Applying(m) \in Content /\ Agrees(Applying(m), m.content)
<1> DEFINE nic == IF m.content.nic = Null THEN agent.content.nic ELSE m.content.nic
<1>1. m.content \in Carried /\ agent.content \in Content
  BY DEF Message, Inv, DeploymentTypeOK
<1>2. Applying(m) = [m.content EXCEPT !.nic = nic]
  BY <1>1 DEF Applying, Carried
<1>3. nic \in BOOLEAN /\ m.content.nic \in {nic, Null}
  BY <1>1 DEF Carried, Content
<1> HIDE DEF nic
<1> QED BY <1>1, <1>2, <1>3 DEF Carried, Content, Agrees

\* The agent decides about a revision it was handed: only its own variables
\* change, and what it has run is not forgotten.
LEMMA DecideStep ==
  ASSUME Inv, NEW m \in sent, NEW status,
         Run(m) \/ (status \in Refusals /\ Refuse(m, status))
  PROVE  Inv'
<1>1. /\ UNCHANGED <<day, row, proc, chan, queue, link, sent, adopted>>
      /\ ran \subseteq ran'
  BY DEF Run, Refuse
<1>2. m \in Message /\ m.revision \in 0..MaxRevision
  BY DEF Inv, DeploymentTypeOK, Message
<1> DEFINE c == Applying(m)
<1>c. c \in Content /\ Agrees(c, m.content)
  BY <1>2, ApplyingType
<1>3. /\ agent' \in [revision: 0..MaxRevision, content: Content]
      /\ ran' \subseteq Content /\ agent'.content \in ran'
  BY <1>2, <1>c DEF Run, Refuse, Inv, DeploymentTypeOK, RanSo
<1>4. \A o \in outcome' : \/ o \in outcome
                          \/ /\ o = [revision |-> m.revision, status |-> "applied"]
                             /\ c \in ran'
                          \/ /\ o = [revision |-> m.revision, status |-> status]
                             /\ status \in Refusals
  BY DEF Run, Refuse
<1>5. DeploymentTypeOK'
  <2>1. outcome' \subseteq [revision: 0..MaxRevision,
                            status: Closed \cup {"upgrade-required"}]
    <3> DEFINE Outcome == [revision: 0..MaxRevision,
                           status: Closed \cup {"upgrade-required"}]
    <3>1. outcome \subseteq Outcome
      BY DEF Inv, DeploymentTypeOK
    <3>2. ASSUME NEW s \in Refusals \cup {"applied"}
          PROVE  [revision |-> m.revision, status |-> s] \in Outcome
      BY <1>2, DeploymentDeliveryAssumption DEF Closed
    <3> HIDE DEF Outcome
    <3>3. \A o \in outcome' : o \in Outcome
      BY <1>4, <3>1, <3>2
    <3> QED BY <3>3 DEF Outcome
  <2> QED BY <1>1, <1>3, <2>1 DEF Inv, DeploymentTypeOK
<1>6. CallsOK'
  BY <1>1 DEF Inv, CallsOK
<1>7. OneContent'
  BY <1>1 DEF Inv, OneContent, InHand
<1>8. AppliedWasRun'
  BY <1>1 DEF Inv, AppliedWasRun
<1>9. RanSo'
  <2>1. \A p \in Procs : proc'[p].pc = "adopt" => proc'[p].want \in ran'
    BY <1>1 DEF Inv, RanSo
  <2>2. ASSUME NEW o \in outcome', o.status = "applied"
        PROVE  \E n \in sent', x \in ran' : n.revision = o.revision /\ Agrees(x, n.content)
    <3>1. CASE o \in outcome
      BY <1>1, <2>2, <3>1 DEF Inv, RanSo
    <3>2. CASE o = [revision |-> m.revision, status |-> "applied"] /\ c \in ran'
      BY <1>1, <1>c, <3>2
    <3>3. CASE o = [revision |-> m.revision, status |-> status] /\ status \in Refusals
      BY <2>2, <3>3, DeploymentDeliveryAssumption
    <3> QED BY <1>4, <3>1, <3>2, <3>3
  <2> QED BY <1>3, <2>1, <2>2 DEF RanSo, Agrees
<1> QED BY <1>5, <1>6, <1>7, <1>8, <1>9 DEF Inv

LEMMA ReconnectStep ==
  ASSUME Inv, NEW l \in Links, Reconnect(l)
  PROVE  Inv'
<1>1. /\ UNCHANGED <<day, row, chan, queue, sent, agent, ran, adopted, outcome>>
      /\ link' = l
      /\ proc' = [p \in Procs |->
                    IF p \in Calls /\ proc[p].pc # "idle"
                      THEN [proc[p] EXCEPT !.live = FALSE] ELSE proc[p]]
  BY DEF Reconnect
<1>2. ASSUME NEW p \in Procs
      PROVE  /\ proc'[p] \in Proc /\ proc'[p].seen = proc[p].seen
             /\ proc'[p].pc = proc[p].pc /\ proc'[p].op = proc[p].op
             /\ proc'[p].want = proc[p].want
  <2>1. proc[p] \in Proc
    BY DEF Inv, CallsOK
  <2>2. proc'[p] = proc[p] \/ proc'[p] = [proc[p] EXCEPT !.live = FALSE]
    BY <1>1
  <2> QED BY <2>1, <2>2, ForceType
<1>3. proc' \in [Procs -> Proc]
  BY <1>1, <1>2
<1>4. CallsOK'
  BY <1>2, <1>3 DEF Inv, CallsOK, ProcOK
<1>5. DeploymentTypeOK'
  BY <1>1, <1>3 DEF Inv, DeploymentTypeOK
<1>6. OneContent'
  <2>1. ASSUME NEW m \in InHand' PROVE m \in InHand
    <3>1. m \in sent \/ (m = queue /\ m # Null)
            \/ \E p \in Procs : proc'[p].seen # Null /\ Said(m, proc'[p].seen)
      BY <1>1 DEF InHand, Said
    <3>2. m \in sent \/ (m = queue /\ m # Null)
            \/ \E p \in Procs : proc[p].seen # Null /\ Said(m, proc[p].seen)
      BY <1>2, <3>1
    <3> QED BY <3>2 DEF InHand, Said
  <2> QED BY <1>1, <2>1 DEF Inv, OneContent
<1>7. AppliedWasRun'
  BY <1>1 DEF Inv, AppliedWasRun
<1>8. RanSo'
  BY <1>1, <1>2 DEF Inv, RanSo
<1> QED BY <1>4, <1>5, <1>6, <1>7, <1>8 DEF Inv

-----------------------------------------------------------------------------
(* Every step preserves the invariant. *)

LEMMA InitInv == Init => Inv
<1> SUFFICES ASSUME Init PROVE Inv
  OBVIOUS
<1> USE DeploymentDeliveryAssumption
<1>1. \A p \in Procs : proc[p] = Idle
  BY DEF Init
<1>2. CallsOK
  <2>1. Idle \in Proc
    BY IdleOK DEF ProcOK
  <2>2. proc \in [Procs -> Proc]
    BY <2>1 DEF Init
  <2> QED BY <1>1, <2>2, IdleOK DEF CallsOK
<1>3. row # Null => /\ row \in Row /\ row.status = "saved"
  <2> SUFFICES ASSUME row # Null PROVE row \in Row /\ row.status = "saved"
    OBVIOUS
  <2>1. PICK d \in Days : row = [revision |-> 0, applied |-> 0, status |-> "saved",
                                 previous |-> Null, content |-> DefaultContent(d)]
    BY DEF Init
  <2>2. DefaultContent(d) \in Content
    BY DefaultContentType
  <2> QED BY <2>1, <2>2 DEF Row, Pending
<1>4. /\ agent \in [revision: 0..MaxRevision, content: Content]
      /\ agent.content \in Content /\ ran = {agent.content}
  BY DEF Init
<1>5. DeploymentTypeOK
  BY <1>2, <1>3, <1>4 DEF DeploymentTypeOK, Init, CallsOK
<1>6. OneContent
  <2>1. \A p \in Procs : proc[p].seen = Null
    BY <1>1, IdleOK
  <2>2. InHand = {}
    BY <2>1 DEF Init, InHand
  <2> QED BY <2>2 DEF OneContent
<1>7. RanSo
  BY <1>1, <1>4, IdleOK DEF Init, RanSo
<1>8. AppliedWasRun
  BY <1>3 DEF AppliedWasRun
<1> QED BY <1>2, <1>5, <1>6, <1>7, <1>8 DEF Inv

\* A step is one of a call, of the queue or of an answer, or it leaves the
\* row alone.
LEMMA StepKinds ==
  ASSUME Inv, [Next]_vars
  PROVE  Sound \/ (Inv' /\ row' = row)
<1>1. ASSUME NEW a \in Admins, AdminBegins(a) \/ AdminGoesOn(a) PROVE Sound
  BY <1>1, AdminBeginsSound, AdminGoesOnSound
<1>2. ASSUME NEW c \in Calls, CallBegins(c) \/ CallGoesOn(c) \/ Cancel(c) PROVE Sound
  BY <1>2, CallSound
<1>3. CASE AgentNext
  <2>1. ASSUME NEW m \in sent, Run(m) PROVE Inv' /\ row' = row
    BY <2>1, DecideStep DEF Run
  <2>2. ASSUME NEW m \in sent, NEW s \in Refusals, Refuse(m, s) PROVE Inv' /\ row' = row
    BY <2>2, DecideStep DEF Refuse
  <2>3. ASSUME NEW l \in Links, Reconnect(l) PROVE Inv' /\ row' = row
    BY <2>3, ReconnectStep DEF Reconnect
  <2> QED BY <1>3, <2>1, <2>2, <2>3, QueueSound DEF AgentNext
<1>4. CASE UNCHANGED vars
  <2>1. Inv'
    BY <1>4 DEF vars, Inv, DeploymentTypeOK, CallsOK, OneContent, InHand, RanSo,
                AppliedWasRun
  <2> QED BY <1>4, <2>1 DEF vars
<1> QED BY <1>1, <1>2, <1>3, <1>4 DEF Next

LEMMA InvStep == Inv /\ [Next]_vars => Inv'
BY StepKinds, CallStep

LEMMA Invariance == Spec => []Inv
BY InitInv, InvStep, PTL DEF Spec

-----------------------------------------------------------------------------
(* The theorems. *)

\* A revision means one content, whatever carries it to the agent and
\* whatever is committed between the reads of the call that hands it over: all
\* of it over Connect, and all but the address source over v2.
THEOREM OneMeaning == Spec => []RevisionMeaning
<1>1. Inv => RevisionMeaning
  <2> SUFFICES ASSUME Inv PROVE RevisionMeaning
    OBVIOUS
  <2>1. sent \subseteq InHand
    BY DEF InHand
  <2> QED BY <2>1 DEF Inv, OneContent, RevisionMeaning
<1> QED BY <1>1, Invariance, PTL

\* The row says "applied" only of the desired revision, and only if the agent
\* has run what a message of it carried, or has reported its settings, the
\* address source and the reset day aside, as its own.
THEOREM AppliedRan == Spec => []AppliedWasRun
BY Invariance, PTL DEF Inv

\* A delivery that is over is not reopened by the mark of a slow sender.
THEOREM StaysClosed == Spec => DeliveryStaysClosed
<1> DEFINE Kept == (row # Null /\ row.status \in Closed /\ row'.revision = row.revision)
                     => row'.status \in Closed \cup {"upgrade-required"}
<1>1. ASSUME Inv, [Next]_vars PROVE Kept
  <2>1. CASE Sound
    BY <2>1 DEF Sound, RowKept
  <2>2. CASE row' = row
    BY <2>2
  <2> QED BY <1>1, <2>1, <2>2, StepKinds
<1> QED BY <1>1, Invariance, PTL DEF Spec, DeliveryStaysClosed
=============================================================================
