------------------------------ MODULE AuditTrail ------------------------------
(***************************************************************************)
(* The audit trail of the commands, sealed, exported and restored.  A seal *)
(* hashes the settled events after the last one and the seal before it;    *)
(* an export writes the seals not yet exported to write-once storage and   *)
(* then records them, or adopts what a run that died in between had        *)
(* written.  A recovery takes the database back to an earlier point, never *)
(* the archive; the first heartbeat on the new timeline raises a fence     *)
(* with the moment the records were last known whole, and verification     *)
(* reads the archive by this database's chain.                             *)
(***************************************************************************)
EXTENDS Commands, SequencesExt

CONSTANTS
  Settle,     \* sealAudit's settleSeconds
  MaxRestores \* bound: recoveries

ASSUME AuditAssumption == {Settle, MaxRestores} \subseteq Nat /\ TxLimit =< Settle

VARIABLES
  seals,     \* audit_seal, by id
  nextSeal,  \* the sequence behind audit_seal.id
  exports,   \* audit_seal_export, in order
  archive,   \* the ranges in the bucket, under Object Lock
  exporting, \* a range written and not yet recorded, or NoRow
  beat,      \* worker_heartbeat: its time and the timeline it saw
  fences,    \* restore_fence
  point,     \* the moment a recovery will go back to, or NoRow
  restores   \* how many recoveries there were

auditVars == <<seals, nextSeal, exports, archive, exporting, beat, fences, point, restores>>
vars == <<commandVars, auditVars>>

-----------------------------------------------------------------------------
\* inrp2p_audit_range_hash: equal only for equal rows and an equal chain.
RangeHash(prev, from, to) == [prev |-> prev, rows |-> {e \in events : e.seq \in from .. to}]

LastSeal == IF seals = <<>> THEN [id |-> 0, to |-> 0, hash |-> NoRow] ELSE Last(seals)
LastExport == IF exports = <<>> THEN [last |-> 0, to |-> 0, hash |-> NoRow] ELSE Last(exports)
Between(first, last) == {s \in Range(seals) : s.id \in first .. last}
Unexported == {s \in Range(seals) : s.id > LastExport.last}

\* Of some seals, by id.
FirstOf(S) == CHOOSE s \in S : \A t \in S : s.id =< t.id
LastOf(S) == CHOOSE s \in S : \A t \in S : t.id =< s.id

\* A range as written: its seals, and the seal it continues from.
Document(S, after, hash) ==
  [first |-> FirstOf(S).id, last |-> LastOf(S).id, from |-> FirstOf(S).from, to |-> LastOf(S).to,
   after |-> after, afterHash |-> hash, seals |-> S]
\* Its name: first and last seal, and the last one's hash.
Named(d) == <<d.first, d.last, LastOf(d.seals).hash>>
\* audit_seal_export of it, and what the database asks of one (IX099).
Entry(d) == [first |-> d.first, last |-> d.last, to |-> d.to, hash |-> LastOf(d.seals).hash, key |-> Named(d)]
Continues(d) ==
  LET here == Between(d.first, d.last) IN
  /\ d.from = LastExport.to + 1 /\ d.first > LastExport.last
  /\ here # {} /\ Cardinality(here) = Cardinality(d.seals)
  /\ FirstOf(here).id = d.first /\ FirstOf(here).from = d.from /\ FirstOf(here).prev = LastExport.hash
  /\ LastOf(here).id = d.last /\ LastOf(here).to = d.to /\ LastOf(here).hash = LastOf(d.seals).hash

-----------------------------------------------------------------------------
AuditInit ==
  /\ Init
  /\ seals = <<>> /\ nextSeal = 1 /\ exports = <<>> /\ archive = {} /\ exporting = NoRow
  /\ beat = [at |-> 0, timeline |-> 1] /\ fences = {} /\ point = NoRow /\ restores = 0

\* Defect: the settle window is shorter by an instant.
SettledAlready == {e \in events : e.seq > LastSeal.to /\ e.at =< now - Settle}
\* sealAudit, under its advisory lock.
Settled == {e \in events : e.seq > LastSeal.to /\ e.at < now - Settle}
Seal ==
  /\ Settled # {}
  /\ LET from == LastSeal.to + 1
         to == Max({e.seq : e \in Settled}) IN
     seals' = Append(seals,
       [id |-> nextSeal, from |-> from, to |-> to, prev |-> LastSeal.hash,
        hash |-> RangeHash(LastSeal.hash, from, to), sealedAt |-> now])
  /\ nextSeal' = nextSeal + 1
  /\ UNCHANGED <<commandVars, exports, archive, exporting, beat, fences, point, restores>>

\* adoptExport: it starts where the recorded exports end, and is of these seals.
Adoptable(d) ==
  /\ Unexported # {} /\ d.first = FirstOf(Unexported).id
  /\ d.after = LastExport.last /\ d.afterHash = LastExport.hash
  /\ Between(d.first, d.last) = d.seals
Own == Document(Unexported, LastExport.last, LastExport.hash)

\* A range an earlier run left is recorded; or this database's own is written:
\* an object of its name with other bytes makes the run fail.
Adopt ==
  /\ exporting = NoRow
  /\ \E d \in archive : Adoptable(d) /\ Continues(d) /\ exports' = Append(exports, Entry(d))
  /\ UNCHANGED <<commandVars, seals, nextSeal, archive, exporting, beat, fences, point, restores>>
Put ==
  /\ exporting = NoRow /\ Unexported # {}
  /\ \A d \in archive : ~Adoptable(d) /\ (Named(d) = Named(Own) => d = Own)
  /\ archive' = archive \cup {Own}
  /\ exporting' = Own
  /\ UNCHANGED <<commandVars, seals, nextSeal, exports, beat, fences, point, restores>>

\* The range is recorded, or the run ends before.
Record ==
  /\ exporting # NoRow
  /\ exporting' = NoRow
  /\ \/ Continues(exporting) /\ exports' = Append(exports, Entry(exporting))
     \/ UNCHANGED exports
  /\ UNCHANGED <<commandVars, seals, nextSeal, archive, beat, fences, point, restores>>

-----------------------------------------------------------------------------
\* What a backup or a replica that is behind holds: the database, as it is now.
Database == [keys |-> keys, events |-> events, nextSeq |-> nextSeq, seals |-> seals,
             nextSeal |-> nextSeal, exports |-> exports, beat |-> beat, fences |-> fences]
BackUp ==
  /\ point = NoRow /\ restores < MaxRestores
  /\ point' = Database
  /\ UNCHANGED <<commandVars, seals, nextSeal, exports, archive, exporting, beat, fences, restores>>

\* Recovered to that moment, which takes time: what was open is gone and so is the
\* exporter's run; whoever was answered with what is lost asks again.  A sequence
\* goes back with a dump and stays ahead with a recovery from its log.
Restore ==
  /\ point # NoRow /\ now < MaxTime
  /\ timeline' = timeline + 1 /\ restores' = restores + 1 /\ point' = NoRow
  /\ keys' = point.keys /\ events' = point.events /\ seals' = point.seals
  /\ exports' = point.exports /\ beat' = point.beat /\ fences' = point.fences
  /\ \/ nextSeq' = point.nextSeq /\ nextSeal' = point.nextSeal
     \/ UNCHANGED <<nextSeq, nextSeal>>
  /\ exporting' = NoRow
  /\ answer' = [a \in Attempts |->
       IF \E e \in point.events : Result(e) = answer[a] THEN answer[a] ELSE NoRow]
  /\ wrote' = [a \in Attempts |-> NoRow]
  /\ now' = now + 1
  /\ UNCHANGED archive

\* recordWorkerBeat: a change of timeline nobody has fenced raises a fence, one at
\* a time, and its audit event, in the transaction of the beat.  A beat ends its
\* tick: what commits after it is later.
Unfenced ==
  /\ beat.timeline # timeline
  /\ \A f \in fences : f.status = "LIFTED" /\ f.timeline # timeline
\* The system's or an operator's own audit event, committed at once.
Appended(what) ==
  /\ nextSeq =< MaxSeq /\ nextSeq' = nextSeq + 1
  /\ events' = events \cup
       {[seq |-> nextSeq, at |-> now, id |-> <<timeline, what>>, key |-> NoKey, hash |-> NoRow]}

\* Defect: the fence's own moment stands for the last heartbeat before it.
KnownUntilRaised == now
KnownUntil == beat.at
FenceRaised == [status |-> "RAISED", known |-> KnownUntil, timeline |-> timeline]
Beat ==
  /\ TimeMayPass
  /\ IF Unfenced
     THEN fences' = fences \cup {FenceRaised} /\ Appended("FENCE")
     ELSE UNCHANGED <<fences, events, nextSeq>>
  /\ beat' = [at |-> now, timeline |-> timeline]
  /\ now' = now + 1
  /\ UNCHANGED <<timeline, keys, wrote, answer>>
  /\ UNCHANGED <<seals, nextSeal, exports, archive, exporting, point, restores>>

\* A second person approved the reconciliation.
Lift ==
  /\ \E f \in fences : f.status = "RAISED" /\ fences' = (fences \ {f}) \cup {[f EXCEPT !.status = "LIFTED"]}
  /\ Appended("LIFT")
  /\ UNCHANGED <<now, timeline, keys, wrote, answer>>
  /\ UNCHANGED <<seals, nextSeal, exports, archive, exporting, beat, point, restores>>

Next ==
  \/ CommandNext /\ UNCHANGED auditVars
  \/ Seal \/ Adopt \/ Put \/ Record
  \/ BackUp \/ Restore \/ Beat \/ Lift

Spec == AuditInit /\ [][Next]_vars

-----------------------------------------------------------------------------
\* verifyAuditArchive.  A seal as archived against the one here; the first seal
\* of a range that differs; the lost timeline of a restore that explains it.
SameHere(s) ==
  \E h \in Range(seals) :
    h.id = s.id /\ h.hash = s.hash /\ h.prev = s.prev /\ h.from = s.from /\ h.to = s.to
Differs(d) == \E s \in d.seals : ~SameHere(s)
FirstDifference(d) == FirstOf({s \in d.seals : ~SameHere(s)})
Superseded(d) ==
  Differs(d) /\ \E f \in fences : FirstDifference(d).sealedAt > f.known
Recorded(d) == \E x \in Range(exports) : x.key = Named(d)

\* This database's chain through the archive, range by range from the first event;
\* a range that starts later without one before it leaves a gap.
Follow(w) ==
  LET left == archive \ Range(w.ranges)
      candidates == {d \in left : d.from = w.from}
      later == {d.from : d \in {e \in left : e.from > w.from /\ ~Superseded(e)}}
      own == {d \in candidates : Recorded(d)}
      agreeing == {d \in candidates : ~Differs(d)}
      unexplained == {d \in candidates : ~Superseded(d)}
      best == IF own # {} THEN own ELSE IF agreeing # {} THEN agreeing ELSE unexplained
      pick == CHOOSE d \in best : TRUE IN
  IF candidates = {}
  THEN IF later = {} THEN w ELSE [w EXCEPT !.from = Min(later), !.gap = TRUE]
  ELSE IF best = {} THEN w
       ELSE [w EXCEPT !.from = pick.to + 1, !.ranges = Append(w.ranges, pick)]

\* It ends: every second step takes a range.
Walk[n \in Nat] ==
  IF n = 0 THEN [from |-> 1, ranges |-> <<>>, gap |-> FALSE] ELSE Follow(Walk[n - 1])
Chain == Walk[2 * Cardinality(archive) + 1]

\* The hash a seal of the i-th range continues: of the seal before it there, or of
\* the last one of the range before.
Continued(ranges, i, s) ==
  LET before == {t \in ranges[i].seals : t.id < s.id} IN
  IF before # {} THEN LastOf(before).hash ELSE IF i = 1 THEN NoRow ELSE LastOf(ranges[i - 1].seals).hash

Findings ==
  LET chain == Chain
      archived == UNION {d.seals : d \in Range(chain.ranges)} IN
  {kind \in {"GAP", "CHAIN_BROKEN", "SEAL_DIFFERS", "EVENTS_DIFFER", "DIVERGED"} :
     \/ kind = "GAP" /\ chain.gap
     \/ kind = "CHAIN_BROKEN" /\ \E i \in DOMAIN chain.ranges : \E s \in chain.ranges[i].seals :
                                 s.prev # Continued(chain.ranges, i, s)
     \/ kind = "SEAL_DIFFERS" /\ \E s \in archived : ~SameHere(s)
     \/ kind = "EVENTS_DIFFER" /\ \E s \in archived : RangeHash(s.prev, s.from, s.to) # s.hash
     \/ kind = "DIVERGED" /\ \E d \in archive \ Range(chain.ranges) : Differs(d) /\ ~Superseded(d)}

-----------------------------------------------------------------------------
\* A sealed range is never changed: no event commits into it after its seal was
\* taken (seal.ts:25), the seals follow each other without gap, and each chains
\* to the one before.
SealsStand ==
  \A i \in DOMAIN seals :
    LET before == IF i = 1 THEN [id |-> 0, to |-> 0, hash |-> NoRow] ELSE seals[i - 1] IN
    /\ seals[i].hash = RangeHash(before.hash, before.to + 1, seals[i].to)
    /\ seals[i].prev = before.hash /\ seals[i].from = before.to + 1 /\ seals[i].id > before.id

\* Where nobody tampered, the archive verifies: whatever runs died between writing
\* a range and recording it, and however often the database was recovered to an
\* earlier moment, no range is a finding once a heartbeat has seen the change and
\* the daily job, which exports before it verifies, has found nothing left to adopt
\* (export.ts:198, tasks.ts:143).
HonestArchiveVerifies ==
  beat.timeline = timeline /\ (\A d \in archive : ~Adoptable(d)) => Findings = {}
=============================================================================
