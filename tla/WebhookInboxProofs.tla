------------------------- MODULE WebhookInboxProofs -------------------------
(***************************************************************************)
(* Proofs about WebhookInbox, for any number of handlers and events.       *)
(*                                                                         *)
(* The inductive invariant is InboxInv, types and LeaseInv.  LeaseExclusion *)
(* alone is not inductive: that a handler which lost a record has overrun  *)
(* its lease rests on the record and its holder having the same start time *)
(* (HoldersOrOverrun), on lease ids being held once (LeasesDistinct), and  *)
(* on a claimer's id not being stored anywhere (ClaimersHoldNothing).      *)
(***************************************************************************)
EXTENDS WebhookInbox, TLAPS

\* Ages form a saturating clock: a tick keeps their range, NULL stays NULL,
\* what is over the lease stays over it, and a stall is counted exactly.
LEMMA OlderFacts ==
  ASSUME NEW a \in Ages
  PROVE  /\ Older(a) \in Ages
         /\ (Older(a) = NoAge) <=> (a = NoAge)
         /\ a > LeaseTime => Older(a) > LeaseTime
         /\ a \in 0..MaxStall /\ a < MaxStall => Older(a) \in 0..MaxStall
BY LeaseTimeAssumption, MaxStallAssumption DEF Ages, Older, NoAge, Cap

LEMMA InitInv == Init => InboxInv
BY NoneAssumption, MaxFaultsAssumption, LeaseTimeAssumption, MaxStallAssumption
DEF Init, InboxInv, TypeOK, LeaseInv, Row, NoRow, Worker, Idle, Steps, Ages, NoAge, Cap,
    LeasesDistinct, HandlersHaveEvents, ClaimersHoldNothing, HoldersOrOverrun,
    RepliersRecorded, ProcessingReclaimable, PayloadKept, MarkersHavePayload, Processing

\* A handler that neither claims nor processes any more, with the table as it
\* was, cannot disturb the invariant: r is what handler w becomes.
LEMMA HandlerLeavesLease ==
  ASSUME InboxInv, NEW w \in Workers, NEW r \in Worker,
         wk' = [wk EXCEPT ![w] = r], row' = row,
         acked' \subseteq Events, \A e \in acked' : row[e].status # "ABSENT",
         faults' \in 0..MaxFaults,
         r.pc \in {"idle", "mark", "verify", "reply"},
         r.lease \in {None, wk[w].lease},
         r.pc # "idle" => r.ev \in Events,
         r.pc = "mark" /\ row[r.ev].status # "SUCCEEDED" => r.body,
         r.pc = "verify" => r.body,
         r.pc = "reply" /\ r.ok => row[r.ev].status # "ABSENT"
  PROVE  InboxInv'
<1> USE DEF InboxInv, LeaseInv
<1>1. TypeOK'
  BY DEF TypeOK
<1>2. \A v \in Workers : v # w => wk'[v] = wk[v]
  BY DEF TypeOK
<1>3. wk'[w] = r
  BY DEF TypeOK
<1>4. LeasesDistinct'
  BY <1>2, <1>3 DEF LeasesDistinct
<1>5. HandlersHaveEvents'
  BY <1>2, <1>3 DEF HandlersHaveEvents
<1>6. ClaimersHoldNothing'
  BY <1>2, <1>3 DEF ClaimersHoldNothing
<1>7. HoldersOrOverrun'
  BY <1>2, <1>3 DEF HoldersOrOverrun, Processing, Owned
<1>8. RepliersRecorded'
  BY <1>2, <1>3 DEF RepliersRecorded
<1>9. ProcessingReclaimable'
  BY DEF ProcessingReclaimable
<1>10. PayloadKept' /\ MarkersHavePayload'
  BY <1>2, <1>3 DEF PayloadKept, MarkersHavePayload
<1> QED
  BY <1>1, <1>4, <1>5, <1>6, <1>7, <1>8, <1>9, <1>10

\* A handler that has the payload draws a fresh lease id and goes to claim.
LEMMA ClaimStarts ==
  ASSUME InboxInv, NEW w \in Workers, NEW base \in Worker,
         base.ev \in Events, base.body, StartClaim(w, base),
         UNCHANGED <<row, acked, faults>>
  PROVE  InboxInv'
<1> USE DEF InboxInv, LeaseInv
<1>1. PICK l \in FreshLeases :
        wk' = [wk EXCEPT ![w] = [base EXCEPT !.pc = "insert", !.lease = l, !.age = 0]]
  BY DEF StartClaim
<1> DEFINE r == [base EXCEPT !.pc = "insert", !.lease = l, !.age = 0]
<1>2. /\ l \in Leases
      /\ \A e \in Events : row[e].lease # l
      /\ \A v \in Workers : wk[v].lease # l
  BY DEF FreshLeases
<1>3. /\ r \in Worker
      /\ r.pc = "insert" /\ r.lease = l /\ r.age = 0
      /\ r.ev \in Events /\ r.body
  <2>1. 0 \in Ages
    BY LeaseTimeAssumption, MaxStallAssumption DEF Ages, NoAge, Cap
  <2> QED
    BY <1>2, <2>1 DEF Worker, Steps
<1>4. wk'[w] = r /\ \A v \in Workers : v # w => wk'[v] = wk[v]
  BY <1>1 DEF TypeOK
<1> HIDE DEF r
<1>5. TypeOK'
  BY <1>1, <1>3, <1>4 DEF TypeOK, r
<1>6. LeasesDistinct'
  BY <1>2, <1>3, <1>4 DEF LeasesDistinct
<1>7. HandlersHaveEvents'
  BY <1>3, <1>4 DEF HandlersHaveEvents
<1>8. ClaimersHoldNothing'
  BY <1>2, <1>3, <1>4, MaxStallAssumption DEF ClaimersHoldNothing
<1>9. HoldersOrOverrun'
  BY <1>3, <1>4 DEF HoldersOrOverrun, Processing, Owned
<1>10. RepliersRecorded' /\ ProcessingReclaimable'
  BY <1>3, <1>4 DEF RepliersRecorded, ProcessingReclaimable
<1>11. PayloadKept' /\ MarkersHavePayload'
  BY <1>3, <1>4 DEF PayloadKept, MarkersHavePayload
<1> QED
  BY <1>5, <1>6, <1>7, <1>8, <1>9, <1>10, <1>11

\* A write that leaves every record's status and lease, a PROCESSING record's
\* start and an unfinished record's payload alone cannot disturb the invariant.
LEMMA QuietWrite ==
  ASSUME InboxInv, row' \in [Events -> Row], UNCHANGED <<wk, acked, faults>>,
         \A e \in Events :
           /\ row'[e].status = row[e].status
           /\ row'[e].lease = row[e].lease
           /\ row[e].status = "PROCESSING" => row'[e].age = row[e].age
           /\ row[e].status \in {"PROCESSING", "FAILED"} => row'[e].payload = row[e].payload
  PROVE  InboxInv'
<1> USE DEF InboxInv, LeaseInv
<1>1. TypeOK'
  BY DEF TypeOK
<1>2. LeasesDistinct' /\ HandlersHaveEvents'
  BY DEF LeasesDistinct, HandlersHaveEvents
<1>3. ClaimersHoldNothing'
  BY DEF ClaimersHoldNothing
<1>4. HoldersOrOverrun'
  BY DEF HoldersOrOverrun, Processing, Owned
<1>5. RepliersRecorded' /\ ProcessingReclaimable'
  BY DEF RepliersRecorded, ProcessingReclaimable, HandlersHaveEvents, TypeOK, Worker
<1>6. PayloadKept' /\ MarkersHavePayload'
  BY DEF PayloadKept, MarkersHavePayload, HandlersHaveEvents
<1> QED
  BY <1>1, <1>2, <1>3, <1>4, <1>5, <1>6

\* A handler that claims event e with its lease, the record being new, failed
\* or overrun: whoever held the record before has overrun its lease.
LEMMA ClaimSucceeds ==
  ASSUME InboxInv, NEW w \in Workers, NEW e \in Events, e = wk[w].ev,
         wk[w].pc \in {"insert", "takeover"},
         row[e].status = "PROCESSING" => row[e].age - wk[w].age > LeaseTime,
         row[e].status # "SUCCEEDED",
         row' = [row EXCEPT ![e] = Claimed(w)],
         wk' = [wk EXCEPT ![w].pc = "process"], UNCHANGED <<acked, faults>>
  PROVE  InboxInv'
<1> USE DEF InboxInv, LeaseInv
<1>1. /\ wk[w].lease \in Leases /\ wk[w].age \in 0..MaxStall /\ wk[w].body
      /\ \A d \in Events : row[d].lease # wk[w].lease
  BY DEF ClaimersHoldNothing
<1>2. TypeOK'
  <2>1. [wk[w] EXCEPT !.pc = "process"] \in Worker
    BY DEF TypeOK, Worker, Steps
  <2>2. wk' \in [Workers -> Worker]
    BY <2>1 DEF TypeOK
  <2>3. wk[w] \in Worker
    BY DEF TypeOK
  <2>4. Claimed(w) \in Row
    BY <2>3 DEF Claimed, Worker, Row
  <2> QED
    BY <2>2, <2>4 DEF TypeOK
<1>3. /\ \A d \in Events : d # e => row'[d] = row[d]
      /\ row'[e].status = "PROCESSING" /\ row'[e].lease = wk[w].lease
      /\ row'[e].age = wk[w].age /\ row'[e].payload
  BY <1>1 DEF TypeOK, Claimed
<1>4. \A v \in Workers : v # w => wk'[v] = wk[v]
  BY DEF TypeOK
<1>5. /\ wk'[w].pc = "process" /\ wk'[w].ev = e /\ wk'[w].lease = wk[w].lease
      /\ wk'[w].age = wk[w].age
  BY DEF TypeOK, Worker
<1>6. LeasesDistinct'
  BY <1>1, <1>4, <1>5 DEF LeasesDistinct
<1>7. HandlersHaveEvents'
  BY <1>4, <1>5 DEF HandlersHaveEvents
<1>8. ClaimersHoldNothing'
  <2> SUFFICES ASSUME NEW v \in Workers, wk'[v].pc \in {"insert", "takeover"}
               PROVE  /\ wk'[v].ev \in Events /\ wk'[v].lease \in Leases
                      /\ wk'[v].age \in 0..MaxStall /\ wk'[v].body
                      /\ \A d \in Events : row'[d].lease # wk'[v].lease
                      /\ wk'[v].pc = "takeover" => row'[wk'[v].ev].status # "ABSENT"
    BY DEF ClaimersHoldNothing
  <2>1. v # w /\ wk'[v] = wk[v]
    BY <1>4, <1>5
  <2>2. wk[w].lease # wk[v].lease
    BY <1>1, <2>1, NoneAssumption DEF LeasesDistinct
  <2> QED
    BY <1>3, <2>1, <2>2 DEF ClaimersHoldNothing
<1>9. HoldersOrOverrun'
  <2> SUFFICES ASSUME NEW v \in Workers, Processing(v)'
               PROVE  /\ wk'[v].ev \in Events /\ wk'[v].lease \in Leases
                      /\ row'[wk'[v].ev].status # "ABSENT"
                      /\ \A d \in Events : row'[d].lease = wk'[v].lease => d = wk'[v].ev
                      /\ Owned(v)' => /\ row'[wk'[v].ev].status = "PROCESSING"
                                      /\ row'[wk'[v].ev].age = wk'[v].age
                      /\ ~Owned(v)' => wk'[v].age > LeaseTime
    BY DEF HoldersOrOverrun
  <2>1. CASE v = w
    BY <1>1, <1>3, <1>5, <2>1 DEF Owned
  <2>2. CASE v # w
    <3>1. wk'[v] = wk[v] /\ Processing(v) /\ wk[v].lease # wk[w].lease
      BY <1>1, <1>4, <2>2, NoneAssumption DEF LeasesDistinct, Processing
    <3>2. CASE wk[v].ev # e
      BY <1>3, <3>1, <3>2 DEF HoldersOrOverrun, Owned
    <3>3. CASE wk[v].ev = e
      <4>1. ~Owned(v)'
        BY <1>3, <3>1, <3>3 DEF Owned
      <4>2. wk[v].age > LeaseTime
        <5>1. CASE Owned(v)
          <6>1. row[e].status = "PROCESSING" /\ row[e].age = wk[v].age
            BY <3>1, <3>3, <5>1 DEF HoldersOrOverrun
          <6>2. row[e].age \in Int /\ wk[w].age \in Nat
            BY <1>1, MaxStallAssumption, LeaseTimeAssumption DEF TypeOK, Row, Ages, NoAge, Cap
          <6> QED
            BY <6>1, <6>2, LeaseTimeAssumption
        <5>2. CASE ~Owned(v)
          BY <3>1, <5>2 DEF HoldersOrOverrun
        <5> QED BY <5>1, <5>2
      <4> QED
        BY <1>3, <3>1, <3>3, <4>1, <4>2 DEF HoldersOrOverrun
    <3> QED BY <3>2, <3>3
  <2> QED BY <2>1, <2>2
<1>10. RepliersRecorded'
  BY <1>3, <1>4, <1>5 DEF RepliersRecorded
<1>11. ProcessingReclaimable'
  BY <1>1, <1>3, MaxStallAssumption DEF ProcessingReclaimable, NoAge
<1>12. PayloadKept' /\ MarkersHavePayload'
  BY <1>3, <1>4, <1>5 DEF PayloadKept, MarkersHavePayload, HandlersHaveEvents
<1> QED
  BY <1>2, <1>6, <1>7, <1>8, <1>9, <1>10, <1>11, <1>12

\* The work ends, well or not: the handler keeps its place and its lease.
LEMMA ProcessInv == ASSUME InboxInv, NEW w \in Workers, Process(w) PROVE InboxInv'
<1> USE DEF InboxInv, LeaseInv
<1>1. PICK b \in BOOLEAN : wk' = [wk EXCEPT ![w].pc = "finish", ![w].ok = b]
  BY DEF Process
<1>2. UNCHANGED <<row, acked>> /\ faults' \in 0..MaxFaults /\ wk[w].pc = "process"
  BY MaxFaultsAssumption DEF Process, Fault, TypeOK
<1>3. \A v \in Workers : v # w => wk'[v] = wk[v]
  BY <1>1 DEF TypeOK
<1>4. /\ wk'[w].pc = "finish" /\ wk'[w].ev = wk[w].ev
      /\ wk'[w].lease = wk[w].lease /\ wk'[w].age = wk[w].age
  BY <1>1 DEF TypeOK, Worker
<1>5. TypeOK'
  <2>1. [wk[w] EXCEPT !.pc = "finish", !.ok = b] \in Worker
    BY DEF TypeOK, Worker, Steps
  <2> QED
    BY <1>1, <1>2, <2>1 DEF TypeOK
<1>6. LeasesDistinct'
  BY <1>3, <1>4 DEF LeasesDistinct
<1>7. HandlersHaveEvents'
  BY <1>2, <1>3, <1>4 DEF HandlersHaveEvents
<1>8. ClaimersHoldNothing'
  BY <1>2, <1>3, <1>4 DEF ClaimersHoldNothing
<1>9. HoldersOrOverrun'
  BY <1>2, <1>3, <1>4 DEF HoldersOrOverrun, Processing, Owned
<1>10. RepliersRecorded' /\ ProcessingReclaimable'
  BY <1>2, <1>3, <1>4 DEF RepliersRecorded, ProcessingReclaimable
<1>11. PayloadKept' /\ MarkersHavePayload'
  BY <1>2, <1>3, <1>4 DEF PayloadKept, MarkersHavePayload
<1> QED
  BY <1>5, <1>6, <1>7, <1>8, <1>9, <1>10, <1>11

\* The holder records its outcome; nobody else has its lease.
LEMMA FinishHeldInv == ASSUME InboxInv, NEW w \in Workers, FinishHeld(w) PROVE InboxInv'
<1> USE DEF InboxInv, LeaseInv
<1> DEFINE e == wk[w].ev
<1>1. /\ wk[w].pc = "finish" /\ e \in Events /\ wk[w].lease \in Leases
      /\ row[e].status = "PROCESSING" /\ row[e].lease = wk[w].lease
  BY DEF FinishHeld, Holds, HoldersOrOverrun, Processing
<1>2. /\ \A d \in Events : d # e => row'[d] = row[d]
      /\ row'[e].status \in {"SUCCEEDED", "FAILED"}
      /\ row'[e].lease = wk[w].lease /\ row'[e].payload = row[e].payload
  BY <1>1 DEF FinishHeld, TypeOK, Row
<1>3. \A v \in Workers : v # w => wk'[v] = wk[v]
  BY DEF FinishHeld, Return, TypeOK
<1>4. /\ wk'[w].pc = "reply" /\ wk'[w].ev = e /\ wk'[w].lease = None
  BY DEF FinishHeld, Return, TypeOK, Worker
<1>5. TypeOK'
  <2>1. NoAge \in Ages
    BY LeaseTimeAssumption, MaxStallAssumption DEF Ages, NoAge, Cap
  <2>2. wk' \in [Workers -> Worker]
    <3>1. [wk[w] EXCEPT !.pc = "reply", !.ok = wk[w].ok, !.lease = None, !.age = NoAge]
             \in Worker
      BY <2>1 DEF TypeOK, Worker, Steps
    <3> QED
      BY <3>1 DEF FinishHeld, Return, TypeOK
  <2>3. row' \in [Events -> Row]
    <3>1. \A s \in {"SUCCEEDED", "FAILED"} : [row[e] EXCEPT !.status = s, !.age = NoAge] \in Row
      BY <1>1, <2>1 DEF TypeOK, Row
    <3> QED
      BY <3>1 DEF FinishHeld, TypeOK
  <2> QED
    BY <2>2, <2>3 DEF FinishHeld, TypeOK
<1>6. UNCHANGED acked
  BY DEF FinishHeld
<1>7. LeasesDistinct'
  BY <1>3, <1>4 DEF LeasesDistinct
<1>8. HandlersHaveEvents'
  BY <1>1, <1>3, <1>4 DEF HandlersHaveEvents
<1>9. ClaimersHoldNothing'
  BY <1>1, <1>2, <1>3, <1>4 DEF ClaimersHoldNothing
<1>10. HoldersOrOverrun'
  <2> SUFFICES ASSUME NEW v \in Workers, Processing(v)'
               PROVE  /\ wk'[v].ev \in Events /\ wk'[v].lease \in Leases
                      /\ row'[wk'[v].ev].status # "ABSENT"
                      /\ \A d \in Events : row'[d].lease = wk'[v].lease => d = wk'[v].ev
                      /\ Owned(v)' => /\ row'[wk'[v].ev].status = "PROCESSING"
                                      /\ row'[wk'[v].ev].age = wk'[v].age
                      /\ ~Owned(v)' => wk'[v].age > LeaseTime
    BY DEF HoldersOrOverrun
  <2>1. v # w /\ wk'[v] = wk[v] /\ Processing(v)
    BY <1>3, <1>4 DEF Processing
  <2>2. wk[v].lease # wk[w].lease
    BY <1>1, <2>1, NoneAssumption DEF LeasesDistinct
  <2> QED
    BY <1>1, <1>2, <2>1, <2>2 DEF HoldersOrOverrun, Owned
<1>11. RepliersRecorded'
  BY <1>1, <1>2, <1>3, <1>4, <1>6 DEF RepliersRecorded, HandlersHaveEvents, TypeOK
<1>12. ProcessingReclaimable'
  BY <1>2 DEF ProcessingReclaimable
<1>13. PayloadKept' /\ MarkersHavePayload'
  BY <1>1, <1>2, <1>3, <1>4 DEF PayloadKept, MarkersHavePayload, HandlersHaveEvents
<1> QED
  BY <1>5, <1>7, <1>8, <1>9, <1>10, <1>11, <1>12, <1>13

\* Time passes for records and handlers alike.
LEMMA TickInv == ASSUME InboxInv, Tick PROVE InboxInv'
<1> USE DEF InboxInv, LeaseInv
<1>1. /\ \A e \in Events : /\ row'[e].status = row[e].status /\ row'[e].lease = row[e].lease
                           /\ row'[e].payload = row[e].payload
                           /\ row'[e].age = Older(row[e].age) /\ row[e].age \in Ages
      /\ \A w \in Workers : /\ wk'[w].pc = wk[w].pc /\ wk'[w].ev = wk[w].ev
                            /\ wk'[w].lease = wk[w].lease /\ wk'[w].ok = wk[w].ok
                            /\ wk'[w].body = wk[w].body
                            /\ wk'[w].age = Older(wk[w].age) /\ wk[w].age \in Ages
      /\ UNCHANGED acked
  BY DEF Tick, TypeOK, Row, Worker
<1>2. TypeOK'
  <2>1. \A e \in Events : [row[e] EXCEPT !.age = Older(@)] \in Row
    BY <1>1, OlderFacts DEF TypeOK, Row
  <2>2. \A w \in Workers : [wk[w] EXCEPT !.age = Older(@)] \in Worker
    BY <1>1, OlderFacts DEF TypeOK, Worker
  <2>3. faults' \in 0..MaxFaults
    BY MaxFaultsAssumption DEF Tick, Fault, TypeOK
  <2> QED
    BY <2>1, <2>2, <2>3 DEF Tick, TypeOK
<1>3. LeasesDistinct'
  BY <1>1 DEF LeasesDistinct
<1>4. HandlersHaveEvents'
  BY <1>1 DEF HandlersHaveEvents
<1>5. ClaimersHoldNothing'
  <2> SUFFICES ASSUME NEW w \in Workers, wk'[w].pc \in {"insert", "takeover"}
               PROVE  wk'[w].age \in 0..MaxStall
    BY <1>1 DEF ClaimersHoldNothing
  <2>1. wk[w].age \in 0..MaxStall /\ wk[w].age < MaxStall
    BY <1>1 DEF ClaimersHoldNothing, Tick
  <2> QED
    BY <1>1, <2>1, OlderFacts
<1>6. HoldersOrOverrun'
  BY <1>1, OlderFacts DEF HoldersOrOverrun, Processing, Owned
<1>7. RepliersRecorded'
  BY <1>1 DEF RepliersRecorded, HandlersHaveEvents, TypeOK
<1>8. ProcessingReclaimable'
  BY <1>1, OlderFacts DEF ProcessingReclaimable
<1>9. PayloadKept' /\ MarkersHavePayload'
  BY <1>1 DEF PayloadKept, MarkersHavePayload, HandlersHaveEvents
<1> QED
  BY <1>2, <1>3, <1>4, <1>5, <1>6, <1>7, <1>8, <1>9

\* A handler that returns gives up its claim, whatever it returns.
LEMMA ReturnInv ==
  ASSUME InboxInv, NEW w \in Workers, NEW ok \in BOOLEAN, Return(w, ok),
         wk[w].pc # "idle", ok => row[wk[w].ev].status # "ABSENT",
         UNCHANGED <<row, acked>>, faults' \in 0..MaxFaults
  PROVE  InboxInv'
<1> DEFINE r == [wk[w] EXCEPT !.pc = "reply", !.ok = ok, !.lease = None, !.age = NoAge]
<1>1. wk[w] \in Worker /\ wk[w].ev \in Events
  BY DEF InboxInv, LeaseInv, TypeOK, HandlersHaveEvents
<1>2. NoAge \in Ages
  BY LeaseTimeAssumption, MaxStallAssumption DEF Ages, NoAge, Cap
<1>3. /\ r \in Worker /\ r.pc = "reply" /\ r.lease = None /\ r.ev = wk[w].ev
      /\ r.ok = ok
  BY <1>1, <1>2 DEF Worker, Steps
<1>4. wk' = [wk EXCEPT ![w] = r]
  BY DEF Return
<1>5. acked' \subseteq Events /\ \A e \in acked' : row[e].status # "ABSENT"
  BY DEF InboxInv, LeaseInv, TypeOK, RepliersRecorded
<1> HIDE DEF r
<1> QED
  BY <1>1, <1>3, <1>4, <1>5, HandlerLeavesLease

LEMMA IdleWorker == Idle \in Worker
<1>1. NoAge \in Ages
  BY LeaseTimeAssumption, MaxStallAssumption DEF Ages, NoAge, Cap
<1> QED
  BY <1>1 DEF Idle, Worker, Steps

\* Every step of the inbox preserves the invariant.
LEMMA NextInv == InboxInv /\ [Next]_vars => InboxInv'
<1> SUFFICES ASSUME InboxInv, [Next]_vars PROVE InboxInv'
  OBVIOUS
<1>1. faults \in 0..MaxFaults /\ (Fault => faults' \in 0..MaxFaults)
  BY MaxFaultsAssumption DEF InboxInv, TypeOK, Fault
<1>2. CASE UNCHANGED vars
  <2>1. row' \in [Events -> Row]
    BY <1>2 DEF vars, InboxInv, TypeOK
  <2> QED
    BY <1>2, <2>1, QuietWrite DEF vars
<1>3. ASSUME NEW w \in Workers, NEW e \in Events, Deliver(w, e) PROVE InboxInv'
  <2> DEFINE base == [Idle EXCEPT !.kind = "delivery", !.ev = e, !.body = TRUE, !.sig = TRUE]
  <2>1. base \in Worker /\ base.ev = e /\ base.body
    BY IdleWorker DEF Worker
  <2>2. StartClaim(w, base) /\ UNCHANGED <<row, acked, faults>>
    BY <1>3 DEF Deliver
  <2> HIDE DEF base
  <2> QED
    BY <2>1, <2>2, ClaimStarts
<1>4. ASSUME NEW w \in Workers, NEW e \in Events, RetryGet(w, e) PROVE InboxInv'
  <2> DEFINE r == [Idle EXCEPT !.pc = "mark", !.kind = "retry", !.ev = e,
                               !.body = row[e].payload, !.sig = row[e].sig]
  <2>1. row[e] \in Row
    BY DEF InboxInv, TypeOK
  <2>2. /\ r \in Worker /\ r.pc = "mark" /\ r.ev = e /\ r.lease = None
        /\ r.body = row[e].payload
    <3>1. Idle.lease = None
      BY DEF Idle
    <3> QED
      BY IdleWorker, <2>1, <3>1 DEF Worker, Row, Steps
  <2>3. row[e].status # "SUCCEEDED" => r.body
    BY <1>4, <2>1, <2>2 DEF RetryGet, InboxInv, LeaseInv, PayloadKept, Row
  <2>4. wk' = [wk EXCEPT ![w] = r] /\ UNCHANGED <<row, acked, faults>>
    BY <1>4 DEF RetryGet
  <2>5. acked' \subseteq Events /\ \A d \in acked' : row[d].status # "ABSENT"
    BY <2>4 DEF InboxInv, LeaseInv, TypeOK, RepliersRecorded
  <2> HIDE DEF r
  <2> QED
    BY <1>1, <2>2, <2>3, <2>4, <2>5, HandlerLeavesLease
<1>5. ASSUME NEW w \in Workers, RetryMark(w) PROVE InboxInv'
  <2> DEFINE e == wk[w].ev
  <2>1. e \in Events /\ row[e] \in Row /\ wk[w] \in Worker /\ wk[w].pc = "mark"
    BY <1>5 DEF RetryMark, InboxInv, LeaseInv, TypeOK, HandlersHaveEvents
  <2>2. CASE Markable(e) /\ row' = [row EXCEPT ![e].age = NoAge] /\ wk' = [wk EXCEPT ![w].pc = "verify"]
    <3>1. NoAge \in Ages
      BY LeaseTimeAssumption, MaxStallAssumption DEF Ages, NoAge, Cap
    <3>2. [row[e] EXCEPT !.age = NoAge] \in Row
      BY <2>1, <3>1 DEF Row
    <3>3. [wk[w] EXCEPT !.pc = "verify"] \in Worker
      BY <2>1 DEF Worker, Steps
    <3>4. wk[w].body
      BY <2>1, <2>2 DEF Markable, InboxInv, LeaseInv, MarkersHavePayload
    <3>5. \A d \in Events :
            /\ row'[d].status = row[d].status
            /\ row'[d].lease = row[d].lease
            /\ row'[d].payload = row[d].payload
            /\ row[d].status = "PROCESSING" => row'[d].age = row[d].age
      BY <2>1, <2>2 DEF Markable, InboxInv, TypeOK, Row
    <3>6. /\ \A v \in Workers : v # w => wk'[v] = wk[v]
          /\ wk'[w].pc = "verify" /\ wk'[w].ev = e /\ wk'[w].lease = wk[w].lease
          /\ wk'[w].body
      BY <2>1, <2>2, <3>4 DEF InboxInv, TypeOK, Worker
    <3>7. UNCHANGED <<acked, faults>>
      BY <1>5 DEF RetryMark
    <3>8. TypeOK'
      BY <2>2, <3>2, <3>3, <3>7 DEF InboxInv, TypeOK
    <3>9. LeasesDistinct' /\ HandlersHaveEvents'
      BY <2>1, <3>6 DEF InboxInv, LeaseInv, LeasesDistinct, HandlersHaveEvents
    <3>10. ClaimersHoldNothing'
      BY <3>5, <3>6 DEF InboxInv, LeaseInv, ClaimersHoldNothing
    <3>11. HoldersOrOverrun'
      BY <3>5, <3>6 DEF InboxInv, LeaseInv, HoldersOrOverrun, Processing, Owned
    <3>12. RepliersRecorded' /\ ProcessingReclaimable'
      BY <3>5, <3>6, <3>7
      DEF InboxInv, LeaseInv, RepliersRecorded, ProcessingReclaimable, HandlersHaveEvents, TypeOK
    <3>13. PayloadKept' /\ MarkersHavePayload'
      BY <3>5, <3>6 DEF InboxInv, LeaseInv, PayloadKept, MarkersHavePayload, HandlersHaveEvents
    <3> QED
      BY <3>8, <3>9, <3>10, <3>11, <3>12, <3>13 DEF InboxInv, LeaseInv
  <2>3. CASE Return(w, FALSE) /\ UNCHANGED row
    BY <1>1, <1>5, <2>1, <2>3, ReturnInv DEF RetryMark
  <2> QED
    BY <1>5, <2>2, <2>3 DEF RetryMark
<1>6. ASSUME NEW w \in Workers, RetryVerify(w) PROVE InboxInv'
  <2>1. wk[w].pc = "verify" /\ wk[w] \in Worker /\ wk[w].ev \in Events
    BY <1>6 DEF RetryVerify, InboxInv, LeaseInv, TypeOK, HandlersHaveEvents
  <2>2. CASE wk[w].body /\ wk[w].sig
    BY <1>6, <2>1, <2>2, ClaimStarts DEF RetryVerify
  <2>3. CASE ~(wk[w].body /\ wk[w].sig)
    BY <1>1, <1>6, <2>1, <2>3, ReturnInv DEF RetryVerify
  <2> QED BY <2>2, <2>3
<1>7. ASSUME NEW w \in Workers, ClaimInsert(w) PROVE InboxInv'
  <2>1. wk[w].ev \in Events /\ wk[w].pc = "insert" /\ wk[w] \in Worker
    BY <1>7 DEF ClaimInsert, InboxInv, LeaseInv, ClaimersHoldNothing, TypeOK
  <2>2. CASE row[wk[w].ev].status = "ABSENT"
    BY <1>7, <2>1, <2>2, ClaimSucceeds DEF ClaimInsert
  <2>3. CASE row[wk[w].ev].status # "ABSENT"
    <3>1. UNCHANGED <<row, acked, faults>> /\ wk' = [wk EXCEPT ![w].pc = "takeover"]
      BY <1>7, <2>3 DEF ClaimInsert
    <3>2. /\ \A v \in Workers : v # w => wk'[v] = wk[v]
          /\ wk'[w].pc = "takeover" /\ wk'[w].ev = wk[w].ev /\ wk'[w].lease = wk[w].lease
          /\ wk'[w].age = wk[w].age /\ wk'[w].body = wk[w].body
      BY <2>1, <3>1 DEF InboxInv, TypeOK, Worker
    <3>3. [wk[w] EXCEPT !.pc = "takeover"] \in Worker
      BY <2>1 DEF Worker, Steps
    <3>4. TypeOK'
      BY <3>1, <3>3 DEF InboxInv, TypeOK
    <3>5. LeasesDistinct' /\ HandlersHaveEvents'
      BY <2>1, <3>2 DEF InboxInv, LeaseInv, LeasesDistinct, HandlersHaveEvents
    <3>6. ClaimersHoldNothing'
      BY <2>1, <2>3, <3>1, <3>2 DEF InboxInv, LeaseInv, ClaimersHoldNothing
    <3>7. HoldersOrOverrun'
      BY <3>1, <3>2 DEF InboxInv, LeaseInv, HoldersOrOverrun, Processing, Owned
    <3>8. RepliersRecorded' /\ ProcessingReclaimable'
      BY <3>1, <3>2 DEF InboxInv, LeaseInv, RepliersRecorded, ProcessingReclaimable
    <3>9. PayloadKept' /\ MarkersHavePayload'
      BY <2>1, <3>1, <3>2 DEF InboxInv, LeaseInv, PayloadKept, MarkersHavePayload
    <3> QED
      BY <3>4, <3>5, <3>6, <3>7, <3>8, <3>9 DEF InboxInv, LeaseInv
  <2> QED BY <2>2, <2>3
<1>8. ASSUME NEW w \in Workers, ClaimTakeover(w) PROVE InboxInv'
  <2> DEFINE e == wk[w].ev
  <2>1. /\ e \in Events /\ wk[w].pc = "takeover" /\ row[e].status # "ABSENT"
        /\ row[e] \in Row
    BY <1>8 DEF ClaimTakeover, InboxInv, LeaseInv, ClaimersHoldNothing, TypeOK
  <2>2. CASE Claimable(w, e) /\ row' = [row EXCEPT ![e] = Claimed(w)]
                             /\ wk' = [wk EXCEPT ![w].pc = "process"]
    <3>2. /\ row[e].status = "PROCESSING" => row[e].age - wk[w].age > LeaseTime
          /\ row[e].status # "SUCCEEDED"
      BY <2>2 DEF Claimable, Expired
    <3>3. UNCHANGED <<acked, faults>>
      BY <1>8 DEF ClaimTakeover
    <3> QED
      BY <2>1, <2>2, <3>2, <3>3, ClaimSucceeds
  <2>3. CASE Return(w, TRUE) /\ UNCHANGED row
    BY <1>1, <1>8, <2>1, <2>3, ReturnInv DEF ClaimTakeover
  <2> QED
    BY <1>8, <2>2, <2>3 DEF ClaimTakeover
<1>9. ASSUME NEW w \in Workers, FinishLost(w) PROVE InboxInv'
  BY <1>1, <1>9, ReturnInv DEF FinishLost
<1>10. ASSUME NEW w \in Workers, Reply(w) PROVE InboxInv'
  <2>1. wk[w].pc = "reply" /\ wk' = [wk EXCEPT ![w] = Idle] /\ UNCHANGED row
    BY <1>10 DEF Reply
  <2>2. acked' \subseteq Events /\ \A e \in acked' : row[e].status # "ABSENT"
    BY <1>10, <2>1 DEF Reply, InboxInv, LeaseInv, TypeOK, RepliersRecorded, HandlersHaveEvents
  <2>3. faults' \in 0..MaxFaults
    BY <1>1, <1>10 DEF Reply
  <2> QED
    BY <2>1, <2>2, <2>3, IdleWorker, HandlerLeavesLease DEF Idle
<1>11. ASSUME NEW w \in Workers, DbError(w) PROVE InboxInv'
  BY <1>1, <1>11, ReturnInv DEF DbError
<1>12. ASSUME NEW w \in Workers, Crash(w) PROVE InboxInv'
  <2>1. acked' \subseteq Events /\ \A e \in acked' : row[e].status # "ABSENT"
    BY <1>12 DEF Crash, InboxInv, LeaseInv, TypeOK, RepliersRecorded
  <2> QED
    BY <1>1, <1>12, <2>1, IdleWorker, HandlerLeavesLease DEF Crash, Idle
<1>13. ASSUME NEW e \in Events, Cleanup(e) PROVE InboxInv'
  <2>1. row' = [row EXCEPT ![e].payload = FALSE, ![e].sig = FALSE] /\ row[e] \in Row
    BY <1>13 DEF Cleanup, InboxInv, TypeOK
  <2>2. row' \in [Events -> Row]
    BY <2>1 DEF InboxInv, TypeOK, Row
  <2>3. \A d \in Events :
          /\ row'[d].status = row[d].status
          /\ row'[d].lease = row[d].lease
          /\ row'[d].age = row[d].age
          /\ d # e => row'[d].payload = row[d].payload
    BY <2>1 DEF InboxInv, TypeOK, Row
  <2>4. row[e].status = "SUCCEEDED" /\ UNCHANGED <<wk, acked, faults>>
    BY <1>13 DEF Cleanup, Cleanable
  <2> QED
    BY <2>2, <2>3, <2>4, QuietWrite
<1>14. ASSUME NEW e \in Events, SignatureAges(e) PROVE InboxInv'
  <2>1. row' = [row EXCEPT ![e].sig = FALSE] /\ row[e] \in Row
    BY <1>14 DEF SignatureAges, InboxInv, TypeOK
  <2>2. row' \in [Events -> Row]
    BY <2>1 DEF InboxInv, TypeOK, Row
  <2> QED
    BY <1>14, <2>1, <2>2, QuietWrite DEF SignatureAges, InboxInv, TypeOK, Row
<1> QED
  BY <1>2, <1>3, <1>4, <1>5, <1>6, <1>7, <1>8, <1>9, <1>10, <1>11, <1>12, <1>13, <1>14,
     ProcessInv, FinishHeldInv, TickInv DEF Next, Handle

\* What a step can do to the table: give one record to a new lease, record one
\* holder's outcome, or leave every record's status and lease as they are.
Claims(w) ==
  LET e == wk[w].ev IN
  /\ e \in Events /\ wk[w].lease \in Leases /\ row[e].lease # wk[w].lease
  /\ row[e].status # "SUCCEEDED"
  /\ row' = [row EXCEPT ![e] = Claimed(w)]
  /\ UNCHANGED acked
  /\ wk[w].pc # "finish" /\ wk' = [wk EXCEPT ![w].pc = "process"]
Settles(w) ==
  LET e == wk[w].ev IN
  /\ e \in Events /\ wk[w].pc = "finish"
  /\ row[e].status = "PROCESSING" /\ row[e].lease = wk[w].lease
  /\ row' = [row EXCEPT ![e].status = IF wk[w].ok THEN "SUCCEEDED" ELSE "FAILED",
                        ![e].age = NoAge]
  /\ UNCHANGED acked
  /\ Return(w, wk[w].ok)
KeepsStatus ==
  /\ DOMAIN row' = Events
  /\ \A e \in Events : row'[e].status = row[e].status /\ row'[e].lease = row[e].lease
  /\ acked' = acked \/ \E e \in Events : row[e].status # "ABSENT" /\ acked' = acked \cup {e}
  /\ \A w \in Workers : wk[w].pc = "finish" /\ wk'[w].pc = "reply" => ~wk'[w].ok

LEMMA StepShape ==
  InboxInv /\ [Next]_vars => (\E w \in Workers : Claims(w) \/ Settles(w)) \/ KeepsStatus
<1> SUFFICES ASSUME InboxInv, [Next]_vars
             PROVE  (\E w \in Workers : Claims(w) \/ Settles(w)) \/ KeepsStatus
  OBVIOUS
<1>1. row \in [Events -> Row] /\ wk \in [Workers -> Worker]
  BY DEF InboxInv, TypeOK
<1>2. CASE UNCHANGED vars
  BY <1>1, <1>2 DEF vars, KeepsStatus
<1>3. ASSUME NEW w \in Workers, NEW e \in Events, Deliver(w, e) \/ RetryGet(w, e)
      PROVE  KeepsStatus
  <2>1. wk[w].pc = "idle" /\ \A v \in Workers : v # w => wk'[v] = wk[v]
    BY <1>1, <1>3 DEF Deliver, RetryGet, StartClaim
  <2>2. UNCHANGED <<row, acked>>
    BY <1>3 DEF Deliver, RetryGet
  <2> QED
    BY <1>1, <2>1, <2>2 DEF KeepsStatus
<1>4. ASSUME NEW w \in Workers, RetryMark(w) PROVE KeepsStatus
  <2>1. wk[w].pc = "mark" /\ \A v \in Workers : v # w => wk'[v] = wk[v]
    BY <1>1, <1>4 DEF RetryMark, Return
  <2>2. DOMAIN row' = Events
    BY <1>1, <1>4 DEF RetryMark
  <2>3. \A e \in Events : row'[e].status = row[e].status /\ row'[e].lease = row[e].lease
    <3>1. row' = row \/ row' = [row EXCEPT ![wk[w].ev].age = NoAge]
      BY <1>4 DEF RetryMark
    <3> QED
      BY <1>1, <3>1 DEF Row
  <2> QED
    BY <1>4, <2>1, <2>2, <2>3 DEF RetryMark, KeepsStatus
<1>5. ASSUME NEW w \in Workers, RetryVerify(w) PROVE KeepsStatus
  <2>1. wk[w].pc = "verify" /\ \A v \in Workers : v # w => wk'[v] = wk[v]
    BY <1>1, <1>5 DEF RetryVerify, StartClaim, Return
  <2> QED
    BY <1>1, <1>5, <2>1 DEF RetryVerify, KeepsStatus
<1>6. ASSUME NEW w \in Workers, ClaimInsert(w) PROVE Claims(w) \/ KeepsStatus
  <2>1. /\ wk[w].pc = "insert" /\ wk[w].ev \in Events /\ wk[w].lease \in Leases
        /\ row[wk[w].ev].lease # wk[w].lease
    BY <1>6 DEF ClaimInsert, InboxInv, LeaseInv, ClaimersHoldNothing
  <2>2. \A v \in Workers : v # w => wk'[v] = wk[v]
    BY <1>1, <1>6 DEF ClaimInsert
  <2> QED
    BY <1>1, <1>6, <2>1, <2>2 DEF ClaimInsert, Claims, KeepsStatus
<1>7. ASSUME NEW w \in Workers, ClaimTakeover(w) PROVE Claims(w) \/ KeepsStatus
  <2>1. /\ wk[w].pc = "takeover" /\ wk[w].ev \in Events /\ wk[w].lease \in Leases
        /\ row[wk[w].ev].lease # wk[w].lease
    BY <1>7 DEF ClaimTakeover, InboxInv, LeaseInv, ClaimersHoldNothing
  <2>2. \A v \in Workers : v # w => wk'[v] = wk[v]
    BY <1>1, <1>7 DEF ClaimTakeover, Return
  <2>3. CASE Claimable(w, wk[w].ev)
    BY <1>7, <2>1, <2>3 DEF ClaimTakeover, Claims, Claimable
  <2>4. CASE ~Claimable(w, wk[w].ev)
    BY <1>1, <1>7, <2>1, <2>2, <2>4 DEF ClaimTakeover, KeepsStatus
  <2> QED BY <2>3, <2>4
<1>8. ASSUME NEW w \in Workers, Process(w) PROVE KeepsStatus
  <2>1. wk[w].pc = "process" /\ \A v \in Workers : v # w => wk'[v] = wk[v]
    BY <1>1, <1>8 DEF Process
  <2> QED
    BY <1>1, <1>8, <2>1 DEF Process, KeepsStatus
<1>9. ASSUME NEW w \in Workers, FinishHeld(w) PROVE Settles(w)
  BY <1>9 DEF FinishHeld, Holds, Settles, InboxInv, LeaseInv, HoldersOrOverrun, Processing
<1>10. ASSUME NEW w \in Workers, FinishLost(w) \/ DbError(w) PROVE KeepsStatus
  <2>1. Return(w, FALSE) /\ UNCHANGED <<row, acked>>
    BY <1>10 DEF FinishLost, DbError
  <2>2. ~wk'[w].ok /\ \A v \in Workers : v # w => wk'[v] = wk[v]
    BY <1>1, <2>1 DEF Return, Worker
  <2> QED
    BY <1>1, <2>1, <2>2 DEF KeepsStatus
<1>11. ASSUME NEW w \in Workers, Reply(w) \/ Crash(w) PROVE KeepsStatus
  <2>1. wk' = [wk EXCEPT ![w] = Idle] /\ UNCHANGED row
    BY <1>11 DEF Reply, Crash
  <2>2. wk'[w].pc = "idle" /\ \A v \in Workers : v # w => wk'[v] = wk[v]
    BY <1>1, <2>1 DEF Idle
  <2>3. acked' = acked \/ \E e \in Events : row[e].status # "ABSENT" /\ acked' = acked \cup {e}
    BY <1>11 DEF Reply, Crash, InboxInv, LeaseInv, RepliersRecorded, HandlersHaveEvents
  <2> QED
    BY <1>1, <2>1, <2>2, <2>3 DEF KeepsStatus
<1>12. ASSUME NEW e \in Events, Cleanup(e) \/ SignatureAges(e) PROVE KeepsStatus
  <2>1. UNCHANGED <<wk, acked>> /\ DOMAIN row' = Events
    BY <1>1, <1>12 DEF Cleanup, SignatureAges
  <2>2. \A d \in Events : row'[d].status = row[d].status /\ row'[d].lease = row[d].lease
    BY <1>1, <1>12 DEF Cleanup, SignatureAges, Row
  <2> QED
    BY <2>1, <2>2 DEF KeepsStatus
<1>13. CASE Tick
  BY <1>1, <1>13 DEF Tick, KeepsStatus, Row, Worker
<1> QED
  BY <1>2, <1>3, <1>4, <1>5, <1>6, <1>7, <1>8, <1>9, <1>10, <1>11, <1>12, <1>13
  DEF Next, Handle

\* The invariant holds throughout every behaviour of the inbox.
THEOREM InboxInvariant == Spec => []InboxInv
  BY InitInv, NextInv, PTL DEF Spec

\* TypeOK: every variable keeps its type.
THEOREM TypeCorrect == Spec => []TypeOK
<1>1. InboxInv => TypeOK
  BY DEF InboxInv
<1> QED
  BY <1>1, InboxInvariant, PTL

\* LeaseExclusion: of two handlers that work on one event one has overrun
\* PAYMENT_WEBHOOK_LEASE, for any number of handlers, events and ticks.
THEOREM LeaseExclusionHolds == Spec => []LeaseExclusion
<1>1. InboxInv => LeaseExclusion
  <2> SUFFICES ASSUME InboxInv, NEW v \in Workers, NEW w \in Workers, v # w,
                      Processing(v), Processing(w), wk[v].ev = wk[w].ev
               PROVE  wk[v].age > LeaseTime \/ wk[w].age > LeaseTime
    BY DEF LeaseExclusion
  <2>1. wk[v].lease # wk[w].lease
    BY NoneAssumption DEF InboxInv, LeaseInv, LeasesDistinct, HoldersOrOverrun
  <2>2. ~Owned(v) \/ ~Owned(w)
    BY <2>1 DEF Owned
  <2> QED
    BY <2>2 DEF InboxInv, LeaseInv, HoldersOrOverrun
<1> QED
  BY <1>1, InboxInvariant, PTL

\* Calm is OneHandlerEach as an inductive invariant.
Calm ==
  /\ \A w \in Workers : Processing(w) =>
       Owned(w) /\ wk[w].age <= LeaseTime /\ (wk[w].pc = "finish" => wk[w].ok)
  /\ \A e \in Events : /\ row[e].status # "FAILED"
                       /\ row[e].status = "PROCESSING" => \E w \in Workers : Handles(w, e)

\* A handler that has no event in hand before or after its step.
LEMMA CalmElsewhere ==
  ASSUME InboxInv, Calm, NEW w \in Workers, ~Processing(w), ~Processing(w)',
         \A v \in Workers : v # w => wk'[v] = wk[v],
         \A e \in Events : row'[e].status = row[e].status /\ row'[e].lease = row[e].lease
  PROVE  Calm'
<1>1. ASSUME NEW v \in Workers, Processing(v)'
      PROVE  Owned(v)' /\ wk'[v].age <= LeaseTime /\ (wk'[v].pc = "finish" => wk'[v].ok)
  <2>1. v # w /\ wk'[v] = wk[v] /\ Processing(v) /\ wk[v].ev \in Events
    BY <1>1 DEF Processing, InboxInv, LeaseInv, HoldersOrOverrun
  <2> QED
    BY <2>1 DEF Calm, Owned
<1>2. ASSUME NEW e \in Events, row[e].status = "PROCESSING"
      PROVE  \E v \in Workers : Handles(v, e)'
  <2>1. PICK v \in Workers : Handles(v, e)
    BY <1>2 DEF Calm
  <2>2. wk'[v] = wk[v]
    BY <2>1 DEF Handles
  <2> QED
    BY <2>1, <2>2 DEF Handles, Processing
<1> QED
  BY <1>1, <1>2 DEF Calm

\* While nothing goes wrong no record can be taken over: its handler is younger
\* than a lease.
LEMMA CalmTakesNothing ==
  ASSUME InboxInv, Calm, NEW w \in Workers, ClaimTakeover(w)
  PROVE  ~Claimable(w, wk[w].ev)
<1> DEFINE e == wk[w].ev
<1>1. e \in Events /\ wk[w].age \in Nat /\ row[e].age \in Int
  BY LeaseTimeAssumption, MaxStallAssumption
  DEF ClaimTakeover, InboxInv, LeaseInv, ClaimersHoldNothing, TypeOK, Row, Ages, NoAge, Cap
<1>2. ASSUME row[e].status = "PROCESSING", Expired(w, e) PROVE FALSE
  <2>1. PICK v \in Workers : Handles(v, e)
    BY <1>1, <1>2 DEF Calm
  <2>2. row[e].age = wk[v].age /\ wk[v].age <= LeaseTime
    BY <2>1 DEF Calm, Handles, InboxInv, LeaseInv, HoldersOrOverrun
  <2> QED
    BY <1>1, <1>2, <2>2, LeaseTimeAssumption DEF Expired
<1>3. row[e].status # "FAILED"
  BY <1>1 DEF Calm
<1> QED
  BY <1>2, <1>3 DEF Claimable

LEMMA CalmStep ==
  ASSUME InboxInv, Calm, [Next]_vars, MaxStall <= LeaseTime, faults' = faults
  PROVE  Calm'
<1>1. row \in [Events -> Row] /\ wk \in [Workers -> Worker] /\ ~Fault
  BY MaxFaultsAssumption DEF InboxInv, TypeOK, Fault
<1>2. CASE UNCHANGED vars
  BY <1>2 DEF vars, Calm, Processing, Owned, Handles
<1>3. ASSUME NEW w \in Workers, NEW e \in Events, Deliver(w, e) \/ RetryGet(w, e)
      PROVE  Calm'
  <2>1. /\ ~Processing(w) /\ ~Processing(w)' /\ UNCHANGED row
        /\ \A v \in Workers : v # w => wk'[v] = wk[v]
    BY <1>1, <1>3 DEF Deliver, RetryGet, StartClaim, Processing, Idle
  <2> QED
    BY <2>1, CalmElsewhere
<1>4. ASSUME NEW w \in Workers, RetryMark(w) \/ RetryVerify(w) \/ Reply(w) PROVE Calm'
  <2>1. /\ ~Processing(w) /\ ~Processing(w)'
        /\ \A v \in Workers : v # w => wk'[v] = wk[v]
    <3>1. CASE RetryMark(w)
      BY <1>1, <3>1 DEF RetryMark, Return, Processing, Worker
    <3>2. CASE RetryVerify(w)
      <4>1. wk[w] \in Worker /\ wk[w].pc = "verify" /\ (StartClaim(w, wk[w]) \/ Return(w, FALSE))
        BY <1>1, <3>2 DEF RetryVerify
      <4>2. wk'[w].pc \in {"insert", "reply"} /\ \A v \in Workers : v # w => wk'[v] = wk[v]
        BY <1>1, <4>1 DEF StartClaim, Return, Worker
      <4> QED
        BY <4>1, <4>2 DEF Processing
    <3>3. CASE Reply(w)
      BY <1>1, <3>3 DEF Reply, Processing, Idle
    <3> QED
      BY <1>4, <3>1, <3>2, <3>3
  <2>2. row' = row \/ row' = [row EXCEPT ![wk[w].ev].age = NoAge]
    BY <1>4 DEF RetryMark, RetryVerify, Reply
  <2>3. \A e \in Events : row'[e].status = row[e].status /\ row'[e].lease = row[e].lease
    BY <1>1, <2>2 DEF Row
  <2> QED
    BY <2>1, <2>3, CalmElsewhere
<1>5. ASSUME NEW w \in Workers, ClaimInsert(w) PROVE Calm'
  <2> DEFINE e == wk[w].ev
  <2>1. /\ e \in Events /\ wk[w].lease \in Leases /\ wk[w].age \in 0..MaxStall
        /\ wk[w].pc = "insert" /\ \A d \in Events : row[d].lease # wk[w].lease
    BY <1>5 DEF ClaimInsert, InboxInv, LeaseInv, ClaimersHoldNothing
  <2>2. CASE row[e].status # "ABSENT"
    <3>1. /\ ~Processing(w) /\ ~Processing(w)' /\ UNCHANGED row
          /\ \A v \in Workers : v # w => wk'[v] = wk[v]
      BY <1>1, <1>5, <2>2 DEF ClaimInsert, Processing, Worker
    <3> QED
      BY <3>1, CalmElsewhere
  <2>3. CASE row[e].status = "ABSENT"
    <3>1. row' = [row EXCEPT ![e] = Claimed(w)] /\ wk' = [wk EXCEPT ![w].pc = "process"]
      BY <1>5, <2>3 DEF ClaimInsert
    <3>2. /\ \A d \in Events : d # e => row'[d] = row[d]
          /\ row'[e].status = "PROCESSING" /\ row'[e].lease = wk[w].lease
      BY <1>1, <2>1, <3>1 DEF Claimed
    <3>3. /\ \A v \in Workers : v # w => wk'[v] = wk[v]
          /\ wk'[w].pc = "process" /\ wk'[w].ev = e
          /\ wk'[w].lease = wk[w].lease /\ wk'[w].age = wk[w].age
      BY <1>1, <3>1 DEF Worker
    <3>4. \A v \in Workers : Processing(v) => wk[v].ev # e
      BY <2>3 DEF Calm, InboxInv, LeaseInv, HoldersOrOverrun
    <3>5. ASSUME NEW v \in Workers, Processing(v)'
          PROVE  Owned(v)' /\ wk'[v].age <= LeaseTime /\ (wk'[v].pc = "finish" => wk'[v].ok)
      <4>1. CASE v = w
        BY <2>1, <3>2, <3>3, <4>1, MaxStallAssumption, LeaseTimeAssumption DEF Owned
      <4>2. CASE v # w
        <5>1. wk'[v] = wk[v] /\ Processing(v) /\ wk[v].ev \in Events /\ wk[v].ev # e
          BY <3>3, <3>4, <3>5, <4>2 DEF Processing, InboxInv, LeaseInv, HoldersOrOverrun
        <5> QED
          BY <3>2, <5>1 DEF Calm, Owned
      <4> QED
        BY <4>1, <4>2
    <3>6. ASSUME NEW d \in Events, row'[d].status = "PROCESSING"
          PROVE  \E v \in Workers : Handles(v, d)'
      <4>1. CASE d = e
        BY <3>3, <4>1 DEF Handles, Processing
      <4>2. CASE d # e
        <5>1. PICK v \in Workers : Handles(v, d)
          BY <3>2, <3>6, <4>2 DEF Calm
        <5>2. v # w
          BY <2>1, <5>1 DEF Handles, Processing
        <5> QED
          BY <3>3, <5>1, <5>2 DEF Handles, Processing
      <4> QED
        BY <4>1, <4>2
    <3>7. \A d \in Events : row'[d].status # "FAILED"
      BY <3>2 DEF Calm
    <3> QED
      BY <3>5, <3>6, <3>7 DEF Calm
  <2> QED
    BY <2>2, <2>3
<1>6. ASSUME NEW w \in Workers, ClaimTakeover(w) PROVE Calm'
  <2>1. Return(w, TRUE) /\ UNCHANGED row /\ wk[w].pc = "takeover"
    BY <1>6, CalmTakesNothing DEF ClaimTakeover
  <2>2. /\ ~Processing(w) /\ ~Processing(w)'
        /\ \A v \in Workers : v # w => wk'[v] = wk[v]
    BY <1>1, <2>1 DEF Return, Processing, Worker
  <2> QED
    BY <2>1, <2>2, CalmElsewhere
<1>7. ASSUME NEW w \in Workers, Process(w) PROVE Calm'
  <2>1. wk[w].pc = "process" /\ wk' = [wk EXCEPT ![w].pc = "finish", ![w].ok = TRUE]
        /\ UNCHANGED row
    BY <1>1, <1>7 DEF Process
  <2>2. /\ \A v \in Workers : v # w => wk'[v] = wk[v]
        /\ wk'[w].pc = "finish" /\ wk'[w].ok /\ wk'[w].ev = wk[w].ev
        /\ wk'[w].lease = wk[w].lease /\ wk'[w].age = wk[w].age
    BY <1>1, <2>1 DEF Worker
  <2>3. \A v \in Workers : Processing(v)' => Processing(v)
    BY <2>1, <2>2 DEF Processing
  <2>4. ASSUME NEW e \in Events, NEW v \in Workers, Handles(v, e) PROVE Handles(v, e)'
    BY <2>2, <2>4 DEF Handles, Processing
  <2>5. ASSUME NEW v \in Workers, Processing(v)'
        PROVE  Owned(v)' /\ wk'[v].age <= LeaseTime /\ (wk'[v].pc = "finish" => wk'[v].ok)
    <3>1. Processing(v) /\ Owned(v) /\ wk[v].age <= LeaseTime
      BY <2>3, <2>5 DEF Calm
    <3> QED
      BY <2>1, <2>2, <2>5, <3>1 DEF Calm, Owned
  <2> QED
    BY <2>1, <2>4, <2>5 DEF Calm
<1>8. ASSUME NEW w \in Workers, FinishHeld(w) PROVE Calm'
  <2> DEFINE e == wk[w].ev
  <2>1. wk[w].pc = "finish" /\ e \in Events /\ wk[w].ok /\ row[e].lease = wk[w].lease
    BY <1>8 DEF FinishHeld, Calm, Owned, Processing, InboxInv, LeaseInv, HoldersOrOverrun
  <2>2. /\ row'[e].status = "SUCCEEDED"
        /\ \A d \in Events : row'[d].lease = row[d].lease
        /\ \A d \in Events : d # e => row'[d] = row[d]
    BY <1>1, <1>8, <2>1 DEF FinishHeld, Row
  <2>3. ~Processing(w)' /\ \A v \in Workers : v # w => wk'[v] = wk[v]
    BY <1>1, <1>8 DEF FinishHeld, Return, Processing, Worker
  <2>4. ASSUME NEW v \in Workers, Processing(v)'
        PROVE  Owned(v)' /\ wk'[v].age <= LeaseTime /\ (wk'[v].pc = "finish" => wk'[v].ok)
    <3>1. wk'[v] = wk[v] /\ Processing(v) /\ wk[v].ev \in Events
      BY <2>3, <2>4 DEF Processing, InboxInv, LeaseInv, HoldersOrOverrun
    <3> QED
      BY <2>2, <3>1 DEF Calm, Owned
  <2>5. ASSUME NEW d \in Events, row'[d].status = "PROCESSING"
        PROVE  \E v \in Workers : Handles(v, d)'
    <3>1. d # e /\ row[d].status = "PROCESSING"
      BY <2>2, <2>5
    <3>2. PICK v \in Workers : Handles(v, d)
      BY <3>1 DEF Calm
    <3> QED
      BY <2>3, <3>1, <3>2 DEF Handles, Processing
  <2> QED
    BY <2>2, <2>4, <2>5 DEF Calm
<1>9. ASSUME NEW w \in Workers, FinishLost(w) PROVE FALSE
  BY <1>9 DEF FinishLost, Holds, Calm, Processing, Owned, InboxInv, LeaseInv, HoldersOrOverrun
<1>10. ASSUME NEW e \in Events, Cleanup(e) \/ SignatureAges(e) PROVE Calm'
  <2>1. /\ UNCHANGED wk
        /\ \A d \in Events : row'[d].status = row[d].status /\ row'[d].lease = row[d].lease
    BY <1>1, <1>10 DEF Cleanup, SignatureAges, Row
  <2> QED
    BY <2>1 DEF Calm, Processing, Owned, Handles, InboxInv, LeaseInv, HoldersOrOverrun
<1>11. CASE Tick
  <2>1. ~Overrun
    BY <1>1, <1>11 DEF Tick
  <2>2. /\ \A e \in Events : row'[e].status = row[e].status /\ row'[e].lease = row[e].lease
        /\ \A w \in Workers : /\ wk'[w].pc = wk[w].pc /\ wk'[w].ev = wk[w].ev
                              /\ wk'[w].lease = wk[w].lease /\ wk'[w].ok = wk[w].ok
                              /\ wk'[w].age = Older(wk[w].age) /\ wk[w].age \in Ages
    BY <1>1, <1>11 DEF Tick, Row, Worker
  <2>3. ASSUME NEW w \in Workers, Processing(w), wk[w].age <= LeaseTime
        PROVE  Older(wk[w].age) <= LeaseTime
    <3>1. wk[w].age # LeaseTime
      BY <2>1, <2>3 DEF Overrun, Processing
    <3> QED
      BY <2>2, <2>3, <3>1, LeaseTimeAssumption, MaxStallAssumption DEF Older, Ages, NoAge, Cap
  <2> QED
    BY <2>2, <2>3 DEF Calm, Processing, Owned, Handles, InboxInv, LeaseInv, HoldersOrOverrun
<1>12. ASSUME NEW w \in Workers, DbError(w) \/ Crash(w) PROVE FALSE
  BY <1>1, <1>12 DEF DbError, Crash
<1> QED
  BY <1>2, <1>3, <1>4, <1>5, <1>6, <1>7, <1>8, <1>9, <1>10, <1>11, <1>12 DEF Next, Handle

\* OneHandlerEach: as long as nothing goes wrong, the overlap of deliveries,
\* duplicates and retries alone makes no event be processed twice, lost or
\* FAILED, for any number of handlers and events.
THEOREM OneHandlerEachHolds == Spec => []OneHandlerEach
<1>1. Init => (Undisturbed => Calm)
  BY DEF Init, NoRow, Idle, Undisturbed, Calm, Processing
<1>2. InboxInv /\ (Undisturbed => Calm) /\ [Next]_vars => (Undisturbed => Calm)'
  <2> SUFFICES ASSUME InboxInv, Undisturbed => Calm, [Next]_vars, Undisturbed' PROVE Calm'
    OBVIOUS
  <2>1. faults' \in {faults, faults + 1}
    BY DEF Next, Handle, Deliver, RetryGet, RetryMark, RetryVerify, ClaimInsert, ClaimTakeover,
           Process, FinishHeld, FinishLost, Reply, DbError, Crash, Cleanup, SignatureAges, Tick,
           Fault, vars
  <2>2. faults = 0 /\ faults' = faults /\ MaxStall <= LeaseTime
    BY <2>1, MaxFaultsAssumption DEF Undisturbed, InboxInv, TypeOK
  <2> QED
    BY <2>2, CalmStep DEF Undisturbed
<1>3. InboxInv /\ (Undisturbed => Calm) => OneHandlerEach
  <2> SUFFICES ASSUME InboxInv, Calm, NEW e \in Events
               PROVE  /\ row[e].status # "FAILED"
                      /\ row[e].status = "PROCESSING" <=> \E w \in Workers : Handles(w, e)
                      /\ \A v, w \in Workers : Handles(v, e) /\ Handles(w, e) => v = w
    BY DEF OneHandlerEach
  <2>1. ASSUME NEW w \in Workers, Handles(w, e)
        PROVE  row[e].status = "PROCESSING" /\ wk[w].lease = row[e].lease /\ wk[w].lease # None
    BY <2>1, NoneAssumption DEF Handles, Calm, Owned, InboxInv, LeaseInv, HoldersOrOverrun
  <2>2. ASSUME NEW v \in Workers, NEW w \in Workers, Handles(v, e), Handles(w, e) PROVE v = w
    BY <2>1, <2>2 DEF InboxInv, LeaseInv, LeasesDistinct
  <2> QED
    BY <2>1, <2>2 DEF Calm
<1> QED
  BY <1>1, <1>2, <1>3, InboxInvariant, PTL DEF Spec

\* PayloadKept: an event that can still be processed has its payload.
THEOREM PayloadKeptHolds == Spec => []PayloadKept
<1>1. InboxInv => PayloadKept
  BY DEF InboxInv, LeaseInv
<1> QED
  BY <1>1, InboxInvariant, PTL

\* SucceededIsFinal: no interleaving of deliveries, retries, crashes and
\* clean-ups takes an event out of SUCCEEDED.
THEOREM SucceededIsFinalHolds == Spec => SucceededIsFinal
<1> DEFINE Final == \A e \in Events : row[e].status = "SUCCEEDED" => row'[e].status = "SUCCEEDED"
<1>1. InboxInv /\ [Next]_vars => Final
  <2> SUFFICES ASSUME InboxInv, [Next]_vars, NEW e \in Events, row[e].status = "SUCCEEDED"
               PROVE  row'[e].status = "SUCCEEDED"
    OBVIOUS
  <2>1. ASSUME NEW w \in Workers, Claims(w) \/ Settles(w) PROVE row'[e] = row[e]
    BY <2>1 DEF Claims, Settles, InboxInv, TypeOK
  <2> QED
    BY <2>1, StepShape DEF KeepsStatus
<1>2. InboxInv /\ [Next]_vars => [Final]_vars
  BY <1>1
<1> QED
  BY <1>2, InboxInvariant, PTL DEF SucceededIsFinal, Spec

\* OnlyHolderFinishes: PROCESSING ends only by the handler that holds the lease.
THEOREM OnlyHolderFinishesHolds == Spec => OnlyHolderFinishes
<1> DEFINE ByHolder == \A e \in Events :
             row[e].status = "PROCESSING" /\ row'[e].status # "PROCESSING"
               => \E w \in Workers : wk[w].pc = "finish" /\ wk[w].ev = e /\ Owned(w)
<1>1. InboxInv /\ [Next]_vars => ByHolder
  <2> SUFFICES ASSUME InboxInv, [Next]_vars, NEW e \in Events,
                      row[e].status = "PROCESSING", row'[e].status # "PROCESSING"
               PROVE  \E w \in Workers : wk[w].pc = "finish" /\ wk[w].ev = e /\ Owned(w)
    OBVIOUS
  <2>1. ASSUME NEW w \in Workers, Claims(w) PROVE FALSE
    BY <2>1 DEF Claims, Claimed, InboxInv, TypeOK
  <2>2. ASSUME NEW w \in Workers, Settles(w)
        PROVE  wk[w].pc = "finish" /\ wk[w].ev = e /\ Owned(w)
    BY <2>2 DEF Settles, Owned, InboxInv, TypeOK
  <2> QED
    BY <2>1, <2>2, StepShape DEF KeepsStatus
<1>2. InboxInv /\ [Next]_vars => [ByHolder]_vars
  BY <1>1
<1> QED
  BY <1>2, InboxInvariant, PTL DEF OnlyHolderFinishes, Spec

\* FinishedOkIsDurable: a handler that worked on an event and returns nil
\* leaves it SUCCEEDED.
THEOREM FinishedOkIsDurableHolds == Spec => FinishedOkIsDurable
<1> DEFINE Durable == \A w \in Workers :
             wk[w].pc = "finish" /\ wk'[w].pc = "reply" /\ wk'[w].ok
               => row'[wk[w].ev].status = "SUCCEEDED"
<1>1. InboxInv /\ [Next]_vars => Durable
  <2> SUFFICES ASSUME InboxInv, [Next]_vars, NEW w \in Workers,
                      wk[w].pc = "finish", wk'[w].pc = "reply", wk'[w].ok
               PROVE  row'[wk[w].ev].status = "SUCCEEDED"
    OBVIOUS
  <2>1. ASSUME NEW v \in Workers, Claims(v) PROVE FALSE
    BY <2>1 DEF Claims, InboxInv, TypeOK
  <2>2. ASSUME NEW v \in Workers, Settles(v) PROVE row'[wk[w].ev].status = "SUCCEEDED"
    <3>1. v = w
      BY <2>2 DEF Settles, Return, InboxInv, TypeOK
    <3>2. wk[w].ok
      BY <2>2, <3>1 DEF Settles, Return, InboxInv, TypeOK, Worker
    <3> QED
      BY <2>2, <3>1, <3>2 DEF Settles, InboxInv, TypeOK, Row
  <2> QED
    BY <2>1, <2>2, StepShape DEF KeepsStatus
<1>2. InboxInv /\ [Next]_vars => [Durable]_vars
  BY <1>1
<1> QED
  BY <1>2, InboxInvariant, PTL DEF FinishedOkIsDurable, Spec

\* ImplementsLifecycle: the inbox, with its clock, its handlers and their
\* faults, implements the five-line promise of WebhookLifecycle.
THEOREM InboxImplementsLifecycle == Spec => ImplementsLifecycle
<1>1. Init => Lifecycle!Init
  BY DEF Init, NoRow, Lifecycle!Init
<1>2. InboxInv /\ [Next]_vars => [Lifecycle!Next]_Lifecycle!vars
  <2> SUFFICES ASSUME InboxInv, [Next]_vars PROVE [Lifecycle!Next]_Lifecycle!vars
    OBVIOUS
  <2> DEFINE status == [e \in Events |-> row[e].status]
             holder == [e \in Events |-> row[e].lease]
  <2>1. ASSUME NEW w \in Workers, Claims(w) PROVE Lifecycle!Next
    <3> DEFINE e == wk[w].ev
    <3>1. /\ e \in Events /\ wk[w].lease \in Leases /\ UNCHANGED acked
          /\ holder[e] # wk[w].lease /\ status[e] \in {"ABSENT", "FAILED", "PROCESSING"}
      BY <2>1 DEF Claims, InboxInv, TypeOK, Row
    <3>2. status' = [status EXCEPT ![e] = "PROCESSING"] /\ holder' = [holder EXCEPT ![e] = wk[w].lease]
      BY <2>1 DEF Claims, Claimed, InboxInv, TypeOK
    <3>3. CASE status[e] = "PROCESSING"
      <4>1. UNCHANGED status
        BY <3>1, <3>2, <3>3
      <4> QED
        BY <3>1, <3>2, <3>3, <4>1 DEF Lifecycle!Next, Lifecycle!TakeOver
    <3>4. CASE status[e] \in {"ABSENT", "FAILED"}
      BY <3>1, <3>2, <3>4 DEF Lifecycle!Next, Lifecycle!Accept
    <3> QED
      BY <3>1, <3>3, <3>4
  <2>2. ASSUME NEW w \in Workers, Settles(w) PROVE Lifecycle!Next
    <3> DEFINE e == wk[w].ev
               outcome == IF wk[w].ok THEN "SUCCEEDED" ELSE "FAILED"
    <3>1. e \in Events /\ UNCHANGED acked /\ status[e] = "PROCESSING"
      BY <2>2 DEF Settles
    <3>2. status' = [status EXCEPT ![e] = outcome] /\ UNCHANGED holder
      BY <2>2 DEF Settles, InboxInv, TypeOK, Row
    <3> QED
      BY <3>1, <3>2 DEF Lifecycle!Next, Lifecycle!Settle
  <2>3. CASE KeepsStatus
    <3>1. UNCHANGED <<status, holder>>
      BY <2>3 DEF KeepsStatus
    <3> QED
      BY <2>3, <3>1 DEF KeepsStatus, Lifecycle!Next, Lifecycle!Acknowledge, Lifecycle!vars
  <2> QED
    BY <2>1, <2>2, <2>3, StepShape
<1> QED
  BY <1>1, <1>2, InboxInvariant, PTL DEF Spec, ImplementsLifecycle, Lifecycle!Spec
=============================================================================
