------------------------ MODULE ConsentTimelineProofs -------------------------
(***************************************************************************)
(* Proofs about ConsentTimeline for any sets of keys, timelines and        *)
(* details.  A specification that implements it inherits them.             *)
(***************************************************************************)
EXTENDS ConsentTimeline, TLAPS

-------------------------------------------------------------------------------
(* The inductive invariant.                                                *)

TimelineTypeOK ==
    /\ consents \in [Timeline -> Row]
    /\ events \subseteq Entry
    /\ idem \in [Key -> [body: Body, entry: Entry] \cup {None}]

StartsAtNoRow == \A t \in Timeline : consents[t].version = 0 => consents[t] = NoRow

TimelineInv ==
    /\ TimelineTypeOK
    /\ StartsAtNoRow
    /\ TimelineIntact
    /\ OneEntryPerKey

\* The entry a body adds and the row it leaves.
LEMMA NextEntryType ==
    ASSUME NEW r \in Row, NEW b \in Body
    PROVE  /\ NextEntry(r, b) \in Entry
           /\ RowAfter(NextEntry(r, b)) \in Row
BY DEF NextEntry, RowAfter, Row, Body, Entry, NextStatus, Status

LEMMA TimelineInitInv == TimelineInit => TimelineInv
<1> SUFFICES ASSUME TimelineInit PROVE TimelineInv
  OBVIOUS
<1> USE DEF TimelineInit
<1>1. NoRow \in Row
  BY DEF NoRow, Row, Status
<1>2. TimelineTypeOK /\ StartsAtNoRow /\ OneEntryPerKey
  BY <1>1 DEF TimelineTypeOK, StartsAtNoRow, OneEntryPerKey
<1>3. TimelineIntact
  <2>1. events = {} /\ \A t \in Timeline : consents[t].version = 0
    BY DEF NoRow
  <2>2. 1 .. 0 = {}
    OBVIOUS
  <2>3. QED
    BY <2>1, <2>2 DEF TimelineIntact, GapFree, NoFork, PointerIsLatest, LegalHistory
<1>4. QED
  BY <1>2, <1>3 DEF TimelineInv

\* Recording a body extends its timeline by a legal successor and leaves every
\* other timeline and key alone.
LEMMA RecordKeepsInv ==
    ASSUME None \notin [body: Body, entry: Entry],
           TimelineInv, NEW k \in Key, NEW b \in Body, Record(k, b)
    PROVE  TimelineInv'
<1> DEFINE n == consents[b.timeline].version
           e == NextEntry(consents[b.timeline], b)
<1>0. TimelineTypeOK /\ StartsAtNoRow /\ TimelineIntact /\ OneEntryPerKey
  BY DEF TimelineInv
<1>1. /\ b.timeline \in Timeline /\ n \in Nat
      /\ \A t \in Timeline : consents[t] \in Row /\ consents[t].version \in Nat
      /\ events \subseteq Entry /\ \A f \in events : f.version \in Nat
  BY <1>0 DEF TimelineTypeOK, Body, Row, Entry
<1>2. /\ e.timeline = b.timeline /\ e.version = n + 1 /\ e.action = b.action
      /\ e.details = b.details /\ e.status = NextStatus(b.action)
  BY DEF NextEntry
<1>3. e \in Entry /\ RowAfter(e) \in Row
  BY <1>1, NextEntryType
<1>4. /\ idem[k] = None
      /\ Allowed(consents[b.timeline].status, b.action)
      /\ consents' = [consents EXCEPT ![b.timeline] = RowAfter(e)]
      /\ events' = events \cup {e}
      /\ idem' = [idem EXCEPT ![k] = [body |-> b, entry |-> e]]
  BY DEF Record
<1> HIDE DEF e
<1>5. /\ consents'[b.timeline] = RowAfter(e)
      /\ consents'[b.timeline].version = n + 1
      /\ \A t \in Timeline : t # b.timeline => consents'[t] = consents[t]
  BY <1>0, <1>1, <1>2, <1>4 DEF TimelineTypeOK, RowAfter
<1>6. TimelineTypeOK'
  BY <1>0, <1>1, <1>3, <1>4 DEF TimelineTypeOK
<1>7. \A f \in events : f.timeline = b.timeline => f.version \in 1 .. n
  BY <1>0, <1>1 DEF TimelineIntact, GapFree
<1>8. StartsAtNoRow'
  <2>1. ASSUME NEW t \in Timeline, consents'[t].version = 0 PROVE consents'[t] = NoRow
    BY <1>0, <1>1, <1>5, <2>1 DEF StartsAtNoRow
  <2>2. QED
    BY <2>1 DEF StartsAtNoRow
<1>9. ASSUME NEW t \in Timeline
      PROVE  (GapFree(t) /\ NoFork(t) /\ PointerIsLatest(t) /\ LegalHistory(t))'
  <2>0. GapFree(t) /\ NoFork(t) /\ PointerIsLatest(t) /\ LegalHistory(t)
    BY <1>0 DEF TimelineIntact
  <2>1. CASE t # b.timeline
    <3>1. \A f \in events' : f.timeline = t => f \in events
      BY <1>2, <1>4, <2>1
    <3>2. QED
      BY <1>4, <1>5, <2>0, <2>1, <3>1 DEF GapFree, NoFork, PointerIsLatest, LegalHistory
  <2>2. CASE t = b.timeline
    <3>1. GapFree(t)'
      <4>1. \A f \in events' : f.timeline = t => f.version \in 1 .. consents'[t].version
        BY <1>1, <1>2, <1>4, <1>5, <1>7, <2>2
      <4>2. ASSUME NEW m \in 1 .. consents'[t].version
            PROVE  \E f \in events' : f.timeline = t /\ f.version = m
        <5>1. CASE m = n + 1
          BY <1>2, <1>4, <2>2, <5>1
        <5>2. CASE m # n + 1
          <6>1. m \in Nat /\ 1 <= m /\ m <= n + 1
            BY <1>1, <1>5, <2>2
          <6>2. m \in 1 .. consents[t].version
            BY <1>1, <2>2, <5>2, <6>1
          <6>3. QED
            BY <1>4, <2>0, <6>2 DEF GapFree
        <5>3. QED
          BY <5>1, <5>2
      <4>3. QED
        BY <4>1, <4>2 DEF GapFree
    <3>2. NoFork(t)'
      BY <1>1, <1>2, <1>4, <1>7, <2>0, <2>2 DEF NoFork
    <3>3. PointerIsLatest(t)'
      BY <1>1, <1>2, <1>4, <1>5, <1>7, <2>2 DEF PointerIsLatest
    <3>4. LegalHistory(t)'
      <4>1. e.version = 1 => Allowed("NONE", e.action)
        <5>1. e.version = 1 => consents[b.timeline] = NoRow
          BY <1>0, <1>1, <1>2 DEF StartsAtNoRow
        <5>2. QED
          BY <1>2, <1>4, <5>1 DEF NoRow
      <4>2. \A f \in events :
              f.timeline = t /\ e.version = f.version + 1 => Allowed(f.status, e.action)
        <5>1. ASSUME NEW f \in events, f.timeline = t, e.version = f.version + 1
              PROVE  f.status = consents[b.timeline].status
          <6>1. f.version = consents[t].version
            BY <1>1, <1>2, <2>2, <5>1
          <6>2. consents[t] = RowAfter(f)
            BY <2>0, <5>1, <6>1 DEF PointerIsLatest
          <6>3. QED
            BY <2>2, <6>2 DEF RowAfter
        <5>2. QED
          BY <1>2, <1>4, <5>1
      <4>3. \A f \in events' : f.timeline = t /\ f # e => f.version # e.version + 1
        BY <1>1, <1>2, <1>4, <1>7, <2>2
      <4>4. e.version # e.version + 1
        BY <1>1, <1>2
      <4>5. QED
        BY <1>2, <1>4, <2>0, <4>1, <4>2, <4>3, <4>4 DEF LegalHistory
    <3>5. QED
      BY <3>1, <3>2, <3>3, <3>4
  <2>3. QED
    BY <2>1, <2>2
<1>10. TimelineIntact'
  BY <1>9 DEF TimelineIntact
<1>11. OneEntryPerKey'
  <2>1. e \notin events
    BY <1>1, <1>2, <1>7
  <2>2. /\ idem'[k].entry = e /\ idem'[k].body = b /\ idem'[k] # None
        /\ \A j \in Key : j # k => idem'[j] = idem[j]
    BY <1>0, <1>3, <1>4 DEF TimelineTypeOK
  <2>3. QED
    BY <1>0, <1>2, <1>4, <2>1, <2>2 DEF OneEntryPerKey
<1>12. QED
  BY <1>6, <1>8, <1>10, <1>11 DEF TimelineInv

LEMMA TimelineStepInv ==
    ASSUME None \notin [body: Body, entry: Entry],
           TimelineInv, [TimelineNext]_tvars
    PROVE  TimelineInv'
<1>1. CASE TimelineNext
  BY <1>1, RecordKeepsInv DEF TimelineNext
<1>2. CASE UNCHANGED tvars
  BY <1>2 DEF tvars, TimelineInv, TimelineTypeOK, StartsAtNoRow, TimelineIntact,
     GapFree, NoFork, PointerIsLatest, LegalHistory, OneEntryPerKey
<1>3. QED
  BY <1>1, <1>2

-------------------------------------------------------------------------------
(* The theorems.                                                           *)

\* The history that the promise of the ledger allows, for whoever implements it:
\* gap-free, fork-free and legal, with one entry per idempotency key.
THEOREM TimelineInvariance ==
    ASSUME None \notin [body: Body, entry: Entry]
    PROVE  TimelineSpec => []TimelineInv
<1>1. TimelineInit => TimelineInv
  BY TimelineInitInv
<1>2. TimelineInv /\ [TimelineNext]_tvars => TimelineInv'
  BY TimelineStepInv
<1>3. QED
  BY <1>1, <1>2, PTL DEF TimelineSpec

\* The ledger is append-only, one legal successor at a time.
THEOREM TimelineAppendOnly ==
    ASSUME None \notin [body: Body, entry: Entry]
    PROVE  TimelineSpec => [][Growing]_tvars
<1>1. ASSUME TimelineInv, NEW k \in Key, NEW b \in Body, Record(k, b) PROVE Growing
  <2>1. PICK e : e = NextEntry(consents[b.timeline], b)
    OBVIOUS
  <2>2. /\ idem[k] = None
        /\ Allowed(consents[b.timeline].status, b.action)
        /\ consents' = [consents EXCEPT ![b.timeline] = RowAfter(e)]
        /\ events' = events \cup {e}
        /\ idem' = [idem EXCEPT ![k] = [body |-> b, entry |-> e]]
    BY <1>1, <2>1 DEF Record
  <2>3. /\ e.timeline = b.timeline /\ e.action = b.action
        /\ e.version = consents[b.timeline].version + 1
    BY <2>1 DEF NextEntry
  <2>4. b.timeline \in Timeline /\ consents[b.timeline].version \in Nat
    BY <1>1 DEF TimelineInv, TimelineTypeOK, Body, Row
  <2>5. e \notin events
    <3>1. \A f \in events : f.timeline = b.timeline
                              => f.version \in 1 .. consents[b.timeline].version
      BY <1>1, <2>4 DEF TimelineInv, TimelineIntact, GapFree
    <3>2. consents[b.timeline].version + 1 \notin 1 .. consents[b.timeline].version
      BY <2>4
    <3>3. QED
      BY <2>3, <3>1, <3>2
  <2>6. \A j \in Key : idem[j] # None => idem'[j] = idem[j]
    BY <1>1, <2>2 DEF TimelineInv, TimelineTypeOK
  <2>7. ASSUME NEW t \in Timeline, consents'[t] # consents[t]
        PROVE  t = b.timeline /\ consents'[t] = RowAfter(e)
    BY <1>1, <2>2, <2>7 DEF TimelineInv, TimelineTypeOK
  <2>8. QED
    BY <2>2, <2>3, <2>5, <2>6, <2>7 DEF Growing
<1>2. TimelineInv /\ [TimelineNext]_tvars => [Growing]_tvars
  BY <1>1 DEF TimelineNext
<1>3. QED
  BY <1>2, TimelineInvariance, PTL DEF TimelineSpec
===============================================================================
