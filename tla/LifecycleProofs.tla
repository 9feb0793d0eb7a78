-------------------------- MODULE LifecycleProofs --------------------------
(***************************************************************************)
(* Ingestion implements SessionLifecycle.  IInv says what becomes of rows  *)
(* that are committed already; what is missing is that a row a transaction *)
(* has inserted is still ACTIVE when it commits, for which the snapshot    *)
(* handler has to know the row among those it has matched.                 *)
(***************************************************************************)
EXTENDS IngestionProofs

\* The statements at which a snapshot may hold the write lock.
Holding == {"items", "fallback", "create", "commit"}

\* Whoever writes has matched the rows it inserted, and left them ACTIVE.
InsertsOpen(w) ==
  /\ pc[w] \in Holding
  /\ \A s \in SessionId : vpnSessions[s] = None /\ work[s] # None =>
        /\ s \in job[w].matched
        /\ work[s].state = "ACTIVE"
        /\ dirty[w][s] # None => dirty[w][s].new.state = "ACTIVE"

LInv == IInv /\ \A w \in Worker : lock = w => InsertsOpen(w)

-----------------------------------------------------------------------------

\* A step of one worker while another one holds the lock, or of a worker that
\* leaves what it has read and written alone.
LEMMA InsertsKept ==
  ASSUME LInv, NEW w \in Worker, lock = w,
         UNCHANGED <<vpnSessions, lock, work>>,
         pc'[w] \in Holding, dirty'[w] = dirty[w], job'[w].matched = job[w].matched
  PROVE  InsertsOpen(w)'
  BY DEF LInv, InsertsOpen

\* A step that leaves the lock free has nothing to keep.
LEMMA LockFree ==
  ASSUME lock' = None
  PROVE  \A w \in Worker : (lock = w => InsertsOpen(w))'
  BY WorkerAssumption

\* What the steps outside the handler's writing part leave alone.
Elsewhere(w) ==
  /\ UNCHANGED <<vpnSessions, lock, work>>
  /\ \A v \in Worker \ {w} : pc'[v] = pc[v] /\ job'[v] = job[v] /\ dirty'[v] = dirty[v]

LEMMA ElsewhereKept ==
  ASSUME LInv, NEW w \in Worker, Elsewhere(w), lock = w => InsertsOpen(w)'
  PROVE  \A v \in Worker : (lock = v => InsertsOpen(v))'
<1> SUFFICES ASSUME NEW v \in Worker, lock' = v
             PROVE  InsertsOpen(v)'
  OBVIOUS
<1>1. lock = v
  BY DEF Elsewhere
<1>2. CASE v = w
  BY <1>1, <1>2
<1>3. CASE v # w
  <2>1. pc[v] \in Holding
    BY <1>1 DEF LInv, InsertsOpen
  <2> QED
    BY <1>1, <1>3, <2>1, InsertsKept DEF Elsewhere
<1> QED
  BY <1>2, <1>3

\* A worker whose statement is none of a writer's does not hold the lock.
LEMMA NotHolding ==
  ASSUME LInv, NEW w \in Worker, pc[w] \notin Holding
  PROVE  lock # w
  BY DEF LInv, InsertsOpen

\* The steps of requests that have not written yet.
LEMMA ReaderStep ==
  ASSUME LInv, NEW w \in Worker,
         \/ Receive(w) \/ Authenticate(w) \/ Respond(w) \/ LookupEvent(w)
         \/ ResolveSnapshot(w) \/ CloseForReboot(w)
  PROVE  /\ \A v \in Worker : (lock = v => InsertsOpen(v))'
         /\ vpnSessions' = vpnSessions
<1>1. pc[w] \notin Holding
  BY DEF Receive, Accept, Authenticate, Respond, LookupEvent, ResolveSnapshot, CloseForReboot, Holding
<1>2. Elsewhere(w)
  <2> USE DEF Elsewhere, database, Goto, IInv, LInv, TypeOK
  <2>1. CASE Receive(w)
    BY <2>1 DEF Receive, Accept
  <2>2. CASE Authenticate(w)
    BY <2>2 DEF Authenticate
  <2>3. CASE Respond(w)
    BY <2>3 DEF Respond
  <2>4. CASE LookupEvent(w)
    BY <2>4 DEF LookupEvent, AnswerUnchanged, Answer
  <2>5. CASE ResolveSnapshot(w)
    BY <2>5 DEF ResolveSnapshot, AnswerUnchanged, Answer
  <2>6. CASE CloseForReboot(w)
    BY <2>6 DEF CloseForReboot, CloseAll, Edit
  <2> QED
    BY <2>1, <2>2, <2>3, <2>4, <2>5, <2>6
<1> QED
  BY <1>1, <1>2, NotHolding, ElsewhereKept DEF Elsewhere

LEMMA AbortKeeps ==
  ASSUME LInv, NEW w \in Worker, Abort(w)
  PROVE  /\ \A v \in Worker : (lock = v => InsertsOpen(v))'
         /\ vpnSessions' = vpnSessions
<1>1. CASE lock = w
  BY <1>1, LockFree DEF Abort, database
<1>2. CASE lock # w
  <2>1. Elsewhere(w)
    BY <1>2 DEF Abort, Elsewhere, database, Goto, LInv, IInv, TypeOK
  <2> QED
    BY <1>2, <2>1, ElsewhereKept DEF Elsewhere
<1> QED
  BY <1>1, <1>2

-----------------------------------------------------------------------------
(* The steps that write.                                                   *)

\* What a flush makes of the rows the transaction has inserted.
LEMMA FlushedInserts ==
  ASSUME LInv, NEW w \in Worker, CanWrite(w),
         NEW s \in SessionId, vpnSessions[s] = None, Flushed(w)[s] # None
  PROVE  /\ s \in job[w].matched
         /\ Flushed(w)[s].state = "ACTIVE"
<1>1. View(w)[s] # None
  BY DEF LInv, IInv, ObjectsCoherent, Flushed
<1>2. lock = w /\ work[s] # None
  BY <1>1 DEF View
<1>3. /\ s \in job[w].matched /\ work[s].state = "ACTIVE"
      /\ dirty[w][s] # None => dirty[w][s].new.state = "ACTIVE"
  BY <1>2 DEF LInv, InsertsOpen
<1>4. CASE dirty[w][s] = None
  BY <1>2, <1>3, <1>4 DEF Flushed, View
<1>5. CASE dirty[w][s] # None
  <2>1. dirty[w][s].old.state = "ACTIVE"
    BY <1>5 DEF LInv, IInv, ObjectsCoherent
  <2>2. work[s] \in Row
    BY <1>2 DEF LInv, IInv, TypeOK, Opt
  <2>3. Flushed(w)[s] = MergedRow(work[s], dirty[w][s].old, dirty[w][s].new)
    BY <1>2, <1>5 DEF Flushed, View
  <2>4. Flushed(w)[s].state =
          Written(dirty[w][s].old.state, dirty[w][s].new.state, work[s].state)
    BY <2>2, <2>3 DEF MergedRow, Row
  <2> QED
    BY <1>3, <1>5, <2>1, <2>4 DEF Written
<1> QED
  BY <1>3, <1>4, <1>5

LEMMA StoreEventOpens ==
  ASSUME LInv, NEW w \in Worker, StoreEvent(w)
  PROVE  /\ \A v \in Worker : (lock = v => InsertsOpen(v))'
         /\ \A s \in SessionId : vpnSessions[s] = None /\ vpnSessions'[s] # None =>
               vpnSessions'[s].state = "ACTIVE"
<1> DEFINE e == job[w].request
<1>1. vpnSessions \in [SessionId -> Opt(Row)]
  BY DEF LInv, IInv, TypeOK
<1>2. lock' = None
  <2>1. CASE InsertRefused(e) /\ AnswerUnchanged(w, "duplicate")
    BY <2>1 DEF InsertRefused, AnswerUnchanged
  <2>2. CASE lock = None /\ (ApplyConnect(w, e) \/ ApplyDisconnect(w, e))
    BY <2>2 DEF ApplyConnect, ApplyDisconnect, CommitEvent
  <2> QED
    BY <2>1, <2>2 DEF StoreEvent
<1>3. ASSUME NEW s \in SessionId, vpnSessions[s] = None, vpnSessions'[s] # None
      PROVE  vpnSessions'[s].state = "ACTIVE"
  <2>1. CASE AnswerUnchanged(w, "duplicate")
    BY <1>3, <2>1 DEF AnswerUnchanged, database
  <2>2. CASE ApplyConnect(w, e)
    <3>1. ASSUME NEW t \in Latest(vpnSessions, ActiveFor(vpnSessions, e)),
                 vpnSessions' = [vpnSessions EXCEPT ![t] = ReconnectRow(@, e)]
          PROVE  FALSE
      BY <1>1, <1>3, <3>1 DEF Latest, ActiveFor, ActiveIn
    <3>2. ASSUME NEW t \in SessionId,
                 vpnSessions' = [vpnSessions EXCEPT ![t] = EventRow(e)]
          PROVE  vpnSessions'[s].state = "ACTIVE"
      BY <1>1, <1>3, <3>2 DEF EventRow
    <3> QED
      BY <2>2, <3>1, <3>2 DEF ApplyConnect, CommitEvent
  <2>3. CASE ApplyDisconnect(w, e)
    BY <1>1, <1>3, <2>3 DEF ApplyDisconnect, CommitEvent, Latest, ActiveFor, ActiveIn
  <2> QED
    BY <2>1, <2>2, <2>3 DEF StoreEvent
<1> QED
  BY <1>2, <1>3, LockFree

LEMMA FlushRebootOpens ==
  ASSUME LInv, NEW w \in Worker, FlushReboot(w)
  PROVE  /\ \A v \in Worker : (lock = v => InsertsOpen(v))'
         /\ vpnSessions' = vpnSessions
<1>1. pc[w] = "flush" /\ lock # w
  BY NotHolding DEF FlushReboot, Holding
<1>2. lock = None /\ lock' = w
  BY <1>1 DEF FlushReboot, CanWrite
<1>3. pc'[w] = "items"
  BY GotoTyped DEF FlushReboot, LInv, Statement
<1>4. ASSUME NEW s \in SessionId, vpnSessions[s] = None, Flushed(w)[s] # None
      PROVE  FALSE
  BY <1>2, <1>4 DEF LInv, IInv, ObjectsCoherent, Flushed, View
<1>5. vpnSessions' = vpnSessions /\ work' = Flushed(w)
  BY DEF FlushReboot, database
<1>6. InsertsOpen(w)'
  BY <1>3, <1>4, <1>5 DEF InsertsOpen, Holding
<1> QED
  BY <1>2, <1>5, <1>6

LEMMA CreateReconciledOpens ==
  ASSUME LInv, NEW w \in Worker, CreateReconciled(w)
  PROVE  /\ \A v \in Worker : (lock = v => InsertsOpen(v))'
         /\ vpnSessions' = vpnSessions
<1> DEFINE p == job[w].request
           item == job[w].item
<1>1. PICK s \in SessionId :
        /\ work' = [Flushed(w) EXCEPT ![s] = ReconciledRow(p, item)]
        /\ job' = [job EXCEPT ![w].todo = @ \ {item},
                              ![w].item = None,
                              ![w].matched = @ \cup {s}]
  BY DEF CreateReconciled
<1>2. /\ CanWrite(w) /\ lock' = w /\ dirty' = [dirty EXCEPT ![w] = Nothing]
      /\ vpnSessions' = vpnSessions
  BY DEF CreateReconciled, database
<1>3. pc'[w] = "items"
  BY GotoTyped DEF CreateReconciled, LInv, Statement
<1>4. job'[w].matched = job[w].matched \cup {s}
  BY <1>1 DEF LInv, IInv, TypeOK, Job
<1>5. dirty'[w] = Nothing
  BY <1>2 DEF LInv, IInv, TypeOK
<1>6. ReconciledRow(p, item).state = "ACTIVE"
  BY DEF ReconciledRow
<1>7. ASSUME NEW t \in SessionId, vpnSessions[t] = None, work'[t] # None
      PROVE  t \in job'[w].matched /\ work'[t].state = "ACTIVE"
  <2>1. DOMAIN Flushed(w) = SessionId
    BY DEF Flushed
  <2>2. CASE t = s
    BY <1>1, <1>4, <1>6, <2>1, <2>2
  <2>3. CASE t # s
    <3>1. work'[t] = Flushed(w)[t]
      BY <1>1, <2>1, <2>3
    <3> QED
      BY <1>2, <1>4, <1>7, <3>1, FlushedInserts
  <2> QED
    BY <2>2, <2>3
<1>8. InsertsOpen(w)'
  BY <1>2, <1>3, <1>5, <1>7 DEF InsertsOpen, Holding, Nothing
<1> QED
  BY <1>2, <1>8

LEMMA CommitSnapshotOpens ==
  ASSUME LInv, NEW w \in Worker, CommitSnapshot(w)
  PROVE  /\ \A v \in Worker : (lock = v => InsertsOpen(v))'
         /\ \A s \in SessionId : vpnSessions[s] = None /\ vpnSessions'[s] # None =>
               vpnSessions'[s].state = "ACTIVE"
  BY LockFree, FlushedInserts DEF CommitSnapshot

-----------------------------------------------------------------------------
(* The steps that edit objects.                                            *)

\* A match refreshes the row, which keeps its state.
LEMMA MatchOpens ==
  ASSUME LInv, NEW w \in Worker, pc[w] \in Holding,
         NEW item \in Item, NEW s \in ActiveIn(View(w)), Match(w, item, s)
  PROVE  Elsewhere(w) /\ (lock = w => InsertsOpen(w)')
<1>1. /\ dirty \in [Worker -> [SessionId -> Opt(Object)]]
      /\ job \in [Worker -> Job] /\ pc \in [Worker -> Statement]
  BY DEF LInv, IInv, TypeOK
<1> DEFINE edited == [t \in {s} |-> RefreshRow(Loaded(w, t).new, job[w].request, item)]
<1>2. /\ \A t \in SessionId : dirty'[w][t] =
            IF t = s THEN [Loaded(w, s) EXCEPT !.new = edited[s]] ELSE dirty[w][t]
      /\ \A v \in Worker \ {w} : dirty'[v] = dirty[v]
  BY <1>1 DEF Match, Edit
<1>3. job'[w].matched = job[w].matched \cup {s}
  BY <1>1 DEF Match, Job
<1>4. pc'[w] = "items"
  BY <1>1 DEF Match, Goto
<1>5. Elsewhere(w)
  BY <1>1, <1>2 DEF Match, Elsewhere, Goto, database
<1>6. ASSUME lock = w
      PROVE  InsertsOpen(w)'
  <2>1. View(w) = work /\ InsertsOpen(w)
    BY <1>6 DEF View, LInv
  <2>2. UNCHANGED <<vpnSessions, work>>
    BY DEF Match, database
  <2>3. ASSUME NEW t \in SessionId, vpnSessions[t] = None, work[t] # None,
               dirty'[w][t] # None
        PROVE  dirty'[w][t].new.state = "ACTIVE"
    <3>1. CASE t # s
      BY <1>2, <2>1, <2>3, <3>1 DEF InsertsOpen
    <3>2. CASE t = s
      <4>1. Loaded(w, s) \in Object
        BY LoadedCoherent DEF LInv
      <4>2. Loaded(w, s).new.state = "ACTIVE"
        BY <2>1, <2>3, <3>2 DEF Loaded, InsertsOpen
      <4>3. RefreshRow(Loaded(w, s).new, job[w].request, item).state = "ACTIVE"
        BY <4>1, <4>2 DEF RefreshRow, Object, Row
      <4>4. [Loaded(w, s) EXCEPT !.new = edited[s]].new = edited[s]
        BY <4>1 DEF Object
      <4> QED
        BY <1>2, <3>2, <4>3, <4>4
    <3> QED
      BY <3>1, <3>2
  <2> QED
    BY <1>3, <1>4, <2>1, <2>2, <2>3 DEF InsertsOpen, Holding
<1> QED
  BY <1>5, <1>6

LEMMA FindByRouterSessionIdOpens ==
  ASSUME LInv, NEW w \in Worker, FindByRouterSessionId(w)
  PROVE  /\ \A v \in Worker : (lock = v => InsertsOpen(v))'
         /\ vpnSessions' = vpnSessions
<1>1. pc[w] = "items" /\ pc[w] \in Holding
  BY DEF FindByRouterSessionId, Holding
<1>2. job \in [Worker -> Job] /\ job[w].todo \subseteq Item /\ pc \in [Worker -> Statement]
  BY DEF LInv, IInv, TypeOK, Job
<1>3. PICK item \in job[w].todo :
        \/ \E s \in Latest(View(w), WithRouterSessionId(View(w), job[w].request, item)) :
              Match(w, item, s)
        \/ /\ job' = [job EXCEPT ![w].item = item]
           /\ Goto(w, "fallback")
           /\ UNCHANGED <<database, lock, work, dirty>>
  BY DEF FindByRouterSessionId
<1>4. CASE \E s \in Latest(View(w), WithRouterSessionId(View(w), job[w].request, item)) :
              Match(w, item, s)
  <2>1. PICK s \in Latest(View(w), WithRouterSessionId(View(w), job[w].request, item)) :
              Match(w, item, s)
    BY <1>4
  <2>2. s \in ActiveIn(View(w))
    BY DEF Latest, WithRouterSessionId, Coverable
  <2>3. Elsewhere(w) /\ (lock = w => InsertsOpen(w)')
    BY <1>1, <1>2, <2>1, <2>2, MatchOpens
  <2> QED
    BY <2>3, ElsewhereKept DEF Elsewhere
<1>5. CASE /\ job' = [job EXCEPT ![w].item = item]
           /\ Goto(w, "fallback")
           /\ UNCHANGED <<database, lock, work, dirty>>
  <2>1. Elsewhere(w)
    BY <1>2, <1>5 DEF Elsewhere, Goto, database
  <2>2. pc'[w] = "fallback" /\ job'[w].matched = job[w].matched /\ dirty'[w] = dirty[w]
    BY <1>2, <1>5 DEF Goto, Job
  <2>3. lock = w => InsertsOpen(w)'
    BY <2>1, <2>2, InsertsKept DEF Elsewhere, Holding, LInv, InsertsOpen
  <2> QED
    BY <2>1, <2>3, ElsewhereKept DEF Elsewhere
<1> QED
  BY <1>3, <1>4, <1>5

LEMMA FindEventFallbackOpens ==
  ASSUME LInv, NEW w \in Worker, FindEventFallback(w)
  PROVE  /\ \A v \in Worker : (lock = v => InsertsOpen(v))'
         /\ vpnSessions' = vpnSessions
<1>1. pc[w] = "fallback" /\ pc[w] \in Holding
  BY DEF FindEventFallback, Holding
<1>2. job[w].item \in Item /\ pc \in [Worker -> Statement]
  BY <1>1 DEF LInv, IInv, RequestTyped, TypeOK
<1>3. CASE \E s \in FallbackCandidates(View(w), job[w].request, job[w].item) :
              Match(w, job[w].item, s)
  <2>1. PICK s \in FallbackCandidates(View(w), job[w].request, job[w].item) :
              Match(w, job[w].item, s)
    BY <1>3
  <2>2. s \in ActiveIn(View(w))
    BY DEF FallbackCandidates, Coverable
  <2>3. Elsewhere(w) /\ (lock = w => InsertsOpen(w)')
    BY <1>1, <1>2, <2>1, <2>2, MatchOpens
  <2> QED
    BY <2>3, ElsewhereKept DEF Elsewhere
<1>4. CASE Goto(w, "create") /\ UNCHANGED <<database, lock, work, job, dirty>>
  <2>1. Elsewhere(w) /\ pc'[w] = "create"
    BY <1>2, <1>4 DEF Elsewhere, Goto, database
  <2>2. lock = w => InsertsOpen(w)'
    BY <1>4, <2>1, InsertsKept DEF Elsewhere, Holding
  <2> QED
    BY <2>1, <2>2, ElsewhereKept DEF Elsewhere
<1> QED
  BY <1>3, <1>4 DEF FindEventFallback

\* The rows it inserted are matched, so they are not missing.
LEMMA CloseMissingOpens ==
  ASSUME LInv, NEW w \in Worker, CloseMissing(w)
  PROVE  /\ \A v \in Worker : (lock = v => InsertsOpen(v))'
         /\ vpnSessions' = vpnSessions
<1>1. /\ dirty \in [Worker -> [SessionId -> Opt(Object)]]
      /\ job \in [Worker -> Job] /\ pc \in [Worker -> Statement]
  BY DEF LInv, IInv, TypeOK
<1> DEFINE missing == {s \in Coverable(View(w), job[w].request.observed) :
                          View(w)[s].source = job[w].request.source} \ job[w].matched
<1>2. CloseAll(w, missing, "RECONCILIATION")
  BY DEF CloseMissing
<1> HIDE DEF missing
<1>3. /\ \A t \in SessionId : t \notin missing => dirty'[w][t] = dirty[w][t]
      /\ \A v \in Worker \ {w} : dirty'[v] = dirty[v]
  BY <1>1, <1>2 DEF CloseAll, Edit
<1>4. pc'[w] = "commit" /\ job' = job
  BY <1>1 DEF CloseMissing, Goto
<1>5. Elsewhere(w)
  BY <1>1, <1>3 DEF CloseMissing, Elsewhere, Goto, database
<1>6. ASSUME lock = w
      PROVE  InsertsOpen(w)'
  <2>1. InsertsOpen(w) /\ UNCHANGED <<vpnSessions, work>>
    BY <1>5, <1>6 DEF LInv, Elsewhere
  <2>2. \A t \in job[w].matched : t \notin missing
    BY DEF missing
  <2> QED
    BY <1>3, <1>4, <2>1, <2>2 DEF InsertsOpen, Holding
<1> QED
  BY <1>5, <1>6, ElsewhereKept DEF Elsewhere

-----------------------------------------------------------------------------
(* Every step is a Commit of SessionLifecycle, or changes no row.          *)

LEMMA NextLInv ==
  ASSUME LInv, [Next]_vars
  PROVE  /\ LInv'
         /\ \A s \in SessionId : vpnSessions[s] = None /\ vpnSessions'[s] # None =>
               vpnSessions'[s].state = "ACTIVE"
<1>1. IInv'
  BY NextIInv DEF LInv
<1>2. CASE UNCHANGED vars
  BY <1>1, <1>2 DEF vars, database, LInv, InsertsOpen
<1>3. ASSUME NEW w \in Worker, Step(w)
      PROVE  /\ \A v \in Worker : (lock = v => InsertsOpen(v))'
             /\ \A s \in SessionId : vpnSessions[s] = None /\ vpnSessions'[s] # None =>
                   vpnSessions'[s].state = "ACTIVE"
  BY <1>3, ReaderStep, AbortKeeps, StoreEventOpens, FlushRebootOpens,
     FindByRouterSessionIdOpens, FindEventFallbackOpens, CreateReconciledOpens,
     CloseMissingOpens, CommitSnapshotOpens
  DEF Step, EventStep, SnapshotStep
<1> QED
  BY <1>1, <1>2, <1>3 DEF Next, LInv

\* The instance's copies of the row definitions are the module's own.
LEMMA SameRows ==
  /\ Lifecycle!Opt(Lifecycle!Row) = Opt(Row)
  /\ \A row : Lifecycle!Coherent(row) <=> Coherent(row)
  /\ \A row, later : Lifecycle!Succeeds(row, later) <=> Succeeds(row, later)
<1>1. Lifecycle!Row = Row
  BY DEF Lifecycle!Row, Row, Lifecycle!Identity, Identity, Lifecycle!Opt, Opt,
         Lifecycle!Attributes, Attributes, Lifecycle!Column, Column,
         Lifecycle!Reason, Reason
<1> QED
  BY <1>1
  DEF Lifecycle!Opt, Opt, Lifecycle!Coherent, Coherent,
      Lifecycle!EndIsComplete, EndIsComplete, Lifecycle!EndIsCovered, EndIsCovered,
      Lifecycle!Max0, Max0, Lifecycle!Succeeds, Succeeds,
      Lifecycle!SameConnection, SameConnection

LEMMA StepIsCommit ==
  ASSUME LInv, [Next]_vars
  PROVE  [Lifecycle!Commit]_vpnSessions
<1>1. IInv' /\ Continues(vpnSessions, vpnSessions')
  BY NextIInv DEF LInv
<1>2. vpnSessions' \in [SessionId -> Opt(Row)]
  BY <1>1 DEF IInv, TypeOK
<1>3. ASSUME NEW s \in SessionId
      PROVE  Lifecycle!Moves(vpnSessions[s], vpnSessions'[s])
  <2> DEFINE before == vpnSessions[s]
             after == vpnSessions'[s]
  <2>1. before \in Opt(Row) /\ after \in Opt(Row)
    BY <1>2 DEF LInv, IInv, TypeOK
  <2>2. after # None => Coherent(after)
    BY <1>1 DEF IInv, TableCoherent
  <2>3. CASE before = None /\ after = None
    BY <2>3 DEF Lifecycle!Moves
  <2>4. CASE before = None /\ after # None
    BY <2>2, <2>4, NextLInv, SameRows DEF Lifecycle!Moves, Lifecycle!Opens
  <2>5. CASE before # None
    <3>1. after # None /\ Succeeds(before, after)
      BY <1>1, <2>5 DEF Continues
    <3>2. before.state \in {"ACTIVE", "CLOSED"} /\ after.state \in {"ACTIVE", "CLOSED"}
      BY <2>1, <2>5, <3>1 DEF Opt, Row
    <3> QED
      BY <2>2, <2>5, <3>1, <3>2, SameRows
      DEF Lifecycle!Moves, Lifecycle!Refreshes, Lifecycle!Closes, Lifecycle!Amends
  <2> QED
    BY <2>3, <2>4, <2>5
<1> QED
  BY <1>2, <1>3, SameRows DEF Lifecycle!Commit

\* The ingestion API implements the session state model: whatever requests
\* overlap and wherever they are cut off, each commit opens ACTIVE rows,
\* refreshes, closes or amends rows of the same connection, and no row is
\* reopened, removed, handed to another connection or left incoherent.
THEOREM Implementation == Spec => ImplementsLifecycle
<1>1. Init => LInv
  BY InitIInv, WorkerAssumption DEF Init, LInv
<1>2. LInv /\ [Next]_vars => LInv'
  BY NextLInv
<1>3. Init => Lifecycle!Init
  BY DEF Init, Lifecycle!Init, Nothing
<1>4. LInv /\ [Next]_vars => [Lifecycle!Commit]_vpnSessions
  BY StepIsCommit
<1> QED
  BY <1>1, <1>2, <1>3, <1>4, PTL DEF Spec, ImplementsLifecycle, Lifecycle!Spec
=============================================================================
