-------------------------- MODULE IngestionProofs --------------------------
(***************************************************************************)
(* Machine-checked proofs about Ingestion, for any number of workers,      *)
(* sessions, payloads and instants.                                        *)
(***************************************************************************)
EXTENDS Ingestion, FiniteSetTheorems, FunctionTheorems, TLAPS

-----------------------------------------------------------------------------
(* The row operators stay within Row.                                      *)

LEMMA Max0Type == \A n \in Int : Max0(n) \in Nat
  BY DEF Max0

\* _apply_connect inserts a well-formed row.
LEMMA EventRowType ==
  ASSUME NEW e \in Event
  PROVE  EventRow(e) \in Row
  BY DEF EventRow, Row, Event, Opt

\* So does _create_reconciled_session.
LEMMA ReconciledRowType ==
  ASSUME NEW p \in Snapshot, NEW item \in Item
  PROVE  ReconciledRow(p, item) \in Row
<1>1. /\ p.source \in Source /\ p.observed \in Int /\ p.boot \in Opt(BootId)
  BY DEF Snapshot
<1>2. /\ item.rsid \in RouterSessionId /\ item.who \in Identity
      /\ item.attrs \in Attributes /\ item.uptime \in Opt(Nat)
  BY DEF Item
<1>3. (IF item.uptime = None THEN p.observed ELSE p.observed - item.uptime) \in Int
  BY <1>1, <1>2 DEF Opt
<1> QED
  BY <1>1, <1>2, <1>3 DEF ReconciledRow, Row, Opt

LEMMA ReconnectRowType ==
  ASSUME NEW row \in Row, NEW e \in Event
  PROVE  ReconnectRow(row, e) \in Row
<1>1. e.attrs \in Attributes /\ e.occurred \in Int
  BY DEF Event
<1>2. [row.attrs EXCEPT !["caller"] = e.attrs["caller"], !["addr"] = e.attrs["addr"]]
        \in Attributes
  BY <1>1 DEF Row, Attributes, Column
<1> QED
  BY <1>1, <1>2 DEF ReconnectRow, Row

LEMMA CloseRowType ==
  ASSUME NEW row \in Row, NEW at \in Int, NEW why \in Reason
  PROVE  CloseRow(row, at, why) \in Row
<1>1. Max0(at - row.connected) \in Nat
  BY Max0Type DEF Row
<1> QED
  BY <1>1 DEF CloseRow, Row, Opt

LEMMA RefreshRowType ==
  ASSUME NEW row \in Row, NEW p \in Snapshot, NEW item \in Item
  PROVE  RefreshRow(row, p, item) \in Row
<1>1. p.observed \in Int /\ p.boot \in Opt(BootId)
  BY DEF Snapshot
<1>2. item.rsid \in RouterSessionId /\ item.attrs \in Attributes
  BY DEF Item
<1>3. [c \in Column |-> IF item.attrs[c] = None THEN row.attrs[c] ELSE item.attrs[c]]
        \in Attributes
  BY <1>2 DEF Row, Attributes
<1>4. (IF p.boot = None THEN row.boot ELSE p.boot) \in Opt(BootId)
  BY <1>1 DEF Row
<1> QED
  BY <1>1, <1>2, <1>3, <1>4 DEF RefreshRow, Row, Opt

LEMMA MergedRowType ==
  ASSUME NEW row \in Row, NEW old \in Row, NEW new \in Row
  PROVE  MergedRow(row, old, new) \in Row
<1>1. [c \in Column |-> Written(old.attrs[c], new.attrs[c], row.attrs[c])] \in Attributes
  BY DEF Row, Attributes, Written
<1>2. /\ Written(old.state, new.state, row.state) \in {"ACTIVE", "CLOSED"}
      /\ Written(old.rsid, new.rsid, row.rsid) \in Opt(RouterSessionId)
      /\ Written(old.boot, new.boot, row.boot) \in Opt(BootId)
      /\ Written(old.observed, new.observed, row.observed) \in Int
      /\ Written(old.disconnected, new.disconnected, row.disconnected) \in Opt(Int)
      /\ Written(old.duration, new.duration, row.duration) \in Opt(Nat)
      /\ Written(old.reason, new.reason, row.reason) \in Opt(Reason)
  BY DEF Row, Written
<1> QED
  BY <1>1, <1>2 DEF MergedRow, Row

-----------------------------------------------------------------------------
(* The row operators keep a row's end columns coherent.                    *)

LEMMA NewRowCoherent ==
  /\ \A e \in Event : Coherent(EventRow(e))
  /\ \A p \in Snapshot, item \in Item : Coherent(ReconciledRow(p, item))
  BY DEF Coherent, EndIsComplete, EndIsCovered, EventRow, ReconciledRow

LEMMA ReconnectRowCoherent ==
  ASSUME NEW row \in Row, Coherent(row), NEW e \in Event
  PROVE  /\ Coherent(ReconnectRow(row, e))
         /\ Succeeds(row, ReconnectRow(row, e))
  BY DEF Coherent, EndIsComplete, EndIsCovered, ReconnectRow, Row, Succeeds, SameConnection

LEMMA RefreshRowCoherent ==
  ASSUME NEW row \in Row, Coherent(row), NEW p, NEW item \in Item
  PROVE  /\ Coherent(RefreshRow(row, p, item))
         /\ SameConnection(row, RefreshRow(row, p, item))
         /\ RefreshRow(row, p, item).rsid # None
         /\ RefreshRow(row, p, item).reason = row.reason
<1>1. item.rsid # None
  BY NoneAssumption DEF Item
<1> QED
  BY <1>1 DEF Coherent, EndIsComplete, EndIsCovered, RefreshRow, Row, SameConnection

\* Only a DISCONNECT may end a session before its connection.
LEMMA CloseRowCoherent ==
  ASSUME NEW row \in Row, NEW at \in Int, NEW why \in Reason,
         why = "DISCONNECT" \/ row.connected <= at
  PROVE  /\ Coherent(CloseRow(row, at, why))
         /\ SameConnection(row, CloseRow(row, at, why))
         /\ CloseRow(row, at, why).state = "CLOSED"
         /\ CloseRow(row, at, why).rsid = row.rsid
         /\ CloseRow(row, at, why).reason = why
<1>1. at # None /\ why # None
  BY NoneAssumption
<1> QED
  BY <1>1 DEF Coherent, EndIsComplete, EndIsCovered, CloseRow, Row, SameConnection

\* The UPDATE of an object loaded ACTIVE writes all end columns or none.
LEMMA MergedRowCoherent ==
  ASSUME NEW row \in Row, Coherent(row),
         NEW old \in Row, Coherent(old), old.state = "ACTIVE",
         NEW new \in Row, Coherent(new), SameConnection(row, new),
         old.rsid # None => new.rsid # None, new.reason # "DISCONNECT"
  PROVE  /\ Coherent(MergedRow(row, old, new))
         /\ Succeeds(row, MergedRow(row, old, new))
<1> DEFINE m == MergedRow(row, old, new)
<1>1. /\ m.connected = row.connected /\ new.connected = row.connected
      /\ SameConnection(row, m)
      /\ row.rsid # None => m.rsid # None
  BY DEF MergedRow, Row, SameConnection, Written
<1>2. /\ m.state = Written(old.state, new.state, row.state)
      /\ m.disconnected = Written(old.disconnected, new.disconnected, row.disconnected)
      /\ m.duration = Written(old.duration, new.duration, row.duration)
      /\ m.reason = Written(old.reason, new.reason, row.reason)
  BY DEF MergedRow, Row
<1>3. old.disconnected = None /\ old.reason = None /\ old.duration = None
  BY DEF Coherent, EndIsComplete
<1>4. CASE new.state = "ACTIVE"
  <2>1. new.disconnected = None /\ new.reason = None /\ new.duration = None
    BY <1>4 DEF Coherent, EndIsComplete
  <2>2. /\ m.state = row.state /\ m.disconnected = row.disconnected
        /\ m.duration = row.duration /\ m.reason = row.reason
    BY <1>2, <1>3, <1>4, <2>1 DEF Written
  <2> QED
    BY <1>1, <2>2 DEF Coherent, EndIsComplete, EndIsCovered, Succeeds
<1>5. CASE new.state = "CLOSED"
  <2>1. /\ new.disconnected # None /\ new.reason # None
        /\ new.duration = Max0(new.disconnected - new.connected)
    BY <1>5 DEF Coherent, EndIsComplete
  <2>2. new.disconnected \in Int /\ new.connected \in Int
    BY <2>1 DEF Row, Opt
  <2>3. new.duration # None
    BY <2>1, <2>2, Max0Type, NoneAssumption
  <2>4. /\ m.state = "CLOSED" /\ m.disconnected = new.disconnected
        /\ m.duration = new.duration /\ m.reason = new.reason
    BY <1>2, <1>3, <1>5, <2>1, <2>3 DEF Written
  <2> QED
    BY <1>1, <1>5, <2>1, <2>4 DEF Coherent, EndIsComplete, EndIsCovered, Succeeds
<1> QED
  BY <1>4, <1>5 DEF Row

-----------------------------------------------------------------------------
(* What a worker sees, loads and flushes.                                  *)

LEMMA ContinuesIsPreorder ==
  /\ \A t : Continues(t, t)
  /\ \A t, u, v : Continues(t, u) /\ Continues(u, v) => Continues(t, v)
  BY DEF Continues, Succeeds, SameConnection

LEMMA ViewCoherent ==
  ASSUME IInv, NEW w \in Worker
  PROVE  /\ View(w) \in [SessionId -> Opt(Row)]
         /\ TableCoherent(View(w))
         /\ Continues(vpnSessions, View(w))
  BY ContinuesIsPreorder DEF IInv, TypeOK, View

\* The object of an active row, edited or not.
LEMMA LoadedCoherent ==
  ASSUME IInv, NEW w \in Worker, NEW s \in ActiveIn(View(w))
  PROVE  /\ Loaded(w, s) \in Object
         /\ Loaded(w, s).old.state = "ACTIVE"
         /\ Coherent(Loaded(w, s).old)
         /\ Coherent(Loaded(w, s).new)
         /\ ObjectKept(Loaded(w, s))
         /\ View(w)[s] # None
         /\ SameConnection(View(w)[s], Loaded(w, s).new)
<1>1. s \in SessionId /\ View(w)[s] # None /\ View(w)[s].state = "ACTIVE"
  BY DEF ActiveIn
<1>2. View(w)[s] \in Row /\ Coherent(View(w)[s])
  BY <1>1, ViewCoherent DEF Opt, TableCoherent
<1>3. CASE dirty[w][s] = None
  <2>1. View(w)[s].reason = None /\ None # "DISCONNECT"
    BY <1>1, <1>2, NoneAssumption DEF Coherent, EndIsComplete, Reason
  <2> QED
    BY <1>1, <1>2, <1>3, <2>1 DEF Loaded, Object, ObjectKept, SameConnection
<1>4. CASE dirty[w][s] # None
  <2>1. dirty[w][s] \in Object
    BY <1>1, <1>4 DEF IInv, TypeOK, Opt
  <2> QED
    BY <1>1, <1>4, <2>1 DEF IInv, ObjectsCoherent, Loaded
<1> QED
  BY <1>3, <1>4

LEMMA FlushedCoherent ==
  ASSUME IInv, NEW w \in Worker
  PROVE  /\ Flushed(w) \in [SessionId -> Opt(Row)]
         /\ TableCoherent(Flushed(w))
         /\ Continues(View(w), Flushed(w))
<1> SUFFICES ASSUME NEW s \in SessionId
             PROVE  /\ Flushed(w)[s] \in Opt(Row)
                    /\ Flushed(w)[s] # None => Coherent(Flushed(w)[s])
                    /\ View(w)[s] # None =>
                          Flushed(w)[s] # None /\ Succeeds(View(w)[s], Flushed(w)[s])
  BY DEF Flushed, TableCoherent, Continues
<1>1. View(w)[s] \in Opt(Row) /\ (View(w)[s] # None => Coherent(View(w)[s]))
  BY ViewCoherent DEF TableCoherent
<1>2. CASE dirty[w][s] = None
  BY <1>1, <1>2 DEF Flushed, Succeeds, SameConnection
<1>3. CASE dirty[w][s] # None
  <2> DEFINE row == View(w)[s]
             old == dirty[w][s].old
             new == dirty[w][s].new
  <2>1. dirty[w][s] \in Object
    BY <1>3 DEF IInv, TypeOK, Opt
  <2>2. old \in Row /\ new \in Row
    BY <2>1 DEF Object
  <2>3. /\ row # None /\ SameConnection(row, new)
        /\ old.state = "ACTIVE" /\ Coherent(old) /\ Coherent(new)
        /\ old.rsid # None => new.rsid # None
        /\ new.reason # "DISCONNECT"
    BY <1>3 DEF IInv, ObjectsCoherent, ObjectKept
  <2>4. row \in Row /\ Coherent(row)
    BY <1>1, <2>3 DEF Opt
  <2>5. Flushed(w)[s] = MergedRow(row, old, new)
    BY <1>3 DEF Flushed
  <2>6. MergedRow(row, old, new) \in Row
    BY <2>2, <2>4, MergedRowType
  <2>7. Coherent(MergedRow(row, old, new)) /\ Succeeds(row, MergedRow(row, old, new))
    BY <2>2, <2>3, <2>4, MergedRowCoherent
  <2> QED
    BY <2>5, <2>6, <2>7, NoneAssumption DEF Opt
<1> QED
  BY <1>2, <1>3

\* The pending objects of a worker survive what others commit.
LEMMA ObjectsKept ==
  ASSUME IInv, NEW w \in Worker, dirty'[w] = dirty[w], Continues(View(w), View(w)')
  PROVE  ObjectsCoherent(w)'
  BY DEF IInv, ObjectsCoherent, Continues, Succeeds, SameConnection

\* A step that touches only the local variables of a request.
LEMMA LocalStep ==
  ASSUME IInv, UNCHANGED <<database, lock, work, dirty>>,
         pc' \in [Worker -> Statement], job' \in [Worker -> Job],
         \A w \in Worker : RequestTyped(w)'
  PROVE  IInv'
<1>1. TypeOK'
  BY DEF IInv, TypeOK, database
<1>2. \A w \in Worker : ObjectsCoherent(w)'
  BY DEF IInv, ObjectsCoherent, View, database
<1> QED
  BY <1>1, <1>2 DEF IInv, database

\* What a snapshot may assign to the object of a session.
MayBecome(w, s, row) ==
  /\ Coherent(row)
  /\ SameConnection(View(w)[s], row)
  /\ Loaded(w, s).old.rsid # None => row.rsid # None
  /\ row.reason # "DISCONNECT"

\* Assigning such rows to objects of active sessions.
LEMMA EditCoherent ==
  ASSUME IInv, NEW w \in Worker, NEW S \in SUBSET ActiveIn(View(w)),
         NEW edited \in [S -> Row],
         \A s \in S : MayBecome(w, s, edited[s]),
         Edit(w, edited), UNCHANGED <<database, lock, work>>
  PROVE  /\ dirty' \in [Worker -> [SessionId -> Opt(Object)]]
         /\ \A v \in Worker : ObjectsCoherent(v)'
<1>0. S \subseteq SessionId
  BY DEF ActiveIn
<1>1. ASSUME NEW s \in S
      PROVE  /\ [Loaded(w, s) EXCEPT !.new = edited[s]] \in Object
             /\ [Loaded(w, s) EXCEPT !.new = edited[s]].old = Loaded(w, s).old
             /\ [Loaded(w, s) EXCEPT !.new = edited[s]].new = edited[s]
  BY LoadedCoherent DEF Object
<1>2. dirty \in [Worker -> [SessionId -> Opt(Object)]]
  BY DEF IInv, TypeOK
<1>3. /\ dirty' \in [Worker -> [SessionId -> Opt(Object)]]
      /\ \A s \in SessionId :
            dirty'[w][s] = IF s \in S THEN [Loaded(w, s) EXCEPT !.new = edited[s]]
                                      ELSE dirty[w][s]
      /\ \A v \in Worker \ {w} : dirty'[v] = dirty[v]
  BY <1>1, <1>2 DEF Edit, Opt
<1>4. \A v \in Worker : View(v)' = View(v)
  BY DEF View, database
<1>5. ObjectsCoherent(w)'
  <2> SUFFICES ASSUME NEW s \in SessionId, dirty'[w][s] # None
               PROVE  /\ dirty'[w][s].old.state = "ACTIVE"
                      /\ Coherent(dirty'[w][s].old)
                      /\ Coherent(dirty'[w][s].new)
                      /\ ObjectKept(dirty'[w][s])
                      /\ View(w)[s] # None
                      /\ SameConnection(View(w)[s], dirty'[w][s].new)
    BY <1>4 DEF ObjectsCoherent
  <2>1. CASE s \in S
    <3>1. dirty'[w][s].old = Loaded(w, s).old /\ dirty'[w][s].new = edited[s]
      BY <1>1, <1>3, <2>1
    <3>2. s \in ActiveIn(View(w))
      BY <2>1
    <3>3. /\ Loaded(w, s).old.state = "ACTIVE" /\ Coherent(Loaded(w, s).old)
          /\ View(w)[s] # None
      BY <3>2, LoadedCoherent
    <3> QED
      BY <2>1, <3>1, <3>3 DEF ObjectKept, MayBecome
  <2>2. CASE s \notin S
    <3>1. dirty'[w][s] = dirty[w][s]
      BY <1>3, <2>2
    <3>2. ObjectsCoherent(w)
      BY DEF IInv
    <3> QED
      BY <3>1, <3>2 DEF ObjectsCoherent
  <2> QED
    BY <2>1, <2>2
<1>6. ASSUME NEW v \in Worker \ {w}
      PROVE  ObjectsCoherent(v)'
  BY <1>3, <1>4, ObjectsKept, ContinuesIsPreorder
<1> QED
  BY <1>3, <1>5, <1>6

\* The invariant after a step that edits objects, or after one that writes.
LEMMA EditStep ==
  ASSUME IInv, UNCHANGED <<database, lock, work>>,
         dirty' \in [Worker -> [SessionId -> Opt(Object)]],
         \A v \in Worker : ObjectsCoherent(v)',
         pc' \in [Worker -> Statement], job' \in [Worker -> Job],
         \A v \in Worker : RequestTyped(v)'
  PROVE  IInv'
<1>1. TypeOK'
  BY DEF IInv, TypeOK, database
<1> QED
  BY <1>1 DEF IInv, database

\* Moving one worker on, with its request as it is.
LEMMA GotoTyped ==
  ASSUME IInv, NEW w \in Worker, NEW statement \in Statement, Goto(w, statement)
  PROVE  /\ pc' \in [Worker -> Statement]
         /\ pc'[w] = statement
         /\ \A v \in Worker \ {w} : pc'[v] = pc[v]
  BY DEF IInv, TypeOK, Goto

LEMMA AnswerTyped ==
  ASSUME IInv, NEW w \in Worker, NEW reply \in Reply, Answer(w, reply)
  PROVE  /\ pc' \in [Worker -> Statement]
         /\ job' \in [Worker -> Job]
         /\ \A v \in Worker : RequestTyped(v)'
<1>1. /\ pc' \in [Worker -> Statement]
      /\ pc'[w] = "replied"
      /\ \A v \in Worker \ {w} : pc'[v] = pc[v]
  BY GotoTyped DEF Answer, Statement
<1>2. job[w] \in Job /\ job \in [Worker -> Job]
  BY DEF IInv, TypeOK
<1>3. [NoJob EXCEPT !.request = job[w].request, !.reply = reply] \in Job
  BY <1>2 DEF Job, NoJob, Opt
<1>4. /\ job' \in [Worker -> Job]
      /\ \A v \in Worker \ {w} : job'[v] = job[v]
  BY <1>2, <1>3 DEF Answer
<1>5. \A v \in Worker : RequestTyped(v)'
  BY <1>1, <1>4 DEF IInv, RequestTyped, SnapshotStatement
<1> QED
  BY <1>1, <1>4, <1>5

LEMMA AnswerUnchangedStep ==
  ASSUME IInv, NEW w \in Worker, NEW reply \in Reply, AnswerUnchanged(w, reply)
  PROVE  IInv'
  BY AnswerTyped, LocalStep DEF AnswerUnchanged

-----------------------------------------------------------------------------
(* Requests come and go.                                                   *)

LEMMA PayloadTyped ==
  /\ \A e \in Events : e \in Event /\ e.occurred \in Int
  /\ \A p \in Snapshots : /\ p \in Snapshot /\ p.source \in Source
                          /\ p.observed \in Int /\ p.boot \in Opt(BootId)
                          /\ p.items \subseteq Item
  BY PayloadAssumption DEF Event, Snapshot

LEMMA ReceiveStep ==
  ASSUME IInv, NEW w \in Worker, Receive(w)
  PROVE  IInv'
<1>1. job \in [Worker -> Job] /\ job[w] \in Job
  BY DEF IInv, TypeOK
<1>2. routerBootId \in Opt(BootId) /\ routerSnapshotAt \in Opt(Int)
  BY DEF IInv, TypeOK
<1>3. /\ pc' \in [Worker -> Statement] /\ pc'[w] = "authenticate"
      /\ \A v \in Worker \ {w} : pc'[v] = pc[v]
  BY GotoTyped DEF Receive, Accept, Statement
<1>4. job' \in [Worker -> Job] /\ \A v \in Worker \ {w} : job'[v] = job[v]
  <2>1. CASE \E e \in Events : job' = [job EXCEPT ![w].request = e]
    BY <1>1, <2>1 DEF Job, Opt, Request
  <2>2. CASE \E p \in Snapshots :
                job' = [job EXCEPT ![w] = [@ EXCEPT !.request = p,
                                                   !.boot = routerBootId,
                                                   !.mark = routerSnapshotAt]]
    <3>1. PICK p \in Snapshots :
                job' = [job EXCEPT ![w] = [@ EXCEPT !.request = p,
                                                   !.boot = routerBootId,
                                                   !.mark = routerSnapshotAt]]
      BY <2>2
    <3>2. [job[w] EXCEPT !.request = p, !.boot = routerBootId,
                         !.mark = routerSnapshotAt] \in Job
      BY <1>1, <1>2 DEF Job, Opt, Request
    <3> QED
      BY <1>1, <3>1, <3>2
  <2> QED
    BY <2>1, <2>2 DEF Receive, Accept
<1>5. \A v \in Worker : RequestTyped(v)'
  BY <1>3, <1>4 DEF IInv, RequestTyped, SnapshotStatement
<1> QED
  BY <1>3, <1>4, <1>5, LocalStep DEF Receive, Accept

LEMMA AuthenticateStep ==
  ASSUME IInv, NEW w \in Worker, Authenticate(w)
  PROVE  IInv'
<1>1. job \in [Worker -> Job]
  BY DEF IInv, TypeOK
<1>2. /\ pc' \in [Worker -> Statement]
      /\ \/ pc'[w] = "lookup" /\ job[w].request \in Events
         \/ pc'[w] = "resolve" /\ job[w].request \in Snapshots
      /\ \A v \in Worker \ {w} : pc'[v] = pc[v]
  BY GotoTyped DEF Authenticate, Statement
<1>3. \A v \in Worker : RequestTyped(v)'
  BY <1>2 DEF IInv, RequestTyped, SnapshotStatement, Authenticate
<1> QED
  BY <1>1, <1>2, <1>3, LocalStep DEF Authenticate

LEMMA NoJobTyped ==
  ASSUME IInv, NEW w \in Worker, Goto(w, "idle"), job' = [job EXCEPT ![w] = NoJob]
  PROVE  /\ pc' \in [Worker -> Statement] /\ job' \in [Worker -> Job]
         /\ \A v \in Worker : RequestTyped(v)'
<1>1. NoJob \in Job
  BY DEF NoJob, Job, Opt
<1>2. /\ job' \in [Worker -> Job]
      /\ \A v \in Worker \ {w} : job'[v] = job[v]
  BY <1>1 DEF IInv, TypeOK
<1>3. /\ pc' \in [Worker -> Statement] /\ pc'[w] = "idle"
      /\ \A v \in Worker \ {w} : pc'[v] = pc[v]
  BY GotoTyped DEF Statement
<1> QED
  BY <1>2, <1>3 DEF IInv, RequestTyped, SnapshotStatement

LEMMA RespondStep ==
  ASSUME IInv, NEW w \in Worker, Respond(w)
  PROVE  IInv'
  BY NoJobTyped, LocalStep DEF Respond

\* A rollback drops the worker's objects and, if it was writing, its table.
LEMMA AbortStep ==
  ASSUME IInv, NEW w \in Worker, Abort(w)
  PROVE  IInv'
<1>1. /\ pc' \in [Worker -> Statement] /\ job' \in [Worker -> Job]
      /\ \A v \in Worker : RequestTyped(v)'
  BY NoJobTyped DEF Abort
<1>2. /\ dirty' \in [Worker -> [SessionId -> Opt(Object)]]
      /\ dirty'[w] = Nothing
      /\ \A v \in Worker \ {w} : dirty'[v] = dirty[v]
  BY DEF IInv, TypeOK, Abort, Nothing, Opt
<1>3. /\ vpnSessions' = vpnSessions
      /\ lock' \in Opt(Worker)
      /\ work' \in {work, vpnSessions}
      /\ lock' = None => work' = vpnSessions
  BY DEF IInv, TypeOK, Abort, database, Opt
<1>4. TypeOK'
  BY <1>1, <1>2, <1>3 DEF IInv, TypeOK, Abort, database
<1>5. /\ TableCoherent(vpnSessions)' /\ TableCoherent(work)'
      /\ Continues(vpnSessions, work)'
  BY <1>3, ContinuesIsPreorder DEF IInv
<1>6. ASSUME NEW v \in Worker
      PROVE  ObjectsCoherent(v)'
  <2>1. CASE v = w
    BY <1>2, <2>1 DEF ObjectsCoherent, Nothing
  <2>2. CASE v # w
    <3>1. View(v)' = View(v)
      BY <1>3, <2>2, WorkerAssumption DEF View, Abort
    <3> QED
      BY <1>2, <2>2, <3>1, ObjectsKept, ContinuesIsPreorder
  <2> QED
    BY <2>1, <2>2
<1> QED
  BY <1>1, <1>3, <1>4, <1>5, <1>6 DEF IInv

-----------------------------------------------------------------------------
(* Events.                                                                 *)

LEMMA LookupEventStep ==
  ASSUME IInv, NEW w \in Worker, LookupEvent(w)
  PROVE  IInv'
<1>1. CASE \E reply \in Reply : AnswerUnchanged(w, reply)
  BY <1>1, AnswerUnchangedStep
<1>2. CASE /\ Goto(w, "insert")
           /\ UNCHANGED <<database, lock, work, job, dirty>>
  <2>1. /\ pc' \in [Worker -> Statement] /\ pc'[w] = "insert"
        /\ \A v \in Worker \ {w} : pc'[v] = pc[v]
    BY <1>2, GotoTyped DEF Statement
  <2>2. job' \in [Worker -> Job] /\ job' = job
    BY <1>2 DEF IInv, TypeOK
  <2>3. \A v \in Worker : RequestTyped(v)'
    BY <2>1, <2>2 DEF IInv, RequestTyped, SnapshotStatement, LookupEvent
  <2> QED
    BY <1>2, <2>1, <2>2, <2>3, LocalStep
<1> QED
  BY <1>1, <1>2 DEF LookupEvent, Reply

\* The commit of an event, given what it may do to the sessions.
LEMMA CommitEventStep ==
  ASSUME IInv, NEW w \in Worker, job[w].request \in Events, lock = None,
         NEW sessions \in [SessionId -> Opt(Row)],
         TableCoherent(sessions), Continues(vpnSessions, sessions),
         NEW reply \in Reply, CommitEvent(w, sessions, reply)
  PROVE  IInv' /\ Continues(vpnSessions, vpnSessions')
<1>1. /\ pc' \in [Worker -> Statement] /\ job' \in [Worker -> Job]
      /\ \A v \in Worker : RequestTyped(v)'
  BY AnswerTyped DEF CommitEvent
<1>2. TypeOK'
  BY <1>1 DEF IInv, TypeOK, CommitEvent
<1>3. vpnSessions' = sessions /\ work' = sessions /\ dirty' = dirty /\ lock' = None
  BY DEF CommitEvent
<1>4. ASSUME NEW v \in Worker
      PROVE  ObjectsCoherent(v)'
  <2>1. View(v) = vpnSessions /\ View(v)' = sessions
    BY <1>3, WorkerAssumption DEF View
  <2> QED
    BY <1>3, <2>1, ObjectsKept
<1>5. Continues(vpnSessions, work)'
  BY <1>3, ContinuesIsPreorder
<1> QED
  BY <1>1, <1>2, <1>3, <1>4, <1>5 DEF IInv

LEMMA ApplyConnectStep ==
  ASSUME IInv, NEW w \in Worker, lock = None, NEW e \in Events,
         job[w].request = e, ApplyConnect(w, e)
  PROVE  IInv' /\ Continues(vpnSessions, vpnSessions')
<1>1. vpnSessions \in [SessionId -> Opt(Row)] /\ TableCoherent(vpnSessions) /\ e \in Event
  BY PayloadTyped DEF IInv, TypeOK
<1>2. ASSUME NEW s \in ActiveIn(vpnSessions),
             CommitEvent(w, [vpnSessions EXCEPT ![s] = ReconnectRow(@, e)], "ALREADY_ACTIVE")
      PROVE  IInv' /\ Continues(vpnSessions, vpnSessions')
  <2> DEFINE row == vpnSessions[s]
             sessions == [vpnSessions EXCEPT ![s] = ReconnectRow(@, e)]
  <2>1. s \in SessionId /\ row \in Row /\ Coherent(row)
    BY <1>1 DEF ActiveIn, Opt, TableCoherent
  <2>2. ReconnectRow(row, e) \in Row
    BY <1>1, <2>1, ReconnectRowType
  <2>3. /\ Coherent(ReconnectRow(row, e))
        /\ Succeeds(row, ReconnectRow(row, e))
    BY <1>1, <2>1, ReconnectRowCoherent
  <2>4. sessions \in [SessionId -> Opt(Row)]
    BY <1>1, <2>1, <2>2 DEF Opt
  <2>5. TableCoherent(sessions)
    BY <1>1, <2>1, <2>3 DEF TableCoherent
  <2>6. Continues(vpnSessions, sessions)
    BY <1>1, <2>1, <2>2, <2>3, NoneAssumption DEF Continues, Succeeds, SameConnection
  <2> HIDE DEF sessions
  <2>7. "ALREADY_ACTIVE" \in Reply
    BY DEF Reply
  <2> QED
    BY <1>2, <2>4, <2>5, <2>6, <2>7, CommitEventStep DEF sessions
<1>3. ASSUME NEW s \in SessionId, vpnSessions[s] = None,
             CommitEvent(w, [vpnSessions EXCEPT ![s] = EventRow(e)], "CREATED")
      PROVE  IInv' /\ Continues(vpnSessions, vpnSessions')
  <2> DEFINE sessions == [vpnSessions EXCEPT ![s] = EventRow(e)]
  <2>1. EventRow(e) \in Row /\ Coherent(EventRow(e))
    BY <1>1, EventRowType, NewRowCoherent
  <2>2. sessions \in [SessionId -> Opt(Row)]
    BY <1>1, <2>1 DEF Opt
  <2>3. TableCoherent(sessions)
    BY <1>1, <2>1 DEF TableCoherent
  <2>4. Continues(vpnSessions, sessions)
    BY <1>1, <1>3 DEF Continues, Succeeds, SameConnection
  <2> HIDE DEF sessions
  <2>5. "CREATED" \in Reply
    BY DEF Reply
  <2> QED
    BY <1>3, <2>2, <2>3, <2>4, <2>5, CommitEventStep DEF sessions
<1> QED
  BY <1>2, <1>3 DEF ApplyConnect, Latest, ActiveFor

LEMMA ApplyDisconnectStep ==
  ASSUME IInv, NEW w \in Worker, lock = None, NEW e \in Events,
         job[w].request = e, ApplyDisconnect(w, e)
  PROVE  IInv' /\ Continues(vpnSessions, vpnSessions')
<1>1. /\ vpnSessions \in [SessionId -> Opt(Row)] /\ TableCoherent(vpnSessions)
      /\ e.occurred \in Int
  BY PayloadTyped DEF IInv, TypeOK
<1>2. ASSUME NEW s \in ActiveIn(vpnSessions),
             CommitEvent(w, [vpnSessions EXCEPT ![s] =
                                CloseRow(@, e.occurred, "DISCONNECT")], "CLOSED")
      PROVE  IInv' /\ Continues(vpnSessions, vpnSessions')
  <2> DEFINE row == vpnSessions[s]
             closed == CloseRow(row, e.occurred, "DISCONNECT")
             sessions == [vpnSessions EXCEPT ![s] = CloseRow(@, e.occurred, "DISCONNECT")]
  <2>1. s \in SessionId /\ row \in Row /\ Coherent(row) /\ row.state = "ACTIVE"
    BY <1>1 DEF ActiveIn, Opt, TableCoherent
  <2>2. "DISCONNECT" \in Reason /\ "CLOSED" \in Reply
    BY DEF Reason, Reply
  <2>3. closed \in Row
    BY <1>1, <2>1, <2>2, CloseRowType
  <2>4. Coherent(closed) /\ Succeeds(row, closed)
    BY <1>1, <2>1, <2>2, CloseRowCoherent DEF Succeeds
  <2> HIDE DEF closed
  <2>5. sessions = [vpnSessions EXCEPT ![s] = closed]
    BY DEF closed
  <2>6. sessions \in [SessionId -> Opt(Row)]
    BY <1>1, <2>1, <2>3, <2>5 DEF Opt
  <2>7. TableCoherent(sessions)
    BY <1>1, <2>1, <2>4, <2>5 DEF TableCoherent
  <2>8. Continues(vpnSessions, sessions)
    BY <1>1, <2>1, <2>3, <2>4, <2>5, NoneAssumption DEF Continues, Succeeds, SameConnection
  <2> HIDE DEF sessions
  <2> QED
    BY <1>2, <2>2, <2>6, <2>7, <2>8, CommitEventStep DEF sessions
<1>3. CASE CommitEvent(w, vpnSessions, "NO_ACTIVE_SESSION")
  BY <1>1, <1>3, CommitEventStep, ContinuesIsPreorder DEF Reply, IInv
<1> QED
  BY <1>2, <1>3 DEF ApplyDisconnect, Latest, ActiveFor

LEMMA StoreEventStep ==
  ASSUME IInv, NEW w \in Worker, StoreEvent(w)
  PROVE  IInv' /\ Continues(vpnSessions, vpnSessions')
<1> DEFINE e == job[w].request
<1>1. e \in Events
  BY DEF IInv, RequestTyped, StoreEvent
<1>2. CASE AnswerUnchanged(w, "duplicate")
  <2>1. vpnSessions' = vpnSessions
    BY <1>2 DEF AnswerUnchanged, database
  <2> QED
    BY <1>2, <2>1, AnswerUnchangedStep, ContinuesIsPreorder DEF Reply
<1>3. CASE lock = None /\ ApplyConnect(w, e)
  BY <1>1, <1>3, ApplyConnectStep
<1>4. CASE lock = None /\ ApplyDisconnect(w, e)
  BY <1>1, <1>4, ApplyDisconnectStep
<1> QED
  BY <1>2, <1>3, <1>4 DEF StoreEvent

-----------------------------------------------------------------------------
(* Snapshots.                                                              *)

LEMMA RequestIsSnapshot ==
  ASSUME IInv, NEW w \in Worker, pc[w] \in SnapshotStatement
  PROVE  /\ job[w].request \in Snapshots
         /\ job[w].request \in Snapshot
         /\ job[w].request.source \in Source
         /\ job[w].request.observed \in Int
         /\ job[w].request.boot \in Opt(BootId)
         /\ job[w].request.items \subseteq Item
  BY PayloadTyped DEF IInv, RequestTyped

\* A snapshot statement that leaves the request in place.
LEMMA SnapshotGoto ==
  ASSUME IInv, NEW w \in Worker, pc[w] \in SnapshotStatement,
         NEW statement \in SnapshotStatement, Goto(w, statement),
         job' \in [Worker -> Job], \A v \in Worker \ {w} : job'[v] = job[v],
         job'[w].request = job[w].request,
         statement \in {"fallback", "create"} => job'[w].item \in Item
  PROVE  /\ pc' \in [Worker -> Statement]
         /\ \A v \in Worker : RequestTyped(v)'
<1>1. /\ pc' \in [Worker -> Statement] /\ pc'[w] = statement
      /\ \A v \in Worker \ {w} : pc'[v] = pc[v]
  BY GotoTyped DEF Statement, SnapshotStatement
<1>2. job[w].request \in Snapshots
  BY RequestIsSnapshot
<1> QED
  BY <1>1, <1>2 DEF IInv, RequestTyped, SnapshotStatement

LEMMA ResolveSnapshotStep ==
  ASSUME IInv, NEW w \in Worker, ResolveSnapshot(w)
  PROVE  IInv'
<1>1. CASE \E reply \in Reply : AnswerUnchanged(w, reply)
  BY <1>1, AnswerUnchangedStep
<1>2. CASE /\ Goto(w, IF BootChanged(w) THEN "reboot" ELSE "items")
           /\ job' = [job EXCEPT ![w].todo = job[w].request.items]
           /\ UNCHANGED <<database, lock, work, dirty>>
  <2>1. pc[w] \in SnapshotStatement
    BY DEF ResolveSnapshot, SnapshotStatement
  <2>2. job[w].request.items \in SUBSET Item
    BY <2>1, RequestIsSnapshot
  <2>3. job \in [Worker -> Job] /\ job[w] \in Job
    BY DEF IInv, TypeOK
  <2>4. /\ job' \in [Worker -> Job] /\ \A v \in Worker \ {w} : job'[v] = job[v]
        /\ job'[w].request = job[w].request
    BY <1>2, <2>2, <2>3 DEF Job
  <2>5. \E statement \in {"reboot", "items"} : Goto(w, statement)
    BY <1>2
  <2>6. /\ pc' \in [Worker -> Statement]
        /\ \A v \in Worker : RequestTyped(v)'
    BY <2>1, <2>4, <2>5, SnapshotGoto DEF SnapshotStatement
  <2> QED
    BY <1>2, <2>4, <2>6, LocalStep
<1> QED
  BY <1>1, <1>2 DEF ResolveSnapshot, Reply

\* Closing a set of rows the snapshot covers, in memory.
LEMMA CloseAllCoherent ==
  ASSUME IInv, NEW w \in Worker, pc[w] \in SnapshotStatement,
         NEW S \in SUBSET Coverable(View(w), job[w].request.observed),
         NEW why \in Reason \ {"DISCONNECT"}, CloseAll(w, S, why),
         UNCHANGED <<database, lock, work>>
  PROVE  /\ dirty' \in [Worker -> [SessionId -> Opt(Object)]]
         /\ \A v \in Worker : ObjectsCoherent(v)'
<1> DEFINE at == job[w].request.observed
           edited == [s \in S |-> CloseRow(Loaded(w, s).new, at, why)]
<1>1. at \in Int
  BY RequestIsSnapshot
<1>2. S \in SUBSET ActiveIn(View(w))
  BY DEF Coverable
<1>3. ASSUME NEW s \in S
      PROVE  /\ CloseRow(Loaded(w, s).new, at, why) \in Row
             /\ MayBecome(w, s, CloseRow(Loaded(w, s).new, at, why))
  <2>1. s \in ActiveIn(View(w)) /\ View(w)[s].connected <= at
    BY DEF Coverable
  <2>2. /\ Loaded(w, s).new \in Row /\ Coherent(Loaded(w, s).new)
        /\ SameConnection(View(w)[s], Loaded(w, s).new)
        /\ Loaded(w, s).old.rsid # None => Loaded(w, s).new.rsid # None
    BY <2>1, LoadedCoherent DEF Object, ObjectKept
  <2>3. CloseRow(Loaded(w, s).new, at, why) \in Row
    BY <1>1, <2>2, CloseRowType
  <2> QED
    BY <1>1, <2>1, <2>2, <2>3, CloseRowCoherent DEF SameConnection, MayBecome
<1>4. edited \in [S -> Row]
  BY <1>3
<1>5. \A s \in S : MayBecome(w, s, edited[s])
  BY <1>3
<1>6. Edit(w, edited)
  BY DEF CloseAll
<1> HIDE DEF edited
<1> QED
  BY <1>2, <1>4, <1>5, <1>6, EditCoherent

LEMMA CloseForRebootStep ==
  ASSUME IInv, NEW w \in Worker, CloseForReboot(w)
  PROVE  IInv'
<1>1. pc[w] \in SnapshotStatement
  BY DEF CloseForReboot, SnapshotStatement
<1>2. /\ dirty' \in [Worker -> [SessionId -> Opt(Object)]]
      /\ \A v \in Worker : ObjectsCoherent(v)'
  BY <1>1, CloseAllCoherent DEF CloseForReboot, Reason
<1>3. job' \in [Worker -> Job] /\ job' = job
  BY DEF IInv, TypeOK, CloseForReboot
<1>4. \E statement \in {"items", "flush"} : Goto(w, statement)
  BY DEF CloseForReboot
<1>5. pc' \in [Worker -> Statement] /\ \A v \in Worker : RequestTyped(v)'
  BY <1>1, <1>3, <1>4, SnapshotGoto DEF SnapshotStatement
<1> QED
  BY <1>2, <1>3, <1>5, EditStep DEF CloseForReboot

LEMMA CloseMissingStep ==
  ASSUME IInv, NEW w \in Worker, CloseMissing(w)
  PROVE  IInv'
<1> DEFINE missing == {s \in Coverable(View(w), job[w].request.observed) :
                          View(w)[s].source = job[w].request.source} \ job[w].matched
<1>1. pc[w] \in SnapshotStatement
  BY DEF CloseMissing, SnapshotStatement
<1>2. /\ missing \in SUBSET Coverable(View(w), job[w].request.observed)
      /\ CloseAll(w, missing, "RECONCILIATION")
      /\ "RECONCILIATION" \in Reason \ {"DISCONNECT"}
  BY DEF CloseMissing, Reason
<1>3. /\ dirty' \in [Worker -> [SessionId -> Opt(Object)]]
      /\ \A v \in Worker : ObjectsCoherent(v)'
  BY <1>1, <1>2, CloseAllCoherent DEF CloseMissing
<1>4. job' \in [Worker -> Job] /\ job' = job
  BY DEF IInv, TypeOK, CloseMissing
<1>5. pc' \in [Worker -> Statement] /\ \A v \in Worker : RequestTyped(v)'
  BY <1>1, <1>4, SnapshotGoto DEF CloseMissing, SnapshotStatement
<1> QED
  BY <1>3, <1>4, <1>5, EditStep DEF CloseMissing

LEMMA MatchStep ==
  ASSUME IInv, NEW w \in Worker, pc[w] \in SnapshotStatement,
         NEW item \in Item, NEW s \in ActiveIn(View(w)), Match(w, item, s)
  PROVE  IInv'
<1> DEFINE edited == [t \in {s} |-> RefreshRow(Loaded(w, t).new, job[w].request, item)]
           refreshed == RefreshRow(Loaded(w, s).new, job[w].request, item)
<1>1. /\ Loaded(w, s).new \in Row /\ Coherent(Loaded(w, s).new)
      /\ SameConnection(View(w)[s], Loaded(w, s).new)
      /\ Loaded(w, s).new.reason # "DISCONNECT"
  BY LoadedCoherent DEF Object, ObjectKept
<1>2. refreshed \in Row
  BY <1>1, RequestIsSnapshot, RefreshRowType
<1>3. MayBecome(w, s, refreshed)
  BY <1>1, RefreshRowCoherent DEF SameConnection, MayBecome
<1>4. edited \in [{s} -> Row] /\ edited[s] = refreshed
  BY <1>2
<1>5. Edit(w, edited) /\ UNCHANGED <<database, lock, work>>
  BY DEF Match
<1> HIDE DEF edited, refreshed
<1>6. /\ dirty' \in [Worker -> [SessionId -> Opt(Object)]]
      /\ \A v \in Worker : ObjectsCoherent(v)'
  BY <1>3, <1>4, <1>5, EditCoherent
<1>7. job \in [Worker -> Job] /\ job[w] \in Job /\ s \in SessionId
  BY DEF IInv, TypeOK, ActiveIn
<1>8. /\ job' \in [Worker -> Job] /\ \A v \in Worker \ {w} : job'[v] = job[v]
      /\ job'[w].request = job[w].request
  BY <1>7 DEF Match, Job, Opt
<1>9. pc' \in [Worker -> Statement] /\ \A v \in Worker : RequestTyped(v)'
  BY <1>8, SnapshotGoto DEF Match, SnapshotStatement
<1> QED
  BY <1>5, <1>6, <1>8, <1>9, EditStep

LEMMA FindByRouterSessionIdStep ==
  ASSUME IInv, NEW w \in Worker, FindByRouterSessionId(w)
  PROVE  IInv'
<1>1. PICK item \in job[w].todo :
        \/ \E s \in ActiveIn(View(w)) : Match(w, item, s)
        \/ /\ job' = [job EXCEPT ![w].item = item]
           /\ Goto(w, "fallback")
           /\ UNCHANGED <<database, lock, work, dirty>>
  BY DEF FindByRouterSessionId, Latest, WithRouterSessionId, Coverable
<1>2. pc[w] \in SnapshotStatement
  BY DEF FindByRouterSessionId, SnapshotStatement
<1>3. job \in [Worker -> Job] /\ job[w] \in Job
  BY DEF IInv, TypeOK
<1>4. item \in Item
  BY <1>3 DEF Job
<1>5. CASE \E s \in ActiveIn(View(w)) : Match(w, item, s)
  BY <1>2, <1>4, <1>5, MatchStep
<1>6. CASE /\ job' = [job EXCEPT ![w].item = item]
           /\ Goto(w, "fallback")
           /\ UNCHANGED <<database, lock, work, dirty>>
  <2>1. /\ job' \in [Worker -> Job] /\ \A v \in Worker \ {w} : job'[v] = job[v]
        /\ job'[w].request = job[w].request /\ job'[w].item = item
    BY <1>3, <1>4, <1>6 DEF Job, Opt
  <2>2. pc' \in [Worker -> Statement] /\ \A v \in Worker : RequestTyped(v)'
    BY <1>2, <1>4, <1>6, <2>1, SnapshotGoto DEF SnapshotStatement
  <2> QED
    BY <1>6, <2>1, <2>2, LocalStep
<1> QED
  BY <1>1, <1>5, <1>6

LEMMA FindEventFallbackStep ==
  ASSUME IInv, NEW w \in Worker, FindEventFallback(w)
  PROVE  IInv'
<1>1. pc[w] = "fallback" /\ pc[w] \in SnapshotStatement
  BY DEF FindEventFallback, SnapshotStatement
<1>2. job[w].item \in Item
  BY <1>1 DEF IInv, RequestTyped
<1>3. CASE \E s \in ActiveIn(View(w)) : Match(w, job[w].item, s)
  BY <1>1, <1>2, <1>3, MatchStep
<1>4. CASE Goto(w, "create") /\ UNCHANGED <<database, lock, work, job, dirty>>
  <2>1. job' \in [Worker -> Job] /\ job' = job
    BY <1>4 DEF IInv, TypeOK
  <2>2. pc' \in [Worker -> Statement] /\ \A v \in Worker : RequestTyped(v)'
    BY <1>1, <1>2, <1>4, <2>1, SnapshotGoto DEF SnapshotStatement
  <2> QED
    BY <1>4, <2>1, <2>2, LocalStep
<1> QED
  BY <1>3, <1>4 DEF FindEventFallback, FallbackCandidates, Coverable

\* A flush that keeps the transaction open.
LEMMA FlushStep ==
  ASSUME IInv, NEW w \in Worker, CanWrite(w),
         NEW table \in [SessionId -> Opt(Row)],
         TableCoherent(table), Continues(View(w), table),
         lock' = w, work' = table, dirty' = [dirty EXCEPT ![w] = Nothing],
         UNCHANGED database,
         pc' \in [Worker -> Statement], job' \in [Worker -> Job],
         \A v \in Worker : RequestTyped(v)'
  PROVE  IInv'
<1>1. TypeOK'
  BY DEF IInv, TypeOK, database, Nothing, Opt
<1>2. Continues(vpnSessions, work)'
  BY ViewCoherent, ContinuesIsPreorder DEF database
<1>3. ASSUME NEW v \in Worker
      PROVE  ObjectsCoherent(v)'
  <2>1. CASE v = w
    <3>1. dirty'[v] = Nothing
      BY <2>1 DEF IInv, TypeOK
    <3> QED
      BY <3>1 DEF ObjectsCoherent, Nothing
  <2>2. CASE v # w
    <3>1. View(v) = vpnSessions /\ View(v)' = vpnSessions
      BY <2>2, WorkerAssumption DEF View, CanWrite, database
    <3>2. dirty'[v] = dirty[v]
      BY <2>2 DEF IInv, TypeOK
    <3> QED
      BY <3>1, <3>2, ObjectsKept, ContinuesIsPreorder
  <2> QED
    BY <2>1, <2>2
<1> QED
  BY <1>1, <1>2, <1>3, WorkerAssumption DEF IInv, database

LEMMA FlushRebootStep ==
  ASSUME IInv, NEW w \in Worker, FlushReboot(w)
  PROVE  IInv'
<1>1. pc[w] \in SnapshotStatement
  BY DEF FlushReboot, SnapshotStatement
<1>2. job' \in [Worker -> Job] /\ job' = job
  BY DEF IInv, TypeOK, FlushReboot
<1>3. pc' \in [Worker -> Statement] /\ \A v \in Worker : RequestTyped(v)'
  BY <1>1, <1>2, SnapshotGoto DEF FlushReboot, SnapshotStatement
<1> QED
  BY <1>2, <1>3, FlushedCoherent, FlushStep DEF FlushReboot

LEMMA CreateReconciledStep ==
  ASSUME IInv, NEW w \in Worker, CreateReconciled(w)
  PROVE  IInv'
<1> DEFINE p == job[w].request
           item == job[w].item
<1>1. pc[w] = "create" /\ pc[w] \in SnapshotStatement
  BY DEF CreateReconciled, SnapshotStatement
<1>2. item \in Item /\ p \in Snapshot
  BY <1>1, RequestIsSnapshot DEF IInv, RequestTyped
<1>3. PICK s \in SessionId :
        /\ View(w)[s] = None
        /\ work' = [Flushed(w) EXCEPT ![s] = ReconciledRow(p, item)]
        /\ job' = [job EXCEPT ![w].todo = @ \ {item},
                              ![w].item = None,
                              ![w].matched = @ \cup {s}]
        /\ lock' = w
        /\ dirty' = [dirty EXCEPT ![w] = Nothing]
  BY DEF CreateReconciled
<1> DEFINE table == [Flushed(w) EXCEPT ![s] = ReconciledRow(p, item)]
<1>4. ReconciledRow(p, item) \in Row /\ Coherent(ReconciledRow(p, item))
  BY <1>2, ReconciledRowType, NewRowCoherent
<1>5. table \in [SessionId -> Opt(Row)]
  BY <1>4, FlushedCoherent DEF Opt
<1>6. TableCoherent(table)
  BY <1>4, FlushedCoherent DEF TableCoherent
<1>7. Continues(View(w), table)
  BY <1>3, FlushedCoherent DEF Continues
<1>8. job \in [Worker -> Job] /\ job[w] \in Job
  BY DEF IInv, TypeOK
<1>9. /\ job' \in [Worker -> Job] /\ \A v \in Worker \ {w} : job'[v] = job[v]
      /\ job'[w].request = job[w].request
  <2> DEFINE next == [job[w] EXCEPT !.todo = @ \ {item}, !.item = None,
                                    !.matched = @ \cup {s}]
  <2>1. next \in Job /\ next.request = job[w].request
    BY <1>8 DEF Job, Opt
  <2>2. job' = [job EXCEPT ![w] = next]
    BY <1>3, <1>8 DEF Job
  <2> HIDE DEF next
  <2> QED
    BY <1>8, <2>1, <2>2
<1>10. pc' \in [Worker -> Statement] /\ \A v \in Worker : RequestTyped(v)'
  BY <1>1, <1>9, SnapshotGoto DEF CreateReconciled, SnapshotStatement
<1> HIDE DEF table
<1>11. work' = table
  BY <1>3 DEF table
<1> QED
  BY <1>3, <1>5, <1>6, <1>7, <1>9, <1>10, <1>11, FlushStep DEF CreateReconciled

LEMMA CommitSnapshotStep ==
  ASSUME IInv, NEW w \in Worker, CommitSnapshot(w)
  PROVE  IInv' /\ Continues(vpnSessions, vpnSessions')
<1> DEFINE p == job[w].request
<1>1. pc[w] \in SnapshotStatement
  BY DEF CommitSnapshot, SnapshotStatement
<1>2. p.source \in Source /\ p.observed \in Int /\ p.boot \in Opt(BootId)
  BY <1>1, RequestIsSnapshot
<1>3. /\ pc' \in [Worker -> Statement] /\ job' \in [Worker -> Job]
      /\ \A v \in Worker : RequestTyped(v)'
  BY AnswerTyped DEF CommitSnapshot, Reply
<1>4. /\ vpnSessions' = Flushed(w) /\ work' = Flushed(w)
      /\ vpnSessions' \in [SessionId -> Opt(Row)]
      /\ TableCoherent(Flushed(w))
      /\ Continues(View(w), Flushed(w))
  BY FlushedCoherent DEF CommitSnapshot
<1>5. Continues(vpnSessions, Flushed(w))
  BY <1>4, ViewCoherent, ContinuesIsPreorder
<1>6. RouterMark(w, p) \in Opt(Int) /\ RouterBoot(w, p) \in Opt(BootId)
  BY <1>2 DEF RouterMark, RouterBoot, IInv, TypeOK, Opt
<1>7. sourceSnapshotAt' \in [Source -> Opt(Int)]
  BY <1>2 DEF CommitSnapshot, IInv, TypeOK, Opt
<1>8. /\ dirty' \in [Worker -> [SessionId -> Opt(Object)]]
      /\ dirty'[w] = Nothing
      /\ \A v \in Worker \ {w} : dirty'[v] = dirty[v]
  BY DEF CommitSnapshot, IInv, TypeOK, Nothing, Opt
<1>9. TypeOK'
  BY <1>3, <1>4, <1>6, <1>7, <1>8 DEF CommitSnapshot, IInv, TypeOK, Opt
<1>10. ASSUME NEW v \in Worker
       PROVE  ObjectsCoherent(v)'
  <2>1. CASE v = w
    BY <1>8, <2>1 DEF ObjectsCoherent, Nothing
  <2>2. CASE v # w
    <3>1. View(v) = vpnSessions /\ View(v)' = Flushed(w)
      BY <1>4, <2>2, WorkerAssumption DEF View, CanWrite, CommitSnapshot
    <3> QED
      BY <1>5, <1>8, <2>2, <3>1, ObjectsKept
  <2> QED
    BY <2>1, <2>2
<1>11. Continues(vpnSessions, work)' /\ TableCoherent(vpnSessions)' /\ TableCoherent(work)'
  BY <1>4, ContinuesIsPreorder
<1> QED
  BY <1>3, <1>4, <1>5, <1>9, <1>10, <1>11 DEF IInv

-----------------------------------------------------------------------------
(* The theorems.                                                           *)

LEMMA InitIInv == Init => IInv
<1> SUFFICES ASSUME Init
             PROVE  IInv
  OBVIOUS
<1>1. NoJob \in Job /\ Nothing \in [SessionId -> Opt(Row)]
      /\ Nothing \in [SessionId -> Opt(Object)]
  BY DEF NoJob, Job, Nothing, Opt
<1>2. TypeOK
  BY <1>1 DEF Init, TypeOK, Statement, Opt
<1>3. \A w \in Worker : RequestTyped(w) /\ ObjectsCoherent(w)
  BY DEF Init, RequestTyped, SnapshotStatement, ObjectsCoherent, Nothing
<1>4. TableCoherent(vpnSessions) /\ TableCoherent(work) /\ Continues(vpnSessions, work)
  BY DEF Init, Nothing, TableCoherent, Continues, Succeeds, SameConnection
<1> QED
  BY <1>2, <1>3, <1>4 DEF IInv, Init

\* Every step keeps the invariant and lets the committed rows continue.
LEMMA NextIInv ==
  ASSUME IInv, [Next]_vars
  PROVE  IInv' /\ Continues(vpnSessions, vpnSessions')
<1>1. CASE UNCHANGED vars
  <2>1. UNCHANGED <<database, lock, work, dirty, pc, job>>
    BY <1>1 DEF vars
  <2>2. \A w \in Worker : RequestTyped(w)'
    BY <2>1 DEF IInv, RequestTyped
  <2>3. pc' \in [Worker -> Statement] /\ job' \in [Worker -> Job]
    BY <2>1 DEF IInv, TypeOK
  <2> QED
    BY <2>1, <2>2, <2>3, LocalStep, ContinuesIsPreorder DEF database
<1>2. ASSUME NEW w \in Worker, Step(w)
      PROVE  IInv' /\ Continues(vpnSessions, vpnSessions')
  <2>1. CASE Receive(w)
    BY <2>1, ReceiveStep, ContinuesIsPreorder DEF Receive, Accept, database
  <2>2. CASE Respond(w)
    BY <2>2, RespondStep, ContinuesIsPreorder DEF Respond, database
  <2>3. CASE Abort(w)
    BY <2>3, AbortStep, ContinuesIsPreorder DEF Abort, database
  <2>14. CASE Authenticate(w)
    BY <2>14, AuthenticateStep, ContinuesIsPreorder DEF Authenticate, database
  <2>4. CASE LookupEvent(w)
    <3>1. vpnSessions' = vpnSessions
      BY <2>4 DEF LookupEvent, AnswerUnchanged, database
    <3> QED
      BY <2>4, <3>1, LookupEventStep, ContinuesIsPreorder
  <2>5. CASE StoreEvent(w)
    BY <2>5, StoreEventStep
  <2>6. CASE ResolveSnapshot(w)
    <3>1. vpnSessions' = vpnSessions
      BY <2>6 DEF ResolveSnapshot, AnswerUnchanged, database
    <3> QED
      BY <2>6, <3>1, ResolveSnapshotStep, ContinuesIsPreorder
  <2>7. CASE CloseForReboot(w)
    BY <2>7, CloseForRebootStep, ContinuesIsPreorder DEF CloseForReboot, database
  <2>8. CASE FlushReboot(w)
    BY <2>8, FlushRebootStep, ContinuesIsPreorder DEF FlushReboot, database
  <2>9. CASE FindByRouterSessionId(w)
    <3>1. vpnSessions' = vpnSessions
      BY <2>9 DEF FindByRouterSessionId, Match, database
    <3> QED
      BY <2>9, <3>1, FindByRouterSessionIdStep, ContinuesIsPreorder
  <2>10. CASE FindEventFallback(w)
    <3>1. vpnSessions' = vpnSessions
      BY <2>10 DEF FindEventFallback, Match, database
    <3> QED
      BY <2>10, <3>1, FindEventFallbackStep, ContinuesIsPreorder
  <2>11. CASE CreateReconciled(w)
    BY <2>11, CreateReconciledStep, ContinuesIsPreorder DEF CreateReconciled, database
  <2>12. CASE CloseMissing(w)
    BY <2>12, CloseMissingStep, ContinuesIsPreorder DEF CloseMissing, database
  <2>13. CASE CommitSnapshot(w)
    BY <2>13, CommitSnapshotStep
  <2> QED
    BY <1>2, <2>1, <2>2, <2>3, <2>4, <2>5, <2>6, <2>7, <2>8, <2>9, <2>10, <2>11,
       <2>12, <2>13, <2>14 DEF Step, EventStep, SnapshotStep
<1> QED
  BY <1>1, <1>2 DEF Next

\* The inductive invariant holds of every behaviour.
THEOREM Invariance == Spec => []IInv
<1>1. Init => IInv
  BY InitIInv
<1>2. IInv /\ [Next]_vars => IInv'
  BY NextIInv
<1> QED
  BY <1>1, <1>2, PTL DEF Spec

\* Type correctness.
THEOREM TypeCorrect == Spec => []TypeOK
<1>1. IInv => TypeOK
  BY DEF IInv
<1> QED
  BY <1>1, Invariance, PTL

\* Committed rows are never torn: state, end, reason and duration agree.
THEOREM ClosedCompleteness == Spec => []ClosedIsComplete
<1>1. IInv => ClosedIsComplete
  BY DEF IInv, TableCoherent, Coherent, ClosedIsComplete
<1> QED
  BY <1>1, Invariance, PTL

\* Reconciliation and reboot close no session newer than their snapshot.
THEOREM TemporalProtection == Spec => []SnapshotClosesOnlyOlder
<1>1. IInv => SnapshotClosesOnlyOlder
  BY DEF IInv, TableCoherent, Coherent, SnapshotClosesOnlyOlder
<1> QED
  BY <1>1, Invariance, PTL

\* No interleaving takes a session back from CLOSED to ACTIVE.
THEOREM ClosedForGood == Spec => NeverReopened
<1> DEFINE Stays == \A s \in SessionId :
          vpnSessions[s] # None /\ vpnSessions[s].state = "CLOSED" =>
              vpnSessions'[s] # None /\ vpnSessions'[s].state = "CLOSED"
<1>1. IInv /\ [Next]_vars => [Stays]_vars
  BY NextIInv DEF Continues, Succeeds
<1> QED
  BY <1>1, Invariance, PTL DEF Spec, NeverReopened

-----------------------------------------------------------------------------
(* An event that was answered is stored.                                   *)

\* What a step does to the requests: events are only added, and an answer
\* that settles an event finds its identifier stored.
Outcome(w) ==
  /\ vpnEvents \subseteq vpnEvents'
  /\ \A v \in Worker \ {w} : pc'[v] = pc[v] /\ job'[v] = job[v]
  /\ \/ pc'[w] # "replied"
     \/ /\ job'[w].request = job[w].request
        /\ job'[w].reply \in Settled =>
              \E e \in vpnEvents' : e.id = job[w].request.id

LEMMA AnswerFields ==
  ASSUME IInv, NEW w \in Worker, NEW reply \in Reply, Answer(w, reply)
  PROVE  /\ job'[w].request = job[w].request /\ job'[w].reply = reply
         /\ \A v \in Worker \ {w} : pc'[v] = pc[v] /\ job'[v] = job[v]
<1>1. job \in [Worker -> Job] /\ pc \in [Worker -> Statement]
  BY DEF IInv, TypeOK
<1> QED
  BY <1>1 DEF Answer, Goto, NoJob, Job

LEMMA LocalOutcome ==
  ASSUME IInv, NEW w \in Worker, NEW statement \in Statement \ {"replied"},
         Goto(w, statement), vpnEvents' = vpnEvents,
         \A v \in Worker \ {w} : job'[v] = job[v]
  PROVE  Outcome(w)
  BY GotoTyped DEF Outcome

LEMMA EventOutcome ==
  ASSUME IInv, NEW w \in Worker, EventStep(w)
  PROVE  Outcome(w)
<1> DEFINE e == job[w].request
<1>1. CASE AnswerUnchanged(w, "rejected")
  BY <1>1, AnswerFields DEF AnswerUnchanged, Outcome, Reply, Settled, database
<1>2. CASE /\ \E reply \in {"duplicate", "conflict"} : AnswerUnchanged(w, reply)
           /\ \E x \in vpnEvents : x.id = e.id
  BY <1>2, AnswerFields DEF AnswerUnchanged, Outcome, Reply, database
<1>3. CASE Goto(w, "insert") /\ UNCHANGED <<database, lock, work, job, dirty>>
  BY <1>3, LocalOutcome DEF Statement, database
<1>4. ASSUME NEW sessions, NEW reply \in Reply, CommitEvent(w, sessions, reply)
      PROVE  Outcome(w)
  BY <1>4, AnswerFields DEF CommitEvent, Outcome
<1>5. LookupEvent(w) => Outcome(w)
  BY <1>1, <1>2, <1>3 DEF LookupEvent
<1>6. ApplyConnect(w, e) => Outcome(w)
  BY <1>4 DEF ApplyConnect, Reply
<1>7. ApplyDisconnect(w, e) => Outcome(w)
  BY <1>4 DEF ApplyDisconnect, Reply
<1>8. StoreEvent(w) => Outcome(w)
  BY <1>2, <1>6, <1>7 DEF StoreEvent, InsertRefused, UniqueViolation
<1> QED
  BY <1>5, <1>8 DEF EventStep

LEMMA SnapshotOutcome ==
  ASSUME IInv, NEW w \in Worker, SnapshotStep(w)
  PROVE  Outcome(w)
<1>1. job \in [Worker -> Job]
  BY DEF IInv, TypeOK
<1>2. CASE ResolveSnapshot(w)
  <2>1. CASE \E reply \in {"rejected", "stale"} : AnswerUnchanged(w, reply)
    BY <2>1, AnswerFields DEF AnswerUnchanged, Outcome, Reply, Settled, database
  <2>2. CASE \E statement \in {"reboot", "items"} :
                 /\ Goto(w, statement)
                 /\ job' = [job EXCEPT ![w].todo = job[w].request.items]
                 /\ UNCHANGED <<database, lock, work, dirty>>
    BY <1>1, <2>2, LocalOutcome DEF Statement, database
  <2> QED
    BY <1>2, <2>1, <2>2 DEF ResolveSnapshot
<1>3. CASE CloseForReboot(w)
  <2>1. \E statement \in {"items", "flush"} : Goto(w, statement)
    BY <1>3 DEF CloseForReboot
  <2> QED
    BY <1>3, <2>1, LocalOutcome DEF CloseForReboot, Statement, database
<1>4. CASE FlushReboot(w)
  BY <1>4, LocalOutcome DEF FlushReboot, Statement, database
<1>5. ASSUME NEW item, NEW s, Match(w, item, s)
      PROVE  Outcome(w)
  BY <1>1, <1>5, LocalOutcome DEF Match, Statement, database
<1>6. CASE FindByRouterSessionId(w)
  <2>1. ASSUME NEW item, job' = [job EXCEPT ![w].item = item], Goto(w, "fallback"),
               UNCHANGED <<database, lock, work, dirty>>
        PROVE  Outcome(w)
    BY <1>1, <2>1, LocalOutcome DEF Statement, database
  <2> QED
    BY <1>5, <1>6, <2>1 DEF FindByRouterSessionId
<1>7. CASE FindEventFallback(w)
  <2>1. CASE Goto(w, "create") /\ UNCHANGED <<database, lock, work, job, dirty>>
    BY <2>1, LocalOutcome DEF Statement, database
  <2> QED
    BY <1>5, <1>7, <2>1 DEF FindEventFallback
<1>8. CASE CreateReconciled(w)
  BY <1>1, <1>8, LocalOutcome DEF CreateReconciled, Statement, database
<1>9. CASE CloseMissing(w)
  BY <1>9, LocalOutcome DEF CloseMissing, Statement, database
<1>10. CASE CommitSnapshot(w)
  BY <1>10, AnswerFields DEF CommitSnapshot, Outcome, Reply, Settled
<1> QED
  BY <1>2, <1>3, <1>4, <1>6, <1>7, <1>8, <1>9, <1>10 DEF SnapshotStep

LEMMA StepOutcome ==
  ASSUME IInv, NEW w \in Worker, Step(w)
  PROVE  Outcome(w)
<1>1. job \in [Worker -> Job]
  BY DEF IInv, TypeOK
<1>2. CASE Receive(w)
  <2>1. \A v \in Worker \ {w} : job'[v] = job[v]
    BY <1>1, <1>2 DEF Receive, Accept
  <2> QED
    BY <1>2, <2>1, LocalOutcome DEF Receive, Accept, Statement, database
<1>3. CASE Respond(w)
  BY <1>1, <1>3, LocalOutcome DEF Respond, Statement, database
<1>4. CASE Abort(w)
  BY <1>1, <1>4, LocalOutcome DEF Abort, Statement, database
<1>5. CASE Authenticate(w)
  BY <1>5, LocalOutcome DEF Authenticate, Statement, database
<1> QED
  BY <1>2, <1>3, <1>4, <1>5, EventOutcome, SnapshotOutcome DEF Step

\* No event is lost after its answer.
THEOREM NoEventLost == Spec => []AnsweredEventIsStored
<1>1. Init => AnsweredEventIsStored
  BY DEF Init, AnsweredEventIsStored
<1>2. ASSUME IInv, AnsweredEventIsStored, [Next]_vars
      PROVE  AnsweredEventIsStored'
  <2>1. CASE UNCHANGED vars
    BY <1>2, <2>1 DEF AnsweredEventIsStored, vars, database
  <2>2. ASSUME NEW w \in Worker, Outcome(w)
        PROVE  AnsweredEventIsStored'
    <3> SUFFICES ASSUME NEW v \in Worker, pc'[v] = "replied", job'[v].reply \in Settled
                 PROVE  \E e \in vpnEvents' : e.id = job'[v].request.id
      BY DEF AnsweredEventIsStored
    <3>1. CASE v = w
      BY <2>2, <3>1 DEF Outcome
    <3>2. CASE v # w
      BY <1>2, <2>2, <3>2 DEF Outcome, AnsweredEventIsStored
    <3> QED
      BY <3>1, <3>2
  <2> QED
    BY <1>2, <2>1, <2>2, StepOutcome DEF Next
<1> QED
  BY <1>1, <1>2, Invariance, PTL DEF Spec

-----------------------------------------------------------------------------
(* What a step commits.                                                    *)

\* What an event may make of the sessions.
FromEvent(e, sessions) ==
  \/ sessions = vpnSessions
  \/ \E s \in SessionId :
       /\ e.type = "CONNECT"
       /\ vpnSessions[s] = None
       /\ sessions = [vpnSessions EXCEPT ![s] = EventRow(e)]
  \/ \E s \in ActiveIn(vpnSessions) :
       \/ sessions = [vpnSessions EXCEPT ![s] = ReconnectRow(@, e)]
       \/ sessions = [vpnSessions EXCEPT ![s] = CloseRow(@, e.occurred, "DISCONNECT")]

LEMMA EventSteps ==
  ASSUME NEW w \in Worker, EventStep(w)
  PROVE  \/ \E reply \in Reply \ {"accepted"} : AnswerUnchanged(w, reply)
         \/ /\ pc[w] = "lookup" /\ Goto(w, "insert")
            /\ UNCHANGED <<database, lock, work, job, dirty>>
         \/ /\ pc[w] = "insert" /\ lock = None
            /\ ~UniqueViolation(job[w].request)
            /\ \E sessions, reply : /\ FromEvent(job[w].request, sessions)
                                    /\ reply \in Reply \ {"accepted"}
                                    /\ CommitEvent(w, sessions, reply)
<1>1. CASE LookupEvent(w)
  BY <1>1 DEF LookupEvent, Reply
<1>2. CASE StoreEvent(w)
  <2> DEFINE e == job[w].request
             Commits == \E sessions, reply : /\ FromEvent(e, sessions)
                                             /\ reply \in Reply \ {"accepted"}
                                             /\ CommitEvent(w, sessions, reply)
  <2>1. CASE AnswerUnchanged(w, "duplicate")
    BY <2>1 DEF Reply
  <2>2. e.type = "CONNECT" /\ ApplyConnect(w, e) => Commits
    <3>1. ASSUME NEW s \in ActiveIn(vpnSessions),
                 CommitEvent(w, [vpnSessions EXCEPT ![s] = ReconnectRow(@, e)],
                             "ALREADY_ACTIVE")
          PROVE  Commits
      BY <3>1 DEF FromEvent, Reply
    <3>2. ASSUME NEW s \in SessionId, vpnSessions[s] = None, e.type = "CONNECT",
                 CommitEvent(w, [vpnSessions EXCEPT ![s] = EventRow(e)], "CREATED")
          PROVE  Commits
      BY <3>2 DEF FromEvent, Reply
    <3> QED
      BY <3>1, <3>2 DEF ApplyConnect, Latest, ActiveFor
  <2>3. ApplyDisconnect(w, e) => Commits
    <3>1. ASSUME NEW s \in ActiveIn(vpnSessions),
                 CommitEvent(w, [vpnSessions EXCEPT ![s] =
                                    CloseRow(@, e.occurred, "DISCONNECT")], "CLOSED")
          PROVE  Commits
      BY <3>1 DEF FromEvent, Reply
    <3>2. CASE CommitEvent(w, vpnSessions, "NO_ACTIVE_SESSION")
      BY <3>2 DEF FromEvent, Reply
    <3> QED
      BY <3>1, <3>2 DEF ApplyDisconnect, Latest, ActiveFor
  <2>4. pc[w] = "insert"
    BY <1>2 DEF StoreEvent
  <2> QED
    BY <1>2, <2>1, <2>2, <2>3, <2>4 DEF StoreEvent, InsertRefused
<1> QED
  BY <1>1, <1>2 DEF EventStep

\* An event is stored once, with what it makes of the sessions.
StoredWith(e) ==
  /\ e \notin vpnEvents
  /\ vpnEvents' = vpnEvents \cup {e}
  /\ FromEvent(e, vpnSessions')
  /\ work' = vpnSessions'
  /\ UNCHANGED <<sourceSnapshotAt, routerSnapshotAt, routerBootId>>

LEMMA CommittedBy ==
  ASSUME IInv, [Next]_vars
  PROVE  \/ UNCHANGED <<database, work>>
         \/ \E w \in Worker : Abort(w) \/ FlushReboot(w) \/ CreateReconciled(w)
         \/ \E w \in Worker : CommitSnapshot(w)
         \/ \E e \in Events : StoredWith(e)
<1>1. ASSUME NEW w \in Worker, EventStep(w)
      PROVE  UNCHANGED <<database, work>> \/ \E e \in Events : StoredWith(e)
  <2>1. job[w].request \in Events
    BY <1>1 DEF EventStep, LookupEvent, StoreEvent, IInv, RequestTyped
  <2>2. ASSUME NEW sessions, NEW reply, ~UniqueViolation(job[w].request),
               FromEvent(job[w].request, sessions), CommitEvent(w, sessions, reply)
        PROVE  StoredWith(job[w].request)
    BY <2>2 DEF StoredWith, CommitEvent, UniqueViolation
  <2> QED
    BY <1>1, <2>1, <2>2, EventSteps DEF AnswerUnchanged
<1>2. ASSUME NEW w \in Worker, SnapshotStep(w)
      PROVE  \/ UNCHANGED <<database, work>>
             \/ FlushReboot(w) \/ CreateReconciled(w) \/ CommitSnapshot(w)
  BY <1>2 DEF SnapshotStep, ResolveSnapshot, CloseForReboot, Match,
              FindByRouterSessionId, FindEventFallback, CloseMissing, AnswerUnchanged
<1>3. ASSUME NEW w \in Worker, Receive(w) \/ Authenticate(w) \/ Respond(w)
      PROVE  UNCHANGED <<database, work>>
  BY <1>3 DEF Receive, Accept, Authenticate, Respond
<1>4. UNCHANGED vars => UNCHANGED <<database, work>>
  BY DEF vars
<1> QED
  BY <1>1, <1>2, <1>3, <1>4 DEF Next, Step

-----------------------------------------------------------------------------
(* At-least-once delivery opens a session at most once: every session an   *)
(* event opened has a stored CONNECT of its own.                           *)

EventRows(table) == {s \in SessionId : table[s] # None /\ table[s].origin = "EVENT"}

Opens(e, row) ==
  /\ e.type = "CONNECT"
  /\ e.source = row.source
  /\ e.who = row.who
  /\ e.occurred = row.connected

OpenedOnce(table, events) ==
  \E f \in Injection(EventRows(table), events) :
     \A s \in EventRows(table) : Opens(f[s], table[s])

\* The rows of a later table that are new are those of snapshots.
OnlyReconciles(table, later) ==
  \A s \in SessionId :
     table[s] = None /\ later[s] # None => later[s].origin = "RECONCILIATION"

OnceInv ==
  /\ IsFiniteSet(vpnEvents)
  /\ OpenedOnce(vpnSessions, vpnEvents)
  /\ OnlyReconciles(vpnSessions, work)

-----------------------------------------------------------------------------

LEMMA InjectionAsFunction ==
  ASSUME NEW S, NEW T, NEW f
  PROVE  f \in Injection(S, T) <=>
            f \in [S -> T] /\ \A s, t \in S : f[s] = f[t] => s = t
  BY DEF Injection, IsInjective

\* What was opened once stays so while snapshots add rows and events add events.
LEMMA OnceKept ==
  ASSUME NEW table, NEW later, NEW events, NEW more, events \subseteq more,
         OpenedOnce(table, events), Continues(table, later), OnlyReconciles(table, later)
  PROVE  OpenedOnce(later, more)
<1>1. PICK f \in Injection(EventRows(table), events) :
         \A s \in EventRows(table) : Opens(f[s], table[s])
  BY DEF OpenedOnce
<1>2. EventRows(later) = EventRows(table)
  BY DEF EventRows, Continues, Succeeds, SameConnection, OnlyReconciles
<1>3. \A s \in EventRows(table) : Opens(f[s], later[s])
  BY <1>1 DEF EventRows, Continues, Succeeds, SameConnection, Opens
<1>4. f \in Injection(EventRows(later), more)
  BY <1>1, <1>2, InjectionAsFunction
<1> QED
  BY <1>2, <1>3, <1>4 DEF OpenedOnce

\* The event that opens a session was not stored before.
LEMMA OnceOpened ==
  ASSUME NEW table \in [SessionId -> Opt(Row)], NEW events, OpenedOnce(table, events),
         NEW e \in Event, e \notin events, e.type = "CONNECT",
         NEW s \in SessionId, table[s] = None
  PROVE  OpenedOnce([table EXCEPT ![s] = EventRow(e)], events \cup {e})
<1> DEFINE later == [table EXCEPT ![s] = EventRow(e)]
<1>1. PICK f \in Injection(EventRows(table), events) :
         \A t \in EventRows(table) : Opens(f[t], table[t])
  BY DEF OpenedOnce
<1> DEFINE g == [t \in EventRows(table) \cup {s} |-> IF t = s THEN e ELSE f[t]]
<1>2. EventRow(e) # None /\ EventRow(e).origin = "EVENT" /\ Opens(e, EventRow(e))
  BY EventRowType, NoneAssumption DEF EventRow, Opens
<1>3. s \notin EventRows(table) /\ EventRows(later) = EventRows(table) \cup {s}
  BY <1>2 DEF EventRows
<1>4. f \in [EventRows(table) -> events]
      /\ \A t, u \in EventRows(table) : f[t] = f[u] => t = u
  BY <1>1, InjectionAsFunction
<1>5. g \in Injection(EventRows(later), events \cup {e})
  <2>1. g \in [EventRows(later) -> events \cup {e}]
    BY <1>3, <1>4
  <2>2. \A t, u \in EventRows(later) : g[t] = g[u] => t = u
    BY <1>3, <1>4
  <2> HIDE DEF g, later
  <2> QED
    BY <2>1, <2>2, InjectionAsFunction
<1>6. \A t \in EventRows(later) : Opens(g[t], later[t])
  BY <1>1, <1>2, <1>3
<1> HIDE DEF g
<1> QED
  BY <1>5, <1>6 DEF OpenedOnce

LEMMA OnlyReconcilesTwice ==
  ASSUME NEW table, NEW middle, NEW later,
         OnlyReconciles(table, middle), OnlyReconciles(middle, later),
         Continues(middle, later)
  PROVE  OnlyReconciles(table, later)
  BY DEF OnlyReconciles, Continues, Succeeds, SameConnection

\* A flush adds no rows.
LEMMA FlushAddsNothing ==
  ASSUME IInv, NEW w \in Worker
  PROVE  OnlyReconciles(View(w), Flushed(w))
<1> SUFFICES ASSUME NEW s \in SessionId, View(w)[s] = None
             PROVE  Flushed(w)[s] = None
  BY DEF OnlyReconciles
<1>1. dirty[w][s] = None
  BY DEF IInv, ObjectsCoherent
<1> QED
  BY <1>1 DEF Flushed

LEMMA NextOnce ==
  ASSUME IInv, OnceInv, [Next]_vars
  PROVE  OnceInv'
<1>1. Continues(vpnSessions, vpnSessions') /\ vpnSessions \in [SessionId -> Opt(Row)]
  BY NextIInv DEF IInv, TypeOK
<1>2. ASSUME UNCHANGED database, OnlyReconciles(vpnSessions, work')
      PROVE  OnceInv'
  <2>1. UNCHANGED <<vpnSessions, vpnEvents>>
    BY <1>2 DEF database
  <2>2. OpenedOnce(vpnSessions', vpnEvents')
    BY <2>1 DEF OnceInv
  <2> QED
    BY <1>2, <2>1, <2>2 DEF OnceInv, OnlyReconciles
<1>3. ASSUME UNCHANGED <<database, work>>
      PROVE  OnceInv'
  BY <1>2, <1>3 DEF OnceInv, OnlyReconciles
<1>4. ASSUME NEW w \in Worker, Abort(w)
      PROVE  OnceInv'
  <2>1. OnlyReconciles(vpnSessions, work')
    BY <1>4 DEF Abort, OnceInv, OnlyReconciles
  <2> QED
    BY <1>2, <1>4, <2>1 DEF Abort
<1>5. ASSUME NEW w \in Worker
      PROVE  OnlyReconciles(vpnSessions, Flushed(w))
  <2>1. OnlyReconciles(vpnSessions, View(w))
    BY DEF OnceInv, OnlyReconciles, View
  <2> QED
    BY <2>1, FlushAddsNothing, FlushedCoherent, OnlyReconcilesTwice
<1>6. ASSUME NEW w \in Worker, FlushReboot(w)
      PROVE  OnceInv'
  BY <1>2, <1>5, <1>6 DEF FlushReboot
<1>7. ASSUME NEW w \in Worker, CreateReconciled(w)
      PROVE  OnceInv'
  <2>1. PICK s \in SessionId :
           work' = [Flushed(w) EXCEPT ![s] = ReconciledRow(job[w].request, job[w].item)]
    BY <1>7 DEF CreateReconciled
  <2>2. ReconciledRow(job[w].request, job[w].item).origin = "RECONCILIATION"
    BY DEF ReconciledRow
  <2>3. OnlyReconciles(vpnSessions, work')
    BY <1>5, <2>1, <2>2, FlushedCoherent DEF OnlyReconciles
  <2> QED
    BY <1>2, <1>7, <2>3 DEF CreateReconciled
<1>8. ASSUME NEW w \in Worker, CommitSnapshot(w)
      PROVE  OnceInv'
  <2>1. /\ vpnSessions' = Flushed(w) /\ work' = vpnSessions' /\ vpnEvents' = vpnEvents
    BY <1>8 DEF CommitSnapshot
  <2>2. OpenedOnce(vpnSessions', vpnEvents')
    BY <1>1, <1>5, <2>1, OnceKept DEF OnceInv
  <2> QED
    BY <2>1, <2>2 DEF OnceInv, OnlyReconciles
<1>9. ASSUME NEW e \in Events, StoredWith(e)
      PROVE  OnceInv'
  <2>1. /\ e \in Event /\ e \notin vpnEvents /\ vpnEvents' = vpnEvents \cup {e}
        /\ FromEvent(e, vpnSessions') /\ work' = vpnSessions'
    BY <1>9, PayloadTyped DEF StoredWith
  <2>2. OpenedOnce(vpnSessions', vpnEvents')
    <3>1. CASE OnlyReconciles(vpnSessions, vpnSessions')
      BY <1>1, <2>1, <3>1, OnceKept DEF OnceInv
    <3>2. ASSUME NEW s \in SessionId, e.type = "CONNECT", vpnSessions[s] = None,
                 vpnSessions' = [vpnSessions EXCEPT ![s] = EventRow(e)]
          PROVE  OpenedOnce(vpnSessions', vpnEvents')
      BY <1>1, <2>1, <3>2, OnceOpened DEF OnceInv
    <3>3. ASSUME NEW s \in ActiveIn(vpnSessions), NEW row,
                 vpnSessions' = [vpnSessions EXCEPT ![s] = row]
          PROVE  OnlyReconciles(vpnSessions, vpnSessions')
      BY <1>1, <3>3 DEF OnlyReconciles, ActiveIn
    <3>4. vpnSessions' = vpnSessions => OnlyReconciles(vpnSessions, vpnSessions')
      BY DEF OnlyReconciles
    <3> QED
      BY <2>1, <3>1, <3>2, <3>3, <3>4 DEF FromEvent
  <2>3. IsFiniteSet(vpnEvents')
    BY <2>1, FS_AddElement DEF OnceInv
  <2> QED
    BY <2>1, <2>2, <2>3 DEF OnceInv, OnlyReconciles
<1> QED
  BY <1>3, <1>4, <1>6, <1>7, <1>8, <1>9, CommittedBy

LEMMA InitOnce == Init => OnceInv
<1> SUFFICES ASSUME Init
             PROVE  OnceInv
  OBVIOUS
<1>1. EventRows(vpnSessions) = {} /\ OnlyReconciles(vpnSessions, work)
  BY DEF Init, Nothing, EventRows, OnlyReconciles
<1>2. [s \in {} |-> s] \in Injection({}, vpnEvents)
  BY InjectionAsFunction
<1> QED
  BY <1>1, <1>2, FS_EmptySet DEF Init, OnceInv, OpenedOnce

\* Every session an event opened has a stored CONNECT of its own, however
\* often its copies arrive and however their handling overlaps.
THEOREM AtMostOnce == Spec => []OneSessionPerConnect
<1>1. ASSUME OnceInv
      PROVE  OneSessionPerConnect
  <2> SUFFICES ASSUME NEW s \in SessionId, vpnSessions[s] # None,
                      vpnSessions[s].origin = "EVENT"
               PROVE  LET row == vpnSessions[s]
                          twins == {t \in SessionId :
                                      /\ vpnSessions[t] # None
                                      /\ vpnSessions[t].origin = "EVENT"
                                      /\ vpnSessions[t].source = row.source
                                      /\ vpnSessions[t].who = row.who
                                      /\ vpnSessions[t].connected = row.connected}
                          connects == {e \in vpnEvents :
                                         /\ e.type = "CONNECT"
                                         /\ e.source = row.source
                                         /\ e.who = row.who
                                         /\ e.occurred = row.connected}
                      IN Cardinality(twins) <= Cardinality(connects)
    BY DEF OneSessionPerConnect
  <2> DEFINE row == vpnSessions[s]
             twins == {t \in SessionId :
                         /\ vpnSessions[t] # None
                         /\ vpnSessions[t].origin = "EVENT"
                         /\ vpnSessions[t].source = row.source
                         /\ vpnSessions[t].who = row.who
                         /\ vpnSessions[t].connected = row.connected}
             connects == {e \in vpnEvents :
                            /\ e.type = "CONNECT"
                            /\ e.source = row.source
                            /\ e.who = row.who
                            /\ e.occurred = row.connected}
  <2>1. PICK f \in Injection(EventRows(vpnSessions), vpnEvents) :
           \A t \in EventRows(vpnSessions) : Opens(f[t], vpnSessions[t])
    BY <1>1 DEF OnceInv, OpenedOnce
  <2>2. f \in [EventRows(vpnSessions) -> vpnEvents]
        /\ \A t, u \in EventRows(vpnSessions) : f[t] = f[u] => t = u
    BY <2>1, InjectionAsFunction
  <2>3. \A t \in twins : t \in EventRows(vpnSessions) /\ f[t] \in connects
    BY <2>1, <2>2 DEF EventRows, Opens
  <2>4. IsFiniteSet(connects)
    BY <1>1, FS_Subset DEF OnceInv
  <2> HIDE DEF twins, connects
  <2> DEFINE g == [t \in twins |-> f[t]]
  <2>5. g \in Injection(twins, connects)
    <3>1. g \in [twins -> connects] /\ \A t, u \in twins : g[t] = g[u] => t = u
      BY <2>2, <2>3
    <3> HIDE DEF g
    <3> QED
      BY <3>1, InjectionAsFunction
  <2> HIDE DEF g
  <2>6. Cardinality(twins) <= Cardinality(connects)
    BY <2>4, <2>5, FS_Injection
  <2> QED
    BY <2>6 DEF twins, connects
<1>2. OnceInv /\ IInv /\ [Next]_vars => OnceInv'
  BY NextOnce
<1> QED
  BY <1>1, <1>2, InitOnce, Invariance, PTL DEF Spec
=============================================================================
