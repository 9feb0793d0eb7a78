---------------------------- MODULE SerialProofs ----------------------------
(***************************************************************************)
(* What Ingestion does for requests handled one at a time: SInv is         *)
(* inductive for a single worker, and the properties of the serial run     *)
(* follow from it, for any sets of sources, payloads, rows and instants.   *)
(***************************************************************************)
EXTENDS SerialInvariant, IngestionProofs, EffectsProofs

-----------------------------------------------------------------------------
(* Rows and View.                                                          *)

LEMMA RowsTyped ==
  ASSUME IInv, NEW w \in Worker
  PROVE  /\ View(w) \in [SessionId -> Opt(Row)]
         /\ Rows(w) \in [SessionId -> Opt(Row)]
         /\ \A s \in SessionId :
               /\ Rows(w)[s] = None <=> View(w)[s] = None
               /\ View(w)[s] # None => SameConnection(View(w)[s], Rows(w)[s])
<1>1. View(w) \in [SessionId -> Opt(Row)]
  BY ViewCoherent
<1>2. ASSUME NEW s \in SessionId
      PROVE  /\ Rows(w)[s] \in Opt(Row)
             /\ Rows(w)[s] = None <=> View(w)[s] = None
             /\ View(w)[s] # None => SameConnection(View(w)[s], Rows(w)[s])
  <2>1. CASE dirty[w][s] = None
    BY <1>1, <2>1 DEF Rows, SameConnection
  <2>2. CASE dirty[w][s] # None
    <3>1. dirty[w][s] \in Object
      BY <2>2 DEF IInv, TypeOK, Opt
    <3>2. dirty[w][s].new \in Row /\ dirty[w][s].new # None
      BY <3>1, NoneAssumption DEF Object
    <3>3. View(w)[s] # None /\ SameConnection(View(w)[s], dirty[w][s].new)
      BY <2>2 DEF IInv, ObjectsCoherent
    <3> QED
      BY <2>2, <3>2, <3>3 DEF Rows, Opt
  <2> QED
    BY <2>1, <2>2
<1> QED
  BY <1>1, <1>2 DEF Rows

\* The UPDATE of an object loaded from the row as it is leaves the object.
LEMMA MergedRowIsNew ==
  ASSUME NEW row \in Row, NEW new \in Row, SameConnection(row, new)
  PROVE  MergedRow(row, row, new) = new
<1> DEFINE m == MergedRow(row, row, new)
<1>1. m.attrs = new.attrs
  BY DEF MergedRow, Row, Attributes, Written
<1>2. /\ m.source = new.source /\ m.who = new.who /\ m.origin = new.origin
      /\ m.connected = new.connected
  BY DEF MergedRow, Row, SameConnection
<1>3. /\ m.state = new.state /\ m.rsid = new.rsid /\ m.boot = new.boot
      /\ m.observed = new.observed /\ m.disconnected = new.disconnected
      /\ m.duration = new.duration /\ m.reason = new.reason
  BY DEF MergedRow, Row, Written
<1>4. m \in Row
  BY MergedRowType
<1> HIDE DEF m
<1>5. m = new
  BY <1>1, <1>2, <1>3, <1>4 DEF Row
<1> QED
  BY <1>5 DEF m

LEMMA FlushedIsRows ==
  ASSUME IInv, SInv, NEW w \in Worker
  PROVE  Flushed(w) = Rows(w)
<1> SUFFICES ASSUME NEW s \in SessionId
             PROVE  Flushed(w)[s] = Rows(w)[s]
  BY DEF Flushed, Rows
<1>1. CASE dirty[w][s] = None
  BY <1>1 DEF Flushed, Rows
<1>2. CASE dirty[w][s] # None
  <2>1. dirty[w][s] \in Object
    BY <1>2 DEF IInv, TypeOK, Opt
  <2>2. dirty[w][s].old = View(w)[s]
    BY <1>2 DEF SInv, InHand, Pending
  <2>3. View(w)[s] \in Row /\ dirty[w][s].new \in Row
    BY <2>1, <2>2 DEF Object
  <2>4. SameConnection(View(w)[s], dirty[w][s].new)
    BY <1>2 DEF IInv, ObjectsCoherent
  <2> QED
    BY <1>2, <2>2, <2>3, <2>4, MergedRowIsNew DEF Flushed, Rows
<1> QED
  BY <1>1, <1>2

\* A unit of work with nothing in it.
LEMMA CleanRows ==
  ASSUME NEW w \in Worker, dirty[w] = Nothing, View(w) \in [SessionId -> Opt(Row)]
  PROVE  Rows(w) = View(w)
  BY DEF Rows, Nothing

LEMMA LoadedIsRows ==
  ASSUME NEW w \in Worker, NEW s \in SessionId
  PROVE  Loaded(w, s).new = Rows(w)[s]
  BY DEF Loaded, Rows

LEMMA LiftStep ==
  ASSUME OneAtATime, NEW w \in Worker, AtRest', InHand(w)'
  PROVE  SInv'
  BY DEF SInv, OneAtATime

-----------------------------------------------------------------------------
(* Steps outside the handler of a snapshot.                                *)

LEMMA PayloadsDiffer == Events \cap Snapshots = {}
<1> SUFFICES ASSUME NEW x \in Event, x \in Snapshot
             PROVE  FALSE
  BY PayloadAssumption
<1>1. "occurred" \in DOMAIN x
  BY DEF Event
<1>2. "occurred" \notin DOMAIN x
  BY DEF Snapshot
<1> QED
  BY <1>1, <1>2

\* The tables stay as they are and no snapshot is being handled.
LEMMA QuietStep ==
  ASSUME IInv, SInv, OneAtATime, NEW w \in Worker,
         pc[w] \notin {"flush"} \cup Reconciling,
         UNCHANGED <<database, lock, work, dirty>>,
         pc'[w] \notin Handling, job'[w].matched = {},
         RouterIsCurrent(w)', AcceptedIsExact(w)'
  PROVE  SInv'
<1>1. AtRest'
  BY DEF SInv, AtRest, RouterMarkIsNewest, database
<1>2. /\ View(w)' = View(w) /\ Rows(w)' = Rows(w)
      /\ Pending(w) /\ HistoryKept(w)
  BY DEF View, Rows, database, SInv, InHand
<1>3. Pending(w)'
  BY <1>2 DEF Pending, Handling
<1>4. HistoryKept(w)'
  BY <1>2 DEF HistoryKept, database
<1>5. /\ NotStale(w)' /\ Rebooted(w)' /\ ToCome(w)' /\ Edited(w)' /\ Matched(w)'
      /\ TablesKeep(w)'
  BY DEF NotStale, Rebooted, ToCome, Edited, Matched, TablesKeep, Handling,
         Reconciling, Looping
<1> QED
  BY <1>1, <1>3, <1>4, <1>5, LiftStep DEF InHand

LEMMA ReceiveSerial ==
  ASSUME IInv, SInv, OneAtATime, NEW w \in Worker, Receive(w)
  PROVE  SInv'
<1>1. /\ job \in [Worker -> Job] /\ job[w] \in Job /\ pc \in [Worker -> Statement]
      /\ job[w].matched = {}
  BY DEF IInv, TypeOK, SInv, InHand, Pending, Receive, Accept, Reconciling, Looping
<1>2. pc'[w] = "authenticate" /\ pc[w] = "idle"
  BY <1>1 DEF Receive, Accept, Goto
<1>3. job'[w].matched = {}
  BY <1>1 DEF Receive, Accept, Job
<1>4. RouterIsCurrent(w)'
  <2>1. CASE \E e \in Events : job' = [job EXCEPT ![w].request = e]
    BY <1>1, <2>1, PayloadsDiffer DEF RouterIsCurrent, Job
  <2>2. ASSUME NEW p \in Snapshots,
               job' = [job EXCEPT ![w] = [@ EXCEPT !.request = p,
                                                  !.boot = routerBootId,
                                                  !.mark = routerSnapshotAt]]
        PROVE  RouterIsCurrent(w)'
    <3>1. job'[w].boot = routerBootId /\ job'[w].mark = routerSnapshotAt
      BY <1>1, <2>2 DEF Job
    <3> QED
      BY <3>1 DEF RouterIsCurrent, Receive, Accept, database
  <2> QED
    BY <2>1, <2>2 DEF Receive, Accept
<1>5. AcceptedIsExact(w)'
  BY <1>2 DEF AcceptedIsExact, Accepted
<1> QED
  BY <1>2, <1>3, <1>4, <1>5, QuietStep
  DEF Receive, Accept, Handling, Reconciling, Looping

LEMMA AuthenticateSerial ==
  ASSUME IInv, SInv, OneAtATime, NEW w \in Worker, Authenticate(w)
  PROVE  SInv'
<1>1. pc'[w] \in {"lookup", "resolve"} /\ pc[w] = "authenticate"
  BY DEF Authenticate, Goto, IInv, TypeOK
<1>2. RouterIsCurrent(w)' /\ job'[w].matched = {}
  BY <1>1 DEF SInv, InHand, Pending, RouterIsCurrent, Authenticate, database,
              Reconciling, Looping
<1>3. AcceptedIsExact(w)'
  BY <1>1 DEF AcceptedIsExact, Accepted
<1> QED
  BY <1>1, <1>2, <1>3, QuietStep DEF Authenticate, Handling, Reconciling, Looping

LEMMA RespondSerial ==
  ASSUME IInv, SInv, OneAtATime, NEW w \in Worker, Respond(w)
  PROVE  SInv'
<1>1. pc'[w] = "idle" /\ job'[w] = NoJob /\ pc[w] = "replied"
  BY DEF Respond, Goto, IInv, TypeOK
<1>2. None \notin Snapshots
  BY NoneAssumption, PayloadAssumption
<1>3. RouterIsCurrent(w)' /\ job'[w].matched = {} /\ AcceptedIsExact(w)'
  BY <1>1, <1>2 DEF RouterIsCurrent, NoJob, AcceptedIsExact, Accepted
<1> QED
  BY <1>1, <1>3, QuietStep DEF Respond, Handling, Reconciling, Looping

\* An answer that leaves the database alone, and accepts no snapshot.
LEMMA AnswerUnchangedSerial ==
  ASSUME IInv, SInv, OneAtATime, NEW w \in Worker, NEW reply \in Reply \ {"accepted"},
         pc[w] \notin {"flush"} \cup Reconciling, AnswerUnchanged(w, reply)
  PROVE  SInv'
<1>1. /\ pc'[w] = "replied"
      /\ job'[w] = [NoJob EXCEPT !.request = job[w].request, !.reply = reply]
  BY DEF AnswerUnchanged, Answer, Goto, IInv, TypeOK
<1>2. job'[w].matched = {} /\ job'[w].reply = reply
  BY <1>1 DEF NoJob
<1>3. RouterIsCurrent(w)' /\ AcceptedIsExact(w)'
  BY <1>1, <1>2 DEF RouterIsCurrent, AcceptedIsExact, Accepted
<1> QED
  BY <1>1, <1>2, <1>3, QuietStep DEF AnswerUnchanged, Handling, Reconciling, Looping

LEMMA AbortSerial ==
  ASSUME IInv, SInv, OneAtATime, NEW w \in Worker, Abort(w)
  PROVE  SInv'
<1>1. Pending(w) /\ IInv /\ View(w) \in [SessionId -> Opt(Row)]
  BY ViewCoherent DEF SInv, InHand
<1>2. lock' = None /\ vpnSessions' = vpnSessions
  BY <1>1 DEF Pending, Abort, database
<1>3. dirty'[w] = Nothing /\ pc'[w] = "idle" /\ job'[w] = NoJob
  BY DEF Abort, Goto, IInv, TypeOK
<1>4. View(w)' = vpnSessions
  BY <1>2, WorkerAssumption DEF View
<1>5. Rows(w)' = vpnSessions
  BY <1>3, <1>4 DEF Rows, Nothing, IInv, TypeOK
<1>6. AtRest'
  BY DEF SInv, AtRest, RouterMarkIsNewest, Abort, database
<1>7. None \notin Snapshots
  BY NoneAssumption, PayloadAssumption
<1>8. Pending(w)' /\ RouterIsCurrent(w)' /\ AcceptedIsExact(w)' /\ HistoryKept(w)'
  BY <1>2, <1>3, <1>4, <1>5, <1>7, WorkerAssumption
  DEF Pending, RouterIsCurrent, AcceptedIsExact, Accepted, HistoryKept, NoJob, Nothing,
      Reconciling, Looping
<1>9. /\ NotStale(w)' /\ Rebooted(w)' /\ ToCome(w)' /\ Edited(w)' /\ Matched(w)'
      /\ TablesKeep(w)'
  BY <1>3 DEF NotStale, Rebooted, ToCome, Edited, Matched, TablesKeep, Handling,
              Reconciling, Looping
<1> QED
  BY <1>6, <1>8, <1>9, LiftStep DEF InHand

-----------------------------------------------------------------------------
(* Events.                                                                 *)

\* What is active later is unidentified, or was active under the same names.
NamesKept(table, later) ==
  \A s \in ActiveIn(later) :
     \/ later[s].rsid = None /\ later[s].boot = None
     \/ /\ s \in ActiveIn(table)
        /\ later[s].source = table[s].source
        /\ later[s].connected = table[s].connected
        /\ later[s].rsid = table[s].rsid
        /\ later[s].boot = table[s].boot

LEMMA KeptNames ==
  ASSUME NEW table, NEW later, NamesKept(table, later)
  PROVE  /\ \A marks : Identified(table, marks) => Identified(later, marks)
         /\ \A mark, boot : OfBoot(table, mark, boot) => OfBoot(later, mark, boot)
         /\ OneEach(table) => OneEach(later)
<1>1. \A marks : Identified(table, marks) => Identified(later, marks)
  BY DEF NamesKept, Identified
<1>2. \A mark, boot : OfBoot(table, mark, boot) => OfBoot(later, mark, boot)
  BY DEF NamesKept, OfBoot
<1>3. OneEach(table) => OneEach(later)
  BY DEF NamesKept, OneEach
<1> QED
  BY <1>1, <1>2, <1>3

LEMMA CommitEventSerial ==
  ASSUME IInv, SInv, OneAtATime, NEW w \in Worker, pc[w] = "insert", lock = None,
         NEW sessions \in [SessionId -> Opt(Row)], NamesKept(vpnSessions, sessions),
         NEW reply \in Reply \ {"accepted"}, CommitEvent(w, sessions, reply)
  PROVE  SInv'
<1>1. /\ pc'[w] = "replied"
      /\ job'[w] = [NoJob EXCEPT !.request = job[w].request, !.reply = reply]
  BY DEF CommitEvent, Answer, Goto, IInv, TypeOK
<1>2. job'[w].matched = {} /\ job'[w].reply = reply
  BY <1>1 DEF NoJob
<1>3. /\ lock' = None /\ vpnSessions' = sessions
      /\ dirty' = dirty /\ dirty[w] = Nothing
  BY DEF CommitEvent, SInv, InHand, Pending, Reconciling, Looping
<1>4. View(w)' = sessions
  BY <1>3, WorkerAssumption DEF View
<1>5. Rows(w)' = sessions
  BY <1>3, <1>4 DEF Rows, Nothing
<1>6. AtRest'
  <2>1. UNCHANGED <<sourceSnapshotAt, routerSnapshotAt, routerBootId>>
    BY DEF CommitEvent
  <2> QED
    BY <1>3, <2>1, KeptNames DEF SInv, AtRest, RouterMarkIsNewest
<1>7. Pending(w)' /\ RouterIsCurrent(w)' /\ AcceptedIsExact(w)' /\ HistoryKept(w)'
  BY <1>1, <1>2, <1>3, <1>4, <1>5, WorkerAssumption
  DEF Pending, RouterIsCurrent, AcceptedIsExact, Accepted, HistoryKept, Nothing,
      Reconciling, Looping
<1>8. /\ NotStale(w)' /\ Rebooted(w)' /\ ToCome(w)' /\ Edited(w)' /\ Matched(w)'
      /\ TablesKeep(w)'
  BY <1>1 DEF NotStale, Rebooted, ToCome, Edited, Matched, TablesKeep, Handling,
              Reconciling, Looping
<1> QED
  BY <1>6, <1>7, <1>8, LiftStep DEF InHand

LEMMA FromEventKeepsNames ==
  ASSUME IInv, NEW e \in Events, NEW sessions, FromEvent(e, sessions)
  PROVE  /\ sessions \in [SessionId -> Opt(Row)]
         /\ NamesKept(vpnSessions, sessions)
<1>1. vpnSessions \in [SessionId -> Opt(Row)] /\ e \in Event /\ e.occurred \in Int
  BY PayloadTyped DEF IInv, TypeOK
<1>2. CASE sessions = vpnSessions
  BY <1>1, <1>2 DEF NamesKept
<1>3. ASSUME NEW s \in SessionId, vpnSessions[s] = None,
             sessions = [vpnSessions EXCEPT ![s] = EventRow(e)]
      PROVE  /\ sessions \in [SessionId -> Opt(Row)]
             /\ NamesKept(vpnSessions, sessions)
  <2>1. /\ EventRow(e) \in Row
        /\ EventRow(e).rsid = None /\ EventRow(e).boot = None
    BY <1>1, EventRowType DEF EventRow
  <2> QED
    BY <1>1, <1>3, <2>1 DEF NamesKept, ActiveIn, Opt
<1>4. ASSUME NEW s \in ActiveIn(vpnSessions), NEW row \in Row,
             row.state = "CLOSED" \/ /\ row.source = vpnSessions[s].source
                                     /\ row.connected = vpnSessions[s].connected
                                     /\ row.rsid = vpnSessions[s].rsid
                                     /\ row.boot = vpnSessions[s].boot,
             sessions = [vpnSessions EXCEPT ![s] = row]
      PROVE  /\ sessions \in [SessionId -> Opt(Row)]
             /\ NamesKept(vpnSessions, sessions)
  BY <1>1, <1>4 DEF NamesKept, ActiveIn, Opt
<1>5. ASSUME NEW s \in ActiveIn(vpnSessions)
      PROVE  /\ vpnSessions[s] \in Row
             /\ ReconnectRow(vpnSessions[s], e) \in Row
             /\ ReconnectRow(vpnSessions[s], e).source = vpnSessions[s].source
             /\ ReconnectRow(vpnSessions[s], e).connected = vpnSessions[s].connected
             /\ ReconnectRow(vpnSessions[s], e).rsid = vpnSessions[s].rsid
             /\ ReconnectRow(vpnSessions[s], e).boot = vpnSessions[s].boot
             /\ CloseRow(vpnSessions[s], e.occurred, "DISCONNECT") \in Row
             /\ CloseRow(vpnSessions[s], e.occurred, "DISCONNECT").state = "CLOSED"
  <2>1. s \in SessionId /\ vpnSessions[s] \in Row
    BY <1>1 DEF ActiveIn, Opt
  <2>2. "DISCONNECT" \in Reason
    BY DEF Reason
  <2>3. /\ ReconnectRow(vpnSessions[s], e) \in Row
        /\ CloseRow(vpnSessions[s], e.occurred, "DISCONNECT") \in Row
    BY <1>1, <2>1, <2>2, ReconnectRowType, CloseRowType
  <2> QED
    BY <2>1, <2>3 DEF ReconnectRow, CloseRow, Row
<1> QED
  BY <1>1, <1>2, <1>3, <1>4, <1>5 DEF FromEvent

LEMMA EventSerial ==
  ASSUME IInv, SInv, OneAtATime, NEW w \in Worker, EventStep(w)
  PROVE  SInv'
<1>1. pc[w] \in {"lookup", "insert"} /\ job[w].request \in Events
  BY DEF EventStep, LookupEvent, StoreEvent, IInv, RequestTyped
<1>2. CASE \E reply \in Reply \ {"accepted"} : AnswerUnchanged(w, reply)
  BY <1>1, <1>2, AnswerUnchangedSerial DEF Reconciling, Looping
<1>3. CASE /\ pc[w] = "lookup" /\ Goto(w, "insert")
           /\ UNCHANGED <<database, lock, work, job, dirty>>
  <2>1. pc'[w] = "insert"
    BY <1>3 DEF Goto, IInv, TypeOK
  <2>2. RouterIsCurrent(w)' /\ job'[w].matched = {} /\ AcceptedIsExact(w)'
    BY <1>1, <1>3, <2>1 DEF SInv, InHand, Pending, RouterIsCurrent, AcceptedIsExact, Accepted,
                           database, Reconciling, Looping
  <2> QED
    BY <1>1, <1>3, <2>1, <2>2, QuietStep DEF Handling, Reconciling, Looping
<1>4. ASSUME pc[w] = "insert", lock = None, NEW sessions, NEW reply \in Reply \ {"accepted"},
             FromEvent(job[w].request, sessions), CommitEvent(w, sessions, reply)
      PROVE  SInv'
  BY <1>1, <1>4, FromEventKeepsNames, CommitEventSerial
<1> QED
  BY <1>2, <1>3, <1>4, EventSteps

-----------------------------------------------------------------------------
(* Snapshots: up to the first item.                                        *)

LEMMA SnapshotInHand ==
  ASSUME IInv, SInv, NEW w \in Worker, pc[w] \in SnapshotStatement
  PROVE  LET p == job[w].request IN
         /\ p \in Snapshots /\ p \in Snapshot
         /\ p.source \in Source /\ p.observed \in Int /\ p.boot \in Opt(BootId)
         /\ p.items \subseteq Item
         /\ \A i, j \in p.items : i.rsid = j.rsid => i = j
         /\ job[w].boot = routerBootId /\ job[w].mark = routerSnapshotAt
         /\ sourceSnapshotAt \in [Source -> Opt(Int)]
         /\ routerSnapshotAt \in Opt(Int)
<1>1. job[w].request \in Snapshots
  BY RequestIsSnapshot
<1>2. job[w].request \in Snapshot
  BY <1>1, PayloadAssumption
<1>3. \A i, j \in job[w].request.items : i.rsid = j.rsid => i = j
  BY <1>2 DEF Snapshot
<1>4. job[w].boot = routerBootId /\ job[w].mark = routerSnapshotAt
  BY <1>1 DEF SInv, InHand, RouterIsCurrent, SnapshotStatement
<1> QED
  BY <1>1, <1>2, <1>3, <1>4, RequestIsSnapshot DEF IInv, TypeOK

\* The marks of the commit are not older than those on record.
LEMMA MarksAdvance ==
  ASSUME IInv, SInv, NEW w \in Worker, pc[w] \in SnapshotStatement,
         ~StaleForSource(w), NEW table \in [SessionId -> Opt(Row)]
  PROVE  LET p == job[w].request IN
         /\ Identified(table, sourceSnapshotAt) => Identified(table, SourceMarks(p))
         /\ MarkAfter(p) \in Int /\ MarkAfter(p) >= p.observed
         /\ routerSnapshotAt # None => MarkAfter(p) >= routerSnapshotAt
<1> DEFINE p == job[w].request
<1>1. /\ p.source \in Source /\ p.observed \in Int
      /\ sourceSnapshotAt \in [Source -> Opt(Int)] /\ routerSnapshotAt \in Opt(Int)
  BY SnapshotInHand
<1>2. p.observed # None
  BY <1>1, NoneAssumption
<1>3. ASSUME Identified(table, sourceSnapshotAt), NEW s \in ActiveIn(table),
             table[s].rsid # None
      PROVE  /\ SourceMarks(p)[table[s].source] # None
             /\ table[s].connected <= SourceMarks(p)[table[s].source]
  <2>1. /\ sourceSnapshotAt[table[s].source] # None
        /\ table[s].connected <= sourceSnapshotAt[table[s].source]
    BY <1>3 DEF Identified
  <2>2. table[s] \in Row
    BY <1>3 DEF ActiveIn, Opt
  <2>3. table[s].source \in Source /\ table[s].connected \in Int
    BY <2>2 DEF Row
  <2>4. CASE table[s].source = p.source
    <3>1. sourceSnapshotAt[p.source] \in Int /\ sourceSnapshotAt[p.source] < p.observed
      BY <1>1, <2>1, <2>4 DEF StaleForSource, Outdated, Opt
    <3>2. SourceMarks(p)[table[s].source] = p.observed
      BY <1>1, <2>4 DEF SourceMarks
    <3> QED
      BY <1>1, <1>2, <2>1, <2>3, <2>4, <3>1, <3>2
  <2>5. CASE table[s].source # p.source
    BY <1>1, <2>1, <2>3, <2>5 DEF SourceMarks
  <2> QED
    BY <2>4, <2>5
<1>4. MarkAfter(p) \in Int /\ MarkAfter(p) >= p.observed
  BY <1>1 DEF MarkAfter, Outdated, Opt
<1>5. routerSnapshotAt # None => MarkAfter(p) >= routerSnapshotAt
  BY <1>1 DEF MarkAfter, Outdated, Opt
<1> HIDE DEF p
<1>6. Identified(table, sourceSnapshotAt) => Identified(table, SourceMarks(p))
  BY <1>3 DEF Identified
<1> QED
  BY <1>4, <1>5, <1>6 DEF p

\* The first item's SELECT is next, on a table that no object differs from.
LEMMA LoopEntry ==
  ASSUME IInv, SInv, OneAtATime, NEW w \in Worker,
         pc[w] \in {"resolve", "reboot", "flush"}, ~Stale(w), pc'[w] = "items",
         job'[w].request = job[w].request, job'[w].boot = job[w].boot,
         job'[w].mark = job[w].mark, job'[w].todo = job[w].request.items,
         job'[w].matched = {}, dirty'[w] = Nothing, lock' \in {None, w},
         UNCHANGED database,
         NEW table \in [SessionId -> Opt(Row)], View(w)' = table,
         Identified(table, sourceSnapshotAt), OneEach(table),
         OfBoot(table, MarkAfter(job[w].request), BootAfter(job[w].request)),
         \A s \in SessionId :
            vpnSessions[s] # None /\ vpnSessions[s].state = "CLOSED" =>
                table[s] = vpnSessions[s]
  PROVE  SInv'
<1> DEFINE p == job[w].request
<1>1. Rows(w)' = table
  BY DEF Rows, Nothing
<1>2. AtRest'
  BY DEF SInv, AtRest, RouterMarkIsNewest, database
<1>3. Pending(w)'
  BY WorkerAssumption DEF Pending, Nothing, Reconciling, Looping
<1>4. RouterIsCurrent(w)'
  <2>1. pc[w] \in SnapshotStatement
    BY DEF SnapshotStatement
  <2>2. job[w].boot = routerBootId /\ job[w].mark = routerSnapshotAt
    BY <2>1, SnapshotInHand
  <2> QED
    BY <2>2 DEF RouterIsCurrent, database
<1>5. NotStale(w)'
  BY DEF NotStale, Stale, StaleForSource, StaleForBoot, BootChanged, Outdated, database
<1>6. Rebooted(w)' /\ ToCome(w)' /\ AcceptedIsExact(w)'
  BY DEF Rebooted, ToCome, AcceptedIsExact, Accepted, Looping
<1>7. Edited(w)'
  BY DEF Edited, Nothing
<1>8. Matched(w)'
  <2>1. Done(w)' = {}
    BY DEF Done
  <2> QED
    BY <2>1 DEF Matched
<1>9. TablesKeep(w)'
  <2>1. /\ job'[w].request = p /\ View(w)' = table /\ Rows(w)' = table
        /\ UNCHANGED <<sourceSnapshotAt, routerSnapshotAt, routerBootId>>
    BY <1>1 DEF database
  <2>2. Identified(table, SourceMarks(p)) /\ OneEach(table)
    BY MarksAdvance DEF SnapshotStatement, Stale
  <2>3. OfBoot(table, MarkAfter(p), BootAfter(p))
    OBVIOUS
  <2> HIDE DEF p
  <2> QED
    BY <2>1, <2>2, <2>3
    DEF TablesKeep, SourceMarks, MarkAfter, BootAfter, Outdated, Identified, OneEach, OfBoot,
        ActiveIn
<1>10. HistoryKept(w)'
  BY <1>1 DEF HistoryKept, database
<1> QED
  BY <1>2, <1>3, <1>4, <1>5, <1>6, <1>7, <1>8, <1>9, <1>10, LiftStep DEF InHand

LEMMA ResolveSnapshotSerial ==
  ASSUME IInv, SInv, OneAtATime, NEW w \in Worker, ResolveSnapshot(w)
  PROVE  SInv'
<1> DEFINE p == job[w].request
<1>1. pc[w] = "resolve" /\ pc[w] \in SnapshotStatement
  BY DEF ResolveSnapshot, SnapshotStatement
<1>2. CASE \E reply \in {"rejected", "stale"} : AnswerUnchanged(w, reply)
  BY <1>1, <1>2, AnswerUnchangedSerial DEF Reply, Reconciling, Looping
<1>3. CASE /\ ~Stale(w)
           /\ Goto(w, IF BootChanged(w) THEN "reboot" ELSE "items")
           /\ job' = [job EXCEPT ![w].todo = p.items]
           /\ UNCHANGED <<database, lock, work, dirty>>
  <2>1. /\ job \in [Worker -> Job] /\ pc \in [Worker -> Statement]
        /\ vpnSessions \in [SessionId -> Opt(Row)]
    BY DEF IInv, TypeOK
  <2>2. /\ job'[w].request = p /\ job'[w].boot = job[w].boot /\ job'[w].mark = job[w].mark
        /\ job'[w].todo = p.items /\ job'[w].matched = {}
    BY <1>1, <1>3, <2>1 DEF Job, SInv, InHand, Pending, Reconciling, Looping
  <2>3. dirty[w] = Nothing /\ lock \in {None, w} /\ lock # w
    BY <1>1 DEF SInv, InHand, Pending, Reconciling, Looping
  <2>4. View(w) = vpnSessions /\ View(w)' = vpnSessions
    BY <1>3, <2>3 DEF View, database
  <2>5. CASE BootChanged(w)
    <3>1. pc'[w] = "reboot"
      BY <1>3, <2>1, <2>5 DEF Goto
    <3>2. AtRest'
      BY <1>3 DEF SInv, AtRest, RouterMarkIsNewest, database
    <3>3. Rows(w)' = vpnSessions
      BY <1>3, <2>1, <2>3, <2>4 DEF Rows, Nothing
    <3>4. Pending(w)' /\ HistoryKept(w)'
      BY <1>3, <2>2, <2>3, <2>4, <3>1, <3>3
      DEF Pending, HistoryKept, Nothing, Reconciling, Looping, database
    <3>5. RouterIsCurrent(w)'
      BY <1>1, <1>3, <2>2, SnapshotInHand DEF RouterIsCurrent, database
    <3>6. NotStale(w)'
      BY <1>3, <2>2, <2>5
      DEF NotStale, Stale, StaleForSource, StaleForBoot, BootChanged, Outdated, database
    <3>7. /\ Rebooted(w)' /\ ToCome(w)' /\ Edited(w)' /\ Matched(w)' /\ TablesKeep(w)'
          /\ AcceptedIsExact(w)'
      BY <2>2, <3>1 DEF Rebooted, ToCome, Edited, Matched, TablesKeep, AcceptedIsExact,
                        Accepted, Reconciling, Looping
    <3> QED
      BY <3>2, <3>4, <3>5, <3>6, <3>7, LiftStep DEF InHand
  <2>6. CASE ~BootChanged(w)
    <3>1. pc'[w] = "items"
      BY <1>3, <2>1, <2>6 DEF Goto
    <3>2. Identified(vpnSessions, sourceSnapshotAt) /\ OneEach(vpnSessions)
      BY DEF SInv, AtRest
    <3>3. OfBoot(vpnSessions, MarkAfter(p), BootAfter(p))
      <4> SUFFICES ASSUME NEW s \in ActiveIn(vpnSessions), vpnSessions[s].boot # None
                   PROVE  /\ vpnSessions[s].boot = BootAfter(p)
                          /\ MarkAfter(p) # None
                          /\ vpnSessions[s].connected <= MarkAfter(p)
        BY DEF OfBoot
      <4>1. /\ vpnSessions[s].boot = routerBootId /\ routerSnapshotAt # None
            /\ vpnSessions[s].connected <= routerSnapshotAt
        BY DEF SInv, AtRest, OfBoot
      <4>2. BootAfter(p) = routerBootId
        BY <1>1, <2>6, <4>1, SnapshotInHand DEF BootAfter, BootChanged
      <4>3. vpnSessions[s].connected \in Int
        BY <2>1 DEF ActiveIn, Opt, Row
      <4>4. /\ MarkAfter(p) \in Int /\ MarkAfter(p) >= routerSnapshotAt
            /\ routerSnapshotAt \in Int
        BY <1>1, <1>3, <2>1, <4>1, MarksAdvance, SnapshotInHand DEF Stale, Opt
      <4> QED
        BY <4>1, <4>2, <4>3, <4>4, NoneAssumption
    <3> QED
      BY <1>1, <1>3, <2>1, <2>2, <2>3, <2>4, <3>1, <3>2, <3>3, LoopEntry
  <2> QED
    BY <2>5, <2>6
<1> QED
  BY <1>2, <1>3 DEF ResolveSnapshot

\* What assigning to objects makes of the rows.
LEMMA EditedRows ==
  ASSUME IInv, SInv, NEW w \in Worker, NEW S \in SUBSET SessionId,
         NEW edited, DOMAIN edited = S, Edit(w, edited), UNCHANGED <<database, lock, work>>,
         \A s \in S : edited[s] \in Row /\ Loaded(w, s) \in Object
  PROVE  /\ View(w)' = View(w)
         /\ Rows(w)' = [s \in SessionId |-> IF s \in S THEN edited[s] ELSE Rows(w)[s]]
         /\ \A s \in SessionId : dirty'[w][s] # None <=> s \in S \/ dirty[w][s] # None
         /\ \A s \in SessionId : dirty'[w][s] # None => dirty'[w][s].old = View(w)[s]
<1>1. \A s \in SessionId :
         dirty'[w][s] = IF s \in S THEN [Loaded(w, s) EXCEPT !.new = edited[s]]
                                   ELSE dirty[w][s]
  BY DEF Edit, IInv, TypeOK
<1>2. View(w)' = View(w)
  BY DEF View, database
<1>3. ASSUME NEW s \in S
      PROVE  /\ dirty'[w][s] # None
             /\ dirty'[w][s].new = edited[s]
             /\ dirty'[w][s].old = View(w)[s]
  <2>1. /\ [Loaded(w, s) EXCEPT !.new = edited[s]] \in Object
        /\ [Loaded(w, s) EXCEPT !.new = edited[s]].new = edited[s]
        /\ [Loaded(w, s) EXCEPT !.new = edited[s]].old = Loaded(w, s).old
    BY DEF Object
  <2>2. Loaded(w, s).old = View(w)[s]
    BY DEF Loaded, SInv, InHand, Pending
  <2> QED
    BY <1>1, <2>1, <2>2, ObjectAssumption
<1>4. \A s \in SessionId : dirty[w][s] # None => dirty[w][s].old = View(w)[s]
  BY DEF SInv, InHand, Pending
<1> QED
  BY <1>1, <1>2, <1>3, <1>4 DEF Rows

\* _close_session for rows the snapshot covers.
LEMMA ClosedRows ==
  ASSUME IInv, SInv, NEW w \in Worker, pc[w] \in SnapshotStatement,
         NEW S \in SUBSET Coverable(View(w), job[w].request.observed),
         NEW why \in Reason, CloseAll(w, S, why), UNCHANGED <<database, lock, work>>
  PROVE  /\ View(w)' = View(w)
         /\ Rows(w)' = CloseEach(Rows(w), S, job[w].request, why)
         /\ \A s \in SessionId \ S : Rows(w)'[s] = Rows(w)[s]
         /\ \A s \in S : Rows(w)'[s] # None /\ Rows(w)'[s].state = "CLOSED"
         /\ \A s \in SessionId : dirty'[w][s] # None <=> s \in S \/ dirty[w][s] # None
         /\ \A s \in SessionId : dirty'[w][s] # None => dirty'[w][s].old = View(w)[s]
<1> DEFINE at == job[w].request.observed
           edited == [s \in S |-> CloseRow(Loaded(w, s).new, at, why)]
<1>1. at \in Int /\ S \in SUBSET SessionId /\ S \subseteq ActiveIn(View(w))
  BY RequestIsSnapshot DEF Coverable, ActiveIn
<1>2. ASSUME NEW s \in S
      PROVE  /\ edited[s] \in Row /\ Loaded(w, s) \in Object
             /\ edited[s].state = "CLOSED" /\ edited[s] # None
  <2>1. Loaded(w, s) \in Object /\ Loaded(w, s).new \in Row
    BY <1>1, LoadedCoherent DEF Object
  <2>2. CloseRow(Loaded(w, s).new, at, why) \in Row
    BY <1>1, <2>1, CloseRowType
  <2>3. CloseRow(Loaded(w, s).new, at, why).state = "CLOSED"
    BY <2>1 DEF CloseRow, Row
  <2> QED
    BY <2>1, <2>2, <2>3, NoneAssumption
<1>3. Edit(w, edited) /\ DOMAIN edited = S
  BY DEF CloseAll
<1>4. CloseEach(Rows(w), S, job[w].request, why)
        = [s \in SessionId |-> IF s \in S THEN edited[s] ELSE Rows(w)[s]]
  BY <1>1, LoadedIsRows DEF CloseEach
<1> HIDE DEF edited
<1>5. /\ View(w)' = View(w)
      /\ Rows(w)' = [s \in SessionId |-> IF s \in S THEN edited[s] ELSE Rows(w)[s]]
      /\ \A s \in SessionId : dirty'[w][s] # None <=> s \in S \/ dirty[w][s] # None
      /\ \A s \in SessionId : dirty'[w][s] # None => dirty'[w][s].old = View(w)[s]
  BY <1>1, <1>2, <1>3, EditedRows
<1> QED
  BY <1>1, <1>2, <1>4, <1>5

LEMMA CloseForRebootSerial ==
  ASSUME IInv, SInv, OneAtATime, NEW w \in Worker, CloseForReboot(w)
  PROVE  SInv'
<1> DEFINE p == job[w].request
           covered == Coverable(View(w), p.observed)
<1>1. /\ pc[w] = "reboot" /\ pc[w] \in SnapshotStatement
      /\ job' = job /\ UNCHANGED <<database, lock, work>>
  BY DEF CloseForReboot, SnapshotStatement
<1>2. /\ dirty[w] = Nothing /\ job[w].matched = {} /\ lock \in {None, w} /\ lock # w
      /\ job[w].todo = p.items /\ ~Stale(w) /\ BootChanged(w)
  BY <1>1 DEF SInv, InHand, Pending, ToCome, NotStale, Handling, Reconciling, Looping
<1>3. View(w) = vpnSessions /\ vpnSessions \in [SessionId -> Opt(Row)]
  BY <1>2 DEF View, IInv, TypeOK
<1>4. Rows(w) = vpnSessions
  BY <1>2, <1>3 DEF Rows, Nothing
<1>5. /\ CloseAll(w, covered, "ROUTER_REBOOT") /\ "ROUTER_REBOOT" \in Reason
      /\ covered \in SUBSET Coverable(View(w), p.observed)
  BY DEF CloseForReboot, Reason
<1>6. /\ View(w)' = vpnSessions
      /\ \A s \in SessionId \ covered : Rows(w)'[s] = vpnSessions[s]
      /\ \A s \in covered : Rows(w)'[s] # None /\ Rows(w)'[s].state = "CLOSED"
      /\ \A s \in SessionId : dirty'[w][s] # None <=> s \in covered
      /\ \A s \in SessionId : dirty'[w][s] # None => dirty'[w][s].old = View(w)[s]
  <2> HIDE DEF covered
  <2> QED
    BY <1>1, <1>2, <1>3, <1>4, <1>5, ClosedRows DEF Nothing
<1>7. /\ job[w].boot = routerBootId /\ job[w].mark = routerSnapshotAt
      /\ p.observed \in Int /\ routerSnapshotAt \in Opt(Int)
  BY <1>1, SnapshotInHand
<1>8. CASE covered = {}
  <2>1. pc'[w] = "items"
    BY <1>8 DEF CloseForReboot, Goto, IInv, TypeOK
  <2>2. dirty'[w] = Nothing
    <3>1. dirty'[w] \in [SessionId -> Opt(Object)]
      <4>1. IInv'
        BY CloseForRebootStep
      <4> QED
        BY <4>1 DEF IInv, TypeOK
    <3> QED
      BY <1>6, <1>8, <3>1 DEF Nothing
  <2>3. OfBoot(vpnSessions, MarkAfter(p), BootAfter(p))
    <3> SUFFICES ASSUME NEW s \in ActiveIn(vpnSessions), vpnSessions[s].boot # None
                 PROVE  FALSE
      BY DEF OfBoot
    <3>1. routerSnapshotAt # None /\ vpnSessions[s].connected <= routerSnapshotAt
      BY DEF SInv, AtRest, OfBoot
    <3>2. routerSnapshotAt < p.observed
      BY <1>2, <1>7, <3>1 DEF Stale, StaleForBoot, Outdated, Opt
    <3>3. vpnSessions[s].connected \in Int
      BY <1>3 DEF ActiveIn, Opt, Row
    <3>4. s \in Coverable(vpnSessions, p.observed)
      BY <1>7, <3>1, <3>2, <3>3 DEF Coverable, Opt
    <3> QED
      BY <1>3, <1>8, <3>4
  <2>4. Identified(vpnSessions, sourceSnapshotAt) /\ OneEach(vpnSessions)
    BY DEF SInv, AtRest
  <2> QED
    BY <1>1, <1>2, <1>3, <1>6, <2>1, <2>2, <2>3, <2>4, LoopEntry
<1>9. CASE covered # {}
  <2>1. pc'[w] = "flush"
    BY <1>9 DEF CloseForReboot, Goto, IInv, TypeOK
  <2>2. AtRest'
    BY <1>1 DEF SInv, AtRest, RouterMarkIsNewest, database
  <2>3. Pending(w)' /\ RouterIsCurrent(w)'
    BY <1>1, <1>2, <1>3, <1>6, <1>7, <2>1 DEF Pending, RouterIsCurrent, Reconciling, Looping, database
  <2>4. NotStale(w)'
    BY <1>1, <1>2
    DEF NotStale, Stale, StaleForSource, StaleForBoot, BootChanged, Outdated, database
  <2>5. Rebooted(w)'
    <3> SUFFICES ASSUME NEW s \in ActiveIn(Rows(w)')
                 PROVE  Rows(w)'[s] = View(w)'[s] /\ View(w)'[s].connected > p.observed
      BY <1>1 DEF Rebooted, ActiveIn
    <3>1. s \in SessionId \ covered
      BY <1>6 DEF ActiveIn
    <3>2. Rows(w)'[s] = vpnSessions[s] /\ s \in ActiveIn(vpnSessions)
      BY <1>6, <3>1 DEF ActiveIn
    <3>3. vpnSessions[s].connected \in Int
      BY <1>3, <3>2 DEF ActiveIn, Opt, Row
    <3> QED
      BY <1>3, <1>6, <1>7, <3>1, <3>2, <3>3 DEF Coverable
  <2>6. HistoryKept(w)'
    <3> SUFFICES ASSUME NEW s \in SessionId, vpnSessions[s] # None,
                        vpnSessions[s].state = "CLOSED"
                 PROVE  Rows(w)'[s] = vpnSessions[s] /\ View(w)'[s] = vpnSessions[s]
      BY <1>1 DEF HistoryKept, database
    <3>1. s \notin covered
      BY <1>3 DEF Coverable, ActiveIn
    <3> QED
      BY <1>6, <3>1
  <2>7. /\ ToCome(w)' /\ Edited(w)' /\ Matched(w)' /\ TablesKeep(w)' /\ AcceptedIsExact(w)'
    BY <1>1, <1>2, <2>1 DEF ToCome, Edited, Matched, TablesKeep, AcceptedIsExact,
                        Accepted, Reconciling, Looping
  <2> QED
    BY <2>2, <2>3, <2>4, <2>5, <2>6, <2>7, LiftStep DEF InHand
<1> QED
  BY <1>8, <1>9

LEMMA FlushRebootSerial ==
  ASSUME IInv, SInv, OneAtATime, NEW w \in Worker, FlushReboot(w)
  PROVE  SInv'
<1> DEFINE p == job[w].request
<1>1. /\ pc[w] = "flush" /\ pc[w] \in SnapshotStatement
      /\ job' = job /\ lock' = w /\ work' = Flushed(w) /\ UNCHANGED database
      /\ dirty'[w] = Nothing /\ pc'[w] = "items"
  BY DEF FlushReboot, SnapshotStatement, Goto, IInv, TypeOK
<1>2. /\ job[w].matched = {} /\ lock # w
      /\ job[w].todo = p.items /\ ~Stale(w) /\ BootChanged(w)
      /\ Rebooted(w) /\ HistoryKept(w)
  BY <1>1 DEF SInv, InHand, Pending, ToCome, NotStale, Handling, Reconciling, Looping
<1>3. View(w) = vpnSessions
  BY <1>2 DEF View
<1>4. View(w)' = Rows(w)
  BY <1>1, FlushedIsRows DEF View
<1>5. Rows(w) \in [SessionId -> Opt(Row)] /\ vpnSessions \in [SessionId -> Opt(Row)]
  BY RowsTyped DEF IInv, TypeOK
<1>6. \A s \in ActiveIn(Rows(w)) :
         /\ s \in ActiveIn(vpnSessions)
         /\ Rows(w)[s] = vpnSessions[s] /\ vpnSessions[s].connected > p.observed
  BY <1>1, <1>2, <1>3 DEF Rebooted, ActiveIn
<1>7. Identified(vpnSessions, sourceSnapshotAt) /\ OneEach(vpnSessions)
  BY DEF SInv, AtRest
<1>8. Identified(Rows(w), sourceSnapshotAt) /\ OneEach(Rows(w))
  BY <1>6, <1>7 DEF Identified, OneEach
<1>9. OfBoot(Rows(w), MarkAfter(p), BootAfter(p))
  <2> SUFFICES ASSUME NEW s \in ActiveIn(Rows(w)), Rows(w)[s].boot # None
               PROVE  FALSE
    BY DEF OfBoot
  <2>1. /\ vpnSessions[s].connected > p.observed
        /\ routerSnapshotAt # None /\ vpnSessions[s].connected <= routerSnapshotAt
    BY <1>6 DEF SInv, AtRest, OfBoot
  <2>2. /\ job[w].mark = routerSnapshotAt
        /\ p.observed \in Int /\ routerSnapshotAt \in Opt(Int)
    BY <1>1, SnapshotInHand
  <2>3. routerSnapshotAt < p.observed
    BY <1>2, <2>1, <2>2 DEF Stale, StaleForBoot, Outdated, Opt
  <2>4. vpnSessions[s].connected \in Int
    BY <1>5, <1>6 DEF ActiveIn, Opt, Row
  <2> QED
    BY <2>1, <2>2, <2>3, <2>4 DEF Opt
<1>10. \A s \in SessionId :
          vpnSessions[s] # None /\ vpnSessions[s].state = "CLOSED" =>
              Rows(w)[s] = vpnSessions[s]
  BY <1>2 DEF HistoryKept
<1> QED
  BY <1>1, <1>2, <1>4, <1>5, <1>8, <1>9, <1>10, LoopEntry

-----------------------------------------------------------------------------
(* Snapshots: the items.                                                   *)

\* A row in the loop is what it was, but for an identifier of an item done.
LEMMA RowInLoop ==
  ASSUME IInv, SInv, NEW w \in Worker, pc[w] \in Looping,
         NEW s \in SessionId, View(w)[s] # None
  PROVE  /\ Rows(w)[s] \in Row /\ View(w)[s] \in Row
         /\ SameConnection(View(w)[s], Rows(w)[s])
         /\ Rows(w)[s].state = View(w)[s].state
         /\ Rows(w)[s].rsid # View(w)[s].rsid =>
               View(w)[s].rsid = None /\ \E j \in Done(w) : Carries(Rows(w)[s], j)
<1>1. /\ View(w)[s] \in Opt(Row) /\ Rows(w)[s] \in Opt(Row) /\ Rows(w)[s] # None
      /\ SameConnection(View(w)[s], Rows(w)[s])
  BY RowsTyped
<1>2. CASE dirty[w][s] = None
  BY <1>1, <1>2 DEF Rows, Opt
<1>3. CASE dirty[w][s] # None
  BY <1>1, <1>3 DEF SInv, InHand, Edited, Opt
<1> QED
  BY <1>2, <1>3

\* An active row of the source with the identifier of an item to come had it
\* when it was read, and the item's SELECT finds it.
LEMMA IdentifierOfItem ==
  ASSUME IInv, SInv, NEW w \in Worker, pc[w] \in Looping,
         NEW item \in job[w].todo, NEW s \in ActiveIn(Rows(w)),
         Rows(w)[s].source = job[w].request.source, Rows(w)[s].rsid = item.rsid
  PROVE  /\ View(w)[s].rsid = item.rsid
         /\ s \in WithRouterSessionId(View(w), job[w].request, item)
<1> DEFINE p == job[w].request
<1>1. /\ p.source \in Source /\ p.observed \in Int
      /\ \A i, j \in p.items : i.rsid = j.rsid => i = j
      /\ sourceSnapshotAt \in [Source -> Opt(Int)]
  BY SnapshotInHand DEF SnapshotStatement, Looping
<1>2. item \in p.items /\ p.items \subseteq Item /\ item.rsid # None
  <2>1. item \in p.items
    BY DEF SInv, InHand, ToCome
  <2>2. p.items \subseteq Item
    BY RequestIsSnapshot DEF SnapshotStatement, Looping
  <2> QED
    BY <2>1, <2>2, NoneAssumption DEF Item
<1>3. s \in SessionId /\ View(w)[s] # None
  BY RowsTyped DEF ActiveIn
<1>4. /\ SameConnection(View(w)[s], Rows(w)[s])
      /\ Rows(w)[s].state = View(w)[s].state
      /\ Rows(w)[s].rsid # View(w)[s].rsid => \E j \in Done(w) : Carries(Rows(w)[s], j)
  BY <1>3, RowInLoop
<1>5. View(w)[s].rsid = item.rsid
  <2> SUFFICES ASSUME NEW j \in Done(w), Carries(Rows(w)[s], j)
               PROVE  FALSE
    BY <1>4
  <2>1. j.rsid = item.rsid /\ j \in p.items /\ j \notin job[w].todo
    BY DEF Carries, Done
  <2> QED
    BY <1>1, <1>2, <2>1
<1>6. s \in ActiveIn(View(w)) /\ View(w)[s].source = p.source
  BY <1>3, <1>4 DEF ActiveIn, SameConnection
<1>7. Identified(View(w), SourceMarks(p))
  BY DEF SInv, InHand, TablesKeep, Reconciling
<1>8. SourceMarks(p)[p.source] = p.observed
  BY <1>1 DEF SourceMarks
<1>9. View(w)[s].connected <= p.observed
  BY <1>2, <1>5, <1>6, <1>7, <1>8 DEF Identified
<1> QED
  BY <1>5, <1>6, <1>9 DEF WithRouterSessionId, Coverable

\* What the refreshed row keeps, and what it takes from the item.
LEMMA RefreshedRow ==
  ASSUME NEW row \in Row, NEW p \in Snapshot, NEW item \in Item
  PROVE  LET new == RefreshRow(row, p, item) IN
         /\ new \in Row /\ new # None
         /\ SameConnection(row, new) /\ new.state = row.state
         /\ new.rsid = item.rsid /\ new.rsid # None
         /\ row.who = item.who => Carries(new, item)
         /\ new.boot = (IF p.boot = None THEN row.boot ELSE p.boot)
<1> DEFINE new == RefreshRow(row, p, item)
<1>1. new \in Row /\ new # None
  BY RefreshRowType, NoneAssumption
<1>2. /\ SameConnection(row, new) /\ new.state = row.state
      /\ new.rsid = item.rsid
      /\ new.boot = (IF p.boot = None THEN row.boot ELSE p.boot)
      /\ new.who = row.who
      /\ new.attrs = [c \in Column |-> IF item.attrs[c] = None
                                       THEN row.attrs[c] ELSE item.attrs[c]]
  BY DEF RefreshRow, Row, SameConnection
<1>3. item.rsid # None
  BY NoneAssumption DEF Item
<1> HIDE DEF new
<1>4. row.who = item.who => Carries(new, item)
  BY <1>2 DEF Carries, Blank
<1> QED
  BY <1>1, <1>2, <1>3, <1>4 DEF new

\* How an item finds its row: by identifier, or as the one compatible row
\* that has none.
Found(w, item, s) ==
  LET p == job[w].request IN
  /\ s \in Coverable(View(w), p.observed) /\ View(w)[s].source = p.source
  /\ \/ View(w)[s].rsid = item.rsid
     \/ /\ View(w)[s].rsid = None /\ View(w)[s].who = item.who
        /\ Compatible(item, Rows(w)[s])
        /\ WithRouterSessionId(View(w), p, item) = {}

\* The row of an item is not the row of an item done: two items of a snapshot
\* that can be told apart are not matched with one row.
LEMMA FoundIsFresh ==
  ASSUME IInv, SInv, NEW w \in Worker, pc[w] \in Looping,
         NEW item \in job[w].todo, NEW s \in SessionId, Found(w, item, s),
         Distinguishable(job[w].request), NEW j \in Done(w)
  PROVE  Rows(w)[s].rsid # j.rsid
<1> SUFFICES ASSUME Rows(w)[s].rsid = j.rsid
             PROVE  FALSE
  OBVIOUS
<1> DEFINE p == job[w].request
           row == Rows(w)[s]
           seen == View(w)[s]
<1>1. /\ \A h, i \in p.items : h.rsid = i.rsid => h = i
      /\ p.items \subseteq Item /\ item \in p.items /\ j \in p.items /\ j # item
  BY SnapshotInHand, RequestIsSnapshot DEF SnapshotStatement, Looping, SInv, InHand, ToCome, Done
<1>2. j.rsid # None /\ item.rsid # None
  BY <1>1, NoneAssumption DEF Item
<1>3. View(w)[s] # None
  BY DEF Found, Coverable, ActiveIn
<1>4. /\ SameConnection(seen, row)
      /\ row.rsid # seen.rsid => seen.rsid = None /\ \E i \in Done(w) : Carries(row, i)
  BY <1>3, RowInLoop
<1>5. seen.rsid = None /\ seen.who = item.who /\ Compatible(item, row)
  BY <1>1, <1>2, <1>4 DEF Found
<1>6. PICK i \in Done(w) : Carries(row, i)
  BY <1>2, <1>4, <1>5
<1>7. i = j
  BY <1>1, <1>6 DEF Carries, Done
<1>8. j.who = item.who /\ ~Compatible(item, j)
  BY <1>1, <1>4, <1>5, <1>6, <1>7 DEF Carries, SameConnection, Distinguishable
<1> QED
  BY <1>5, <1>6, <1>7, <1>8 DEF Compatible, Carries, Column

LEMMA MatchSerial ==
  ASSUME IInv, SInv, OneAtATime, NEW w \in Worker, pc[w] \in {"items", "fallback"},
         NEW item \in job[w].todo, NEW s \in SessionId, Found(w, item, s),
         Match(w, item, s)
  PROVE  SInv'
<1> DEFINE p == job[w].request
           row == Rows(w)[s]
           new == RefreshRow(row, p, item)
           edited == [t \in {s} |-> RefreshRow(Loaded(w, t).new, p, item)]
<1>1. pc[w] \in Looping /\ pc[w] \in SnapshotStatement
  BY DEF Looping, SnapshotStatement
<1>2. /\ p \in Snapshot /\ p.source \in Source /\ p.observed \in Int /\ p.observed # None
      /\ p.items \subseteq Item /\ job[w].todo \subseteq p.items /\ item \in Item
      /\ sourceSnapshotAt \in [Source -> Opt(Int)]
  BY <1>1, SnapshotInHand, NoneAssumption DEF SInv, InHand, ToCome
<1>3. /\ s \in ActiveIn(View(w)) /\ View(w)[s] # None /\ View(w)[s].source = p.source
      /\ View(w)[s].connected <= p.observed
  BY DEF Found, Coverable, ActiveIn
<1>4. /\ row \in Row /\ SameConnection(View(w)[s], row) /\ row.state = "ACTIVE"
  BY <1>1, <1>3, RowInLoop DEF ActiveIn
<1>5. /\ new \in Row /\ new # None
      /\ SameConnection(row, new) /\ new.state = "ACTIVE"
      /\ new.rsid = item.rsid
      /\ row.who = item.who => Carries(new, item)
      /\ new.boot = (IF p.boot = None THEN row.boot ELSE p.boot)
  BY <1>2, <1>4, RefreshedRow
<1>6. Loaded(w, s).new = row /\ Loaded(w, s) \in Object
  BY <1>3, LoadedIsRows, LoadedCoherent
<1>7. edited = [t \in {s} |-> new]
  BY <1>6
<1>8. Edit(w, edited) /\ UNCHANGED <<database, lock, work>> /\ pc'[w] = "items"
  BY DEF Match, Goto, IInv, TypeOK
<1> HIDE DEF edited, new
<1>9. DOMAIN edited = {s} /\ edited[s] = new
  BY <1>7
<1>10. /\ View(w)' = View(w)
       /\ Rows(w)' = [t \in SessionId |-> IF t \in {s} THEN edited[t] ELSE Rows(w)[t]]
       /\ \A t \in SessionId : dirty'[w][t] # None <=> t \in {s} \/ dirty[w][t] # None
       /\ \A t \in SessionId : dirty'[w][t] # None => dirty'[w][t].old = View(w)[t]
  <2>1. \A t \in {s} : edited[t] \in Row /\ Loaded(w, t) \in Object
    BY <1>5, <1>6, <1>9
  <2> QED
    BY <1>8, <1>9, <2>1, EditedRows
<1>11. Rows(w)'[s] = new /\ \A t \in SessionId \ {s} : Rows(w)'[t] = Rows(w)[t]
  BY <1>9, <1>10
<1>12. /\ job'[w].request = p /\ job'[w].boot = job[w].boot /\ job'[w].mark = job[w].mark
       /\ job'[w].todo = job[w].todo \ {item}
       /\ job'[w].matched = job[w].matched \cup {s}
  BY DEF Match, IInv, TypeOK, Job
<1>13. Done(w)' = Done(w) \cup {item}
  BY <1>2, <1>12 DEF Done
<1>14. AtRest'
  BY <1>8 DEF SInv, AtRest, RouterMarkIsNewest, database
<1>15. Pending(w)'
  BY <1>8, <1>10 DEF Pending, Reconciling, Looping, SInv, InHand
<1>16. RouterIsCurrent(w)'
  BY <1>1, <1>8, <1>12, SnapshotInHand DEF RouterIsCurrent, database
<1>17. NotStale(w)'
  <2>1. ~Stale(w)
    BY <1>1 DEF SInv, InHand, NotStale, Handling, Reconciling
  <2> QED
    BY <1>8, <1>12, <2>1
    DEF NotStale, Stale, StaleForSource, StaleForBoot, BootChanged, Outdated, database
<1>18. Rebooted(w)' /\ ToCome(w)' /\ AcceptedIsExact(w)'
  BY <1>2, <1>8, <1>12 DEF Rebooted, ToCome, AcceptedIsExact, Accepted, Looping
<1>19. Edited(w)'
  <2> SUFFICES ASSUME NEW t \in SessionId, dirty'[w][t] # None
               PROVE  /\ View(w)[t].source = p.source
                      /\ View(w)[t].connected <= p.observed
                      /\ Rows(w)'[t].state = View(w)[t].state
                      /\ Rows(w)'[t].rsid # View(w)[t].rsid =>
                            /\ View(w)[t].rsid = None
                            /\ \E j \in Done(w)' : Carries(Rows(w)'[t], j)
    BY <1>10, <1>12 DEF Edited, Carries
  <2>1. CASE t = s
    BY <1>3, <1>4, <1>5, <1>11, <1>13, <2>1 DEF Found, SameConnection, ActiveIn
  <2>2. CASE t # s
    <3>1. dirty[w][t] # None /\ Rows(w)'[t] = Rows(w)[t] /\ Edited(w)
      BY <1>10, <1>11, <2>2 DEF SInv, InHand
    <3> QED
      BY <1>1, <1>13, <3>1 DEF Edited
  <2> QED
    BY <2>1, <2>2
<1>20. Matched(w)'
  <2>1. Matched(w)
    BY DEF SInv, InHand
  <2>2. ASSUME NEW t \in job[w].matched \cup {s}
        PROVE  /\ t \in SessionId /\ Rows(w)'[t] # None /\ Rows(w)'[t].state = "ACTIVE"
               /\ Rows(w)'[t].connected <= p.observed
               /\ Rows(w)'[t].source = p.source
               /\ \E j \in Done(w)' : Rows(w)'[t].rsid = j.rsid
    <3>1. CASE t = s
      BY <1>3, <1>4, <1>5, <1>11, <1>13, <3>1 DEF SameConnection
    <3>2. CASE t # s
      <4>1. /\ t \in Coverable(Rows(w), p.observed) /\ Rows(w)[t].source = p.source
            /\ \E j \in Done(w) : Rows(w)[t].rsid = j.rsid
        BY <1>1, <2>1, <3>2 DEF Matched, Reconciling
      <4> QED
        BY <1>11, <1>13, <3>2, <4>1 DEF Coverable, ActiveIn
    <3> QED
      BY <3>1, <3>2
  <2>3. ASSUME Distinguishable(p), NEW j \in Done(w)'
        PROVE  \E t \in job[w].matched \cup {s} : Rows(w)'[t].rsid = j.rsid
    <3>1. CASE j = item
      BY <1>5, <1>11, <3>1
    <3>2. CASE j # item
      <4>1. j \in Done(w)
        BY <1>13, <3>2
      <4>2. PICK t \in job[w].matched : t \in SessionId /\ Rows(w)[t].rsid = j.rsid
        BY <1>1, <2>1, <2>3, <4>1 DEF Matched, Reconciling, Coverable, ActiveIn
      <4>3. t # s
        BY <1>1, <2>3, <4>1, <4>2, FoundIsFresh
      <4> QED
        BY <1>11, <4>2, <4>3
    <3> QED
      BY <3>1, <3>2
  <2>4. Distinguishable(p)' <=> Distinguishable(p)
    BY <1>12 DEF Distinguishable, Compatible, Blank, Column
  <2> QED
    BY <1>8, <1>12, <2>2, <2>3, <2>4 DEF Matched, Coverable, ActiveIn, Distinguishable, Compatible, Blank
<1>21. TablesKeep(w)'
  <2> DEFINE marks == SourceMarks(p)
             mark == MarkAfter(p)
             boot == BootAfter(p)
             later == Rows(w)'
  <2>1. /\ Identified(View(w), marks) /\ OneEach(View(w))
        /\ Identified(Rows(w), marks) /\ OneEach(Rows(w)) /\ OfBoot(Rows(w), mark, boot)
    BY <1>1 DEF SInv, InHand, TablesKeep, Reconciling
  <2>2. marks[p.source] = p.observed
    BY <1>2 DEF SourceMarks
  <2>3. mark \in Int /\ mark >= p.observed /\ mark # None
    <3>1. ~StaleForSource(w) /\ Rows(w) \in [SessionId -> Opt(Row)]
      BY <1>1, RowsTyped DEF SInv, InHand, NotStale, Handling, Reconciling, Stale
    <3>2. mark \in Int /\ mark >= p.observed
      BY <1>1, <3>1, MarksAdvance
    <3> QED
      BY <3>2, NoneAssumption
  <2>4. /\ new.source = p.source /\ new.connected = View(w)[s].connected
        /\ new.connected \in Int /\ new.connected <= p.observed
    BY <1>3, <1>4, <1>5 DEF SameConnection, Row
  <2>5. \A t \in SessionId \ {s} : t \in ActiveIn(later) <=> t \in ActiveIn(Rows(w))
    BY <1>11 DEF ActiveIn
  <2>6. Identified(later, marks)
    BY <1>2, <1>11, <2>1, <2>2, <2>4, <2>5 DEF Identified, ActiveIn
  <2>7. OfBoot(later, mark, boot)
    <3> SUFFICES ASSUME NEW t \in ActiveIn(later), later[t].boot # None
                 PROVE  later[t].boot = boot /\ mark # None /\ later[t].connected <= mark
      BY DEF OfBoot
    <3>1. CASE t # s
      BY <1>11, <2>1, <2>5, <3>1 DEF OfBoot, ActiveIn
    <3>2. CASE t = s /\ p.boot # None
      <4>1. boot = p.boot /\ later[s].boot = p.boot
        BY <1>5, <1>11, <3>2 DEF BootAfter
      <4> QED
        BY <1>2, <1>11, <2>3, <2>4, <3>2, <4>1
    <3>3. CASE t = s /\ p.boot = None
      <4>1. /\ s \in ActiveIn(Rows(w)) /\ Rows(w)[s].boot = later[s].boot
            /\ Rows(w)[s].connected = later[s].connected
        BY <1>4, <1>5, <1>11, <3>3, NoneAssumption DEF ActiveIn, SameConnection
      <4> QED
        BY <2>1, <3>3, <4>1 DEF OfBoot
    <3> QED
      BY <3>1, <3>2, <3>3
  <2>8. OneEach(later)
    <3>1. ASSUME NEW t \in ActiveIn(Rows(w)), t # s,
                 Rows(w)[t].source = p.source, Rows(w)[t].rsid = item.rsid
          PROVE  FALSE
      <4>1. View(w)[t].rsid = item.rsid /\ t \in WithRouterSessionId(View(w), p, item)
        BY <1>1, <3>1, IdentifierOfItem
      <4>2. View(w)[s].rsid = item.rsid /\ item.rsid # None
        BY <1>2, <4>1, NoneAssumption DEF Found, Item
      <4>3. t \in ActiveIn(View(w)) /\ View(w)[t].source = p.source
        BY <4>1 DEF WithRouterSessionId, Coverable
      <4> QED
        BY <1>3, <2>1, <3>1, <4>1, <4>2, <4>3 DEF OneEach
    <3> SUFFICES ASSUME NEW t \in ActiveIn(later), NEW u \in ActiveIn(later), t # u,
                        later[t].source = later[u].source, later[t].rsid # None,
                        later[t].rsid = later[u].rsid
                 PROVE  FALSE
      BY DEF OneEach
    <3>2. CASE t = s
      <4>1. u \in ActiveIn(Rows(w)) /\ Rows(w)[u] = later[u]
        BY <1>11, <2>5, <3>2 DEF ActiveIn
      <4> QED
        BY <1>5, <1>11, <2>4, <3>1, <3>2, <4>1
    <3>3. CASE u = s
      <4>1. t \in ActiveIn(Rows(w)) /\ Rows(w)[t] = later[t]
        BY <1>11, <2>5, <3>3 DEF ActiveIn
      <4> QED
        BY <1>5, <1>11, <2>4, <3>1, <3>3, <4>1
    <3>4. CASE t # s /\ u # s
      BY <1>11, <2>1, <2>5, <3>4 DEF OneEach, ActiveIn
    <3> QED
      BY <3>2, <3>3, <3>4
  <2>9. /\ View(w)' = View(w) /\ job'[w].request = p
        /\ UNCHANGED <<sourceSnapshotAt, routerSnapshotAt, routerBootId>>
    BY <1>8, <1>10, <1>12 DEF database
  <2> HIDE DEF p
  <2> QED
    BY <2>1, <2>6, <2>7, <2>8, <2>9
    DEF TablesKeep, SourceMarks, MarkAfter, BootAfter, Outdated, Identified, OneEach, OfBoot,
        ActiveIn
<1>22. HistoryKept(w)'
  <2> SUFFICES ASSUME NEW t \in SessionId, vpnSessions[t] # None,
                      vpnSessions[t].state = "CLOSED"
               PROVE  Rows(w)'[t] = vpnSessions[t] /\ View(w)'[t] = vpnSessions[t]
    BY <1>8 DEF HistoryKept, database
  <2>1. Rows(w)[t] = vpnSessions[t] /\ View(w)[t] = vpnSessions[t]
    BY DEF SInv, InHand, HistoryKept
  <2>2. t # s
    BY <1>3, <2>1 DEF ActiveIn
  <2> QED
    BY <1>10, <1>11, <2>1, <2>2
<1> QED
  BY <1>14, <1>15, <1>16, <1>17, <1>18, <1>19, <1>20, <1>21, <1>22, LiftStep DEF InHand

\* A step of the loop that only reads.
LEMMA LoopGoto ==
  ASSUME IInv, SInv, OneAtATime, NEW w \in Worker, pc[w] \in Looping, pc'[w] \in Looping,
         UNCHANGED <<database, lock, work, dirty>>,
         job'[w].request = job[w].request, job'[w].boot = job[w].boot,
         job'[w].mark = job[w].mark, job'[w].todo = job[w].todo,
         job'[w].matched = job[w].matched,
         pc'[w] # "items" =>
            /\ job'[w].item \in job[w].todo
            /\ WithRouterSessionId(View(w), job[w].request, job'[w].item) = {}
  PROVE  SInv'
<1> DEFINE p == job[w].request
<1>1. /\ View(w)' = View(w) /\ Rows(w)' = Rows(w) /\ Done(w)' = Done(w)
      /\ job'[w].request = p
  BY DEF View, Rows, database, Done
<1>2. AtRest'
  BY DEF SInv, AtRest, RouterMarkIsNewest, database
<1>3. Pending(w)' /\ HistoryKept(w)' /\ AcceptedIsExact(w)'
  BY <1>1 DEF SInv, InHand, Pending, HistoryKept, AcceptedIsExact, Accepted, Reconciling,
              Looping, database
<1>4. RouterIsCurrent(w)'
  BY <1>1, SnapshotInHand DEF RouterIsCurrent, database, SnapshotStatement, Looping
<1>5. NotStale(w)'
  <2>1. ~Stale(w)
    BY DEF SInv, InHand, NotStale, Handling, Reconciling
  <2> QED
    BY <2>1 DEF NotStale, Stale, StaleForSource, StaleForBoot, BootChanged, Outdated, database,
                Looping
<1>6. ToCome(w)'
  <2>1. job[w].todo \subseteq p.items
    BY DEF SInv, InHand, ToCome
  <2>2. WithRouterSessionId(View(w), p, job'[w].item)
          = WithRouterSessionId(View(w)', job'[w].request, job'[w].item)
    BY <1>1
  <2> QED
    BY <2>1, <2>2 DEF ToCome, Looping, WithRouterSessionId, Coverable, ActiveIn
<1>7. Rebooted(w)'
  BY DEF Rebooted, Looping
<1>8. Edited(w)'
  BY <1>1 DEF SInv, InHand, Edited, Carries
<1>9. Matched(w)'
  <2>1. Matched(w)
    BY DEF SInv, InHand
  <2> QED
    BY <1>1, <2>1 DEF Matched, Coverable, ActiveIn, Distinguishable, Compatible, Blank,
                      Reconciling, Looping
<1>10. TablesKeep(w)'
  <2>1. TablesKeep(w) /\ UNCHANGED <<sourceSnapshotAt, routerSnapshotAt, routerBootId>>
    BY DEF SInv, InHand, database
  <2> QED
    BY <1>1, <2>1
    DEF TablesKeep, SourceMarks, MarkAfter, BootAfter, Outdated, Identified, OneEach, OfBoot,
        ActiveIn, Reconciling, Looping
<1> QED
  BY <1>2, <1>3, <1>4, <1>5, <1>6, <1>7, <1>8, <1>9, <1>10, LiftStep DEF InHand

LEMMA FindByRouterSessionIdSerial ==
  ASSUME IInv, SInv, OneAtATime, NEW w \in Worker, FindByRouterSessionId(w)
  PROVE  SInv'
<1>1. pc[w] = "items" /\ pc[w] \in Looping
  BY DEF FindByRouterSessionId, Looping
<1>2. ASSUME NEW item \in job[w].todo,
             NEW s \in Latest(View(w), WithRouterSessionId(View(w), job[w].request, item)),
             Match(w, item, s)
      PROVE  SInv'
  <2>1. s \in WithRouterSessionId(View(w), job[w].request, item)
    BY DEF Latest
  <2>2. s \in SessionId /\ Found(w, item, s)
    BY <2>1 DEF WithRouterSessionId, Found, Coverable, ActiveIn
  <2> QED
    BY <1>1, <1>2, <2>2, MatchSerial
<1>3. ASSUME NEW item \in job[w].todo,
             WithRouterSessionId(View(w), job[w].request, item) = {},
             job' = [job EXCEPT ![w].item = item], Goto(w, "fallback"),
             UNCHANGED <<database, lock, work, dirty>>
      PROVE  SInv'
  <2>1. pc'[w] \in Looping
    BY <1>3 DEF Goto, IInv, TypeOK, Looping
  <2>2. /\ job'[w].request = job[w].request /\ job'[w].boot = job[w].boot
        /\ job'[w].mark = job[w].mark /\ job'[w].todo = job[w].todo
        /\ job'[w].matched = job[w].matched /\ job'[w].item = item
    BY <1>3 DEF IInv, TypeOK, Job
  <2> QED
    BY <1>1, <1>3, <2>1, <2>2, LoopGoto
<1> QED
  BY <1>2, <1>3 DEF FindByRouterSessionId

LEMMA FindEventFallbackSerial ==
  ASSUME IInv, SInv, OneAtATime, NEW w \in Worker, FindEventFallback(w)
  PROVE  SInv'
<1> DEFINE item == job[w].item
<1>1. pc[w] = "fallback" /\ pc[w] \in Looping
  BY DEF FindEventFallback, Looping
<1>2. item \in job[w].todo /\ WithRouterSessionId(View(w), job[w].request, item) = {}
  BY <1>1 DEF SInv, InHand, ToCome
<1>3. ASSUME NEW s \in FallbackCandidates(View(w), job[w].request, item),
             Compatible(item, Loaded(w, s).new), Match(w, item, s)
      PROVE  SInv'
  <2>1. s \in SessionId /\ s \in Coverable(View(w), job[w].request.observed)
    BY DEF FallbackCandidates, Coverable, ActiveIn
  <2>2. Found(w, item, s)
    BY <1>2, <1>3, <2>1, LoadedIsRows DEF FallbackCandidates, Found
  <2> QED
    BY <1>1, <1>2, <1>3, <2>1, <2>2, MatchSerial
<1>4. CASE Goto(w, "create") /\ UNCHANGED <<database, lock, work, job, dirty>>
  <2>1. pc'[w] \in Looping
    BY <1>4 DEF Goto, IInv, TypeOK, Looping
  <2> QED
    BY <1>1, <1>2, <1>4, <2>1, LoopGoto
<1> QED
  BY <1>3, <1>4 DEF FindEventFallback

LEMMA CreateReconciledSerial ==
  ASSUME IInv, SInv, OneAtATime, NEW w \in Worker, CreateReconciled(w)
  PROVE  SInv'
<1> DEFINE p == job[w].request
           item == job[w].item
           new == ReconciledRow(p, item)
<1>1. pc[w] = "create" /\ pc[w] \in Looping /\ pc[w] \in SnapshotStatement
  BY DEF CreateReconciled, Looping, SnapshotStatement
<1>2. /\ p \in Snapshot /\ p.source \in Source /\ p.observed \in Int /\ p.observed # None
      /\ p.items \subseteq Item /\ job[w].todo \subseteq p.items /\ item \in Item
      /\ item \in job[w].todo /\ WithRouterSessionId(View(w), p, item) = {}
      /\ sourceSnapshotAt \in [Source -> Opt(Int)]
  BY <1>1, SnapshotInHand, NoneAssumption DEF SInv, InHand, ToCome
<1>3. PICK s \in SessionId :
         /\ View(w)[s] = None
         /\ lock' = w
         /\ work' = [Flushed(w) EXCEPT ![s] = new]
         /\ job' = [job EXCEPT ![w].todo = @ \ {item}, ![w].item = None,
                               ![w].matched = @ \cup {s}]
  BY DEF CreateReconciled
<1>4. /\ new \in Row /\ new # None /\ new.state = "ACTIVE" /\ new.source = p.source
      /\ new.rsid = item.rsid /\ new.rsid # None /\ new.boot = p.boot
      /\ new.connected \in Int /\ new.connected <= p.observed
  <2>1. new \in Row /\ new # None
    BY <1>2, ReconciledRowType, NoneAssumption
  <2>2. item.uptime \in Opt(Nat) /\ item.rsid # None
    BY <1>2, NoneAssumption DEF Item
  <2> QED
    BY <1>2, <2>1, <2>2 DEF ReconciledRow, Opt
<1> HIDE DEF new
<1>5. /\ UNCHANGED database /\ dirty'[w] = Nothing /\ pc'[w] = "items"
  BY DEF CreateReconciled, Goto, IInv, TypeOK
<1>6. /\ View(w) \in [SessionId -> Opt(Row)] /\ Rows(w) \in [SessionId -> Opt(Row)]
      /\ Rows(w)[s] = None
  BY <1>3, RowsTyped
<1> DEFINE table == [Rows(w) EXCEPT ![s] = new]
<1>7. /\ View(w)' = table /\ Rows(w)' = table
  <2>1. View(w)' = table
    BY <1>3, FlushedIsRows DEF View
  <2>2. table \in [SessionId -> Opt(Row)]
    BY <1>4, <1>6 DEF Opt
  <2> HIDE DEF table
  <2> QED
    BY <1>5, <2>1, <2>2 DEF Rows, Nothing
<1>8. /\ table[s] = new /\ \A t \in SessionId \ {s} : table[t] = Rows(w)[t]
      /\ \A t \in SessionId : Rows(w)[t] # None => t # s
  BY <1>6
<1> HIDE DEF table
<1>9. /\ job'[w].request = p /\ job'[w].boot = job[w].boot /\ job'[w].mark = job[w].mark
      /\ job'[w].todo = job[w].todo \ {item}
      /\ job'[w].matched = job[w].matched \cup {s}
  BY <1>3 DEF IInv, TypeOK, Job
<1>10. Done(w)' = Done(w) \cup {item}
  BY <1>2, <1>9 DEF Done
<1>11. AtRest'
  BY <1>5 DEF SInv, AtRest, RouterMarkIsNewest, database
<1>12. Pending(w)' /\ Edited(w)'
  BY <1>3, <1>5 DEF Pending, Edited, Reconciling, Looping, Nothing
<1>13. RouterIsCurrent(w)'
  BY <1>1, <1>5, <1>9, SnapshotInHand DEF RouterIsCurrent, database
<1>14. NotStale(w)' /\ ~StaleForSource(w)
  <2>1. ~Stale(w)
    BY <1>1 DEF SInv, InHand, NotStale, Handling, Reconciling
  <2> QED
    BY <1>5, <1>9, <2>1
    DEF NotStale, Stale, StaleForSource, StaleForBoot, BootChanged, Outdated, database
<1>15. Rebooted(w)' /\ ToCome(w)' /\ AcceptedIsExact(w)'
  BY <1>2, <1>5, <1>9 DEF Rebooted, ToCome, AcceptedIsExact, Accepted, Looping
<1>16. Matched(w)'
  <2>1. Matched(w)
    BY DEF SInv, InHand
  <2>2. ASSUME NEW t \in job[w].matched \cup {s}
        PROVE  /\ t \in SessionId /\ table[t] # None /\ table[t].state = "ACTIVE"
               /\ table[t].connected <= p.observed
               /\ table[t].source = p.source
               /\ \E j \in Done(w)' : table[t].rsid = j.rsid
    <3>1. CASE t = s
      BY <1>4, <1>8, <1>10, <3>1
    <3>2. CASE t # s
      <4>1. /\ t \in Coverable(Rows(w), p.observed) /\ Rows(w)[t].source = p.source
            /\ \E j \in Done(w) : Rows(w)[t].rsid = j.rsid
        BY <1>1, <2>1, <3>2 DEF Matched, Reconciling
      <4> QED
        BY <1>8, <1>10, <3>2, <4>1 DEF Coverable, ActiveIn
    <3> QED
      BY <3>1, <3>2
  <2>3. ASSUME Distinguishable(p), NEW j \in Done(w)'
        PROVE  \E t \in job[w].matched \cup {s} : table[t].rsid = j.rsid
    <3>1. CASE j = item
      BY <1>4, <1>8, <3>1
    <3>2. CASE j # item
      <4>1. j \in Done(w)
        BY <1>10, <3>2
      <4>2. PICK t \in job[w].matched : /\ t \in SessionId /\ Rows(w)[t] # None
                                        /\ Rows(w)[t].rsid = j.rsid
        BY <1>1, <2>1, <2>3, <4>1 DEF Matched, Reconciling, Coverable, ActiveIn
      <4> QED
        BY <1>8, <4>2
    <3> QED
      BY <3>1, <3>2
  <2>4. Distinguishable(p)' <=> Distinguishable(p)
    BY <1>9 DEF Distinguishable, Compatible, Blank, Column
  <2> QED
    BY <1>5, <1>7, <1>9, <2>2, <2>3, <2>4
    DEF Matched, Coverable, ActiveIn, Distinguishable, Compatible, Blank
<1>17. TablesKeep(w)'
  <2> DEFINE marks == SourceMarks(p)
             mark == MarkAfter(p)
             boot == BootAfter(p)
  <2>1. Identified(Rows(w), marks) /\ OneEach(Rows(w)) /\ OfBoot(Rows(w), mark, boot)
    BY <1>1 DEF SInv, InHand, TablesKeep, Reconciling
  <2>2. marks[p.source] = p.observed
    BY <1>2 DEF SourceMarks
  <2>3. mark \in Int /\ mark >= p.observed /\ mark # None
    BY <1>1, <1>6, <1>14, MarksAdvance, NoneAssumption
  <2>4. ASSUME NEW t \in ActiveIn(table), t # s
        PROVE  t \in ActiveIn(Rows(w)) /\ table[t] = Rows(w)[t]
    BY <1>8, <2>4 DEF ActiveIn
  <2>5. Identified(table, marks)
    BY <1>2, <1>4, <1>8, <2>1, <2>2, <2>4 DEF Identified
  <2>6. OfBoot(table, mark, boot)
    <3>1. new.boot # None => new.boot = boot
      BY <1>4 DEF BootAfter
    <3>2. new.connected <= mark
      BY <1>2, <1>4, <2>3
    <3> QED
      BY <1>8, <2>1, <2>3, <2>4, <3>1, <3>2 DEF OfBoot
  <2>7. OneEach(table)
    <3>1. ASSUME NEW t \in ActiveIn(Rows(w)),
                 Rows(w)[t].source = p.source, Rows(w)[t].rsid = item.rsid
          PROVE  FALSE
      BY <1>1, <1>2, <3>1, IdentifierOfItem
    <3> QED
      BY <1>4, <1>8, <2>1, <2>4, <3>1 DEF OneEach
  <2>8. /\ job'[w].request = p
        /\ UNCHANGED <<sourceSnapshotAt, routerSnapshotAt, routerBootId>>
    BY <1>5, <1>9 DEF database
  <2> HIDE DEF p
  <2> QED
    BY <1>7, <2>5, <2>6, <2>7, <2>8
    DEF TablesKeep, SourceMarks, MarkAfter, BootAfter, Outdated, Identified, OneEach, OfBoot,
        ActiveIn
<1>18. HistoryKept(w)'
  <2>1. HistoryKept(w)
    BY DEF SInv, InHand
  <2> QED
    BY <1>5, <1>7, <1>8, <2>1 DEF HistoryKept, database
<1> QED
  BY <1>11, <1>12, <1>13, <1>14, <1>15, <1>16, <1>17, <1>18, LiftStep DEF InHand

LEMMA CloseMissingSerial ==
  ASSUME IInv, SInv, OneAtATime, NEW w \in Worker, CloseMissing(w)
  PROVE  SInv'
<1> DEFINE p == job[w].request
           missing == {s \in Coverable(View(w), p.observed) :
                          View(w)[s].source = p.source} \ job[w].matched
<1>1. /\ pc[w] = "items" /\ pc[w] \in Looping /\ pc[w] \in SnapshotStatement
      /\ job[w].todo = {} /\ job' = job /\ UNCHANGED <<database, lock, work>>
      /\ pc'[w] = "commit"
  BY DEF CloseMissing, Looping, SnapshotStatement, Goto, IInv, TypeOK
<1>2. /\ missing \in SUBSET Coverable(View(w), p.observed)
      /\ CloseAll(w, missing, "RECONCILIATION") /\ "RECONCILIATION" \in Reason
  BY DEF CloseMissing, Reason
<1>3. \A s \in missing : s \in ActiveIn(View(w)) /\ s \notin job[w].matched
  BY DEF Coverable
<1>4. \A s \in SessionId \ missing :
         s \in Coverable(View(w), p.observed) /\ View(w)[s].source = p.source =>
             s \in job[w].matched
  OBVIOUS
<1> HIDE DEF missing
<1>5. /\ View(w)' = View(w)
      /\ \A s \in SessionId \ missing : Rows(w)'[s] = Rows(w)[s]
      /\ \A s \in missing : Rows(w)'[s] # None /\ Rows(w)'[s].state = "CLOSED"
      /\ \A s \in SessionId : dirty'[w][s] # None => dirty'[w][s].old = View(w)[s]
  BY <1>1, <1>2, ClosedRows
<1>6. \A s \in ActiveIn(Rows(w)') : /\ s \in SessionId \ missing /\ s \in ActiveIn(Rows(w))
                                    /\ Rows(w)'[s] = Rows(w)[s]
  BY <1>5 DEF ActiveIn
<1>7. AtRest' /\ Done(w)' = Done(w)
  BY <1>1 DEF SInv, AtRest, RouterMarkIsNewest, database, Done
<1>8. Pending(w)'
  BY <1>1, <1>5 DEF SInv, InHand, Pending, Reconciling, Looping
<1>9. RouterIsCurrent(w)'
  BY <1>1, SnapshotInHand DEF RouterIsCurrent, database
<1>10. NotStale(w)'
  <2>1. ~Stale(w)
    BY <1>1 DEF SInv, InHand, NotStale, Handling, Reconciling
  <2> QED
    BY <1>1, <2>1
    DEF NotStale, Stale, StaleForSource, StaleForBoot, BootChanged, Outdated, database
<1>11. Rebooted(w)' /\ ToCome(w)' /\ Edited(w)' /\ AcceptedIsExact(w)'
  BY <1>1 DEF Rebooted, ToCome, Edited, AcceptedIsExact, Accepted, Looping
<1>12. Matched(w)'
  <2>1. Matched(w)
    BY DEF SInv, InHand
  <2>2. ASSUME NEW s \in job[w].matched
        PROVE  /\ s \in ActiveIn(Rows(w)') /\ Rows(w)'[s].connected <= p.observed
               /\ Rows(w)'[s].source = p.source
               /\ \E j \in Done(w) : Rows(w)'[s].rsid = j.rsid
               /\ Rows(w)'[s] = Rows(w)[s]
    <3>1. /\ s \in Coverable(Rows(w), p.observed) /\ Rows(w)[s].source = p.source
          /\ \E j \in Done(w) : Rows(w)[s].rsid = j.rsid
      BY <1>1, <2>1 DEF Matched, Reconciling
    <3>2. Rows(w)'[s] = Rows(w)[s]
      BY <1>3, <1>5, <3>1 DEF Coverable, ActiveIn
    <3> QED
      BY <3>1, <3>2 DEF Coverable, ActiveIn
  <2>3. Distinguishable(p) => \A j \in Done(w) : \E s \in job[w].matched : Rows(w)'[s].rsid = j.rsid
    BY <1>1, <2>1, <2>2 DEF Matched, Reconciling
  <2>4. ASSUME NEW s \in ActiveIn(Rows(w)'), Rows(w)'[s].connected <= p.observed,
               Rows(w)'[s].source = p.source
        PROVE  s \in job[w].matched
    <3>1. /\ s \in SessionId \ missing /\ s \in ActiveIn(Rows(w))
          /\ Rows(w)'[s] = Rows(w)[s]
      BY <1>6
    <3>2. View(w)[s] # None
      BY <3>1, RowsTyped DEF ActiveIn
    <3>3. s \in Coverable(View(w), p.observed) /\ View(w)[s].source = p.source
      BY <1>1, <2>4, <3>1, <3>2, RowInLoop DEF SameConnection, Coverable, ActiveIn
    <3> QED
      BY <1>4, <3>1, <3>3
  <2> QED
    BY <1>1, <1>7, <2>2, <2>3, <2>4
    DEF Matched, Coverable, ActiveIn, Distinguishable, Compatible, Blank
<1>13. TablesKeep(w)'
  <2> DEFINE marks == SourceMarks(p)
             mark == MarkAfter(p)
             boot == BootAfter(p)
             later == Rows(w)'
  <2>1. /\ Identified(View(w), marks) /\ OneEach(View(w))
        /\ Identified(Rows(w), marks) /\ OneEach(Rows(w)) /\ OfBoot(Rows(w), mark, boot)
    BY <1>1 DEF SInv, InHand, TablesKeep, Reconciling
  <2>2. Identified(later, marks) /\ OneEach(later) /\ OfBoot(later, mark, boot)
    BY <1>6, <2>1 DEF Identified, OneEach, OfBoot
  <2>3. /\ View(w)' = View(w) /\ job'[w].request = p
        /\ UNCHANGED <<sourceSnapshotAt, routerSnapshotAt, routerBootId>>
    BY <1>1, <1>5 DEF database
  <2> HIDE DEF p
  <2> QED
    BY <2>1, <2>2, <2>3
    DEF TablesKeep, SourceMarks, MarkAfter, BootAfter, Outdated, Identified, OneEach, OfBoot,
        ActiveIn
<1>14. HistoryKept(w)'
  <2>1. HistoryKept(w) /\ vpnSessions' = vpnSessions
    BY <1>1 DEF SInv, InHand, database
  <2> QED
    BY <1>3, <1>5, <2>1 DEF HistoryKept, ActiveIn
<1> QED
  BY <1>7, <1>8, <1>9, <1>10, <1>11, <1>12, <1>13, <1>14, LiftStep DEF InHand

-----------------------------------------------------------------------------
(* Snapshots: the commit.                                                  *)

\* The commit writes the rows in hand and the watermarks the loop kept to.
LEMMA CommittedTables ==
  ASSUME IInv, SInv, NEW w \in Worker, CommitSnapshot(w)
  PROVE  LET p == job[w].request IN
         /\ vpnSessions' = Rows(w) /\ sourceSnapshotAt' = SourceMarks(p)
         /\ routerSnapshotAt' = MarkAfter(p) /\ routerBootId' = BootAfter(p)
         /\ MarkAfter(p) \in Int /\ MarkAfter(p) >= p.observed
         /\ routerSnapshotAt # None => MarkAfter(p) >= routerSnapshotAt
         /\ Identified(Rows(w), SourceMarks(p)) /\ OneEach(Rows(w))
         /\ OfBoot(Rows(w), MarkAfter(p), BootAfter(p))
         /\ ~Stale(w)
<1> DEFINE p == job[w].request
<1>1. pc[w] = "commit" /\ pc[w] \in SnapshotStatement /\ pc[w] \in Reconciling
  BY DEF CommitSnapshot, SnapshotStatement, Reconciling
<1>2. ~Stale(w)
  BY <1>1 DEF SInv, InHand, NotStale, Handling
<1>3. /\ job[w].boot = routerBootId /\ job[w].mark = routerSnapshotAt
      /\ p.observed \in Int /\ routerSnapshotAt \in Opt(Int)
  BY <1>1, SnapshotInHand
<1>4. RouterMark(w, p) = MarkAfter(p)
  BY <1>3 DEF RouterMark, MarkAfter, Outdated, Opt
<1>5. RouterBoot(w, p) = BootAfter(p)
  BY <1>3 DEF RouterBoot, BootAfter
<1>6. /\ MarkAfter(p) \in Int /\ MarkAfter(p) >= p.observed
      /\ routerSnapshotAt # None => MarkAfter(p) >= routerSnapshotAt
  BY <1>1, <1>2, MarksAdvance, RowsTyped DEF Stale
<1>7. /\ Identified(Rows(w), SourceMarks(p)) /\ OneEach(Rows(w))
      /\ OfBoot(Rows(w), MarkAfter(p), BootAfter(p))
  BY <1>1 DEF SInv, InHand, TablesKeep
<1>8. /\ vpnSessions' = Flushed(w) /\ sourceSnapshotAt' = SourceMarks(p)
      /\ routerSnapshotAt' = RouterMark(w, p) /\ routerBootId' = RouterBoot(w, p)
  BY DEF CommitSnapshot, SourceMarks
<1> QED
  BY <1>2, <1>4, <1>5, <1>6, <1>7, <1>8, FlushedIsRows

LEMMA CommitSnapshotSerial ==
  ASSUME IInv, SInv, OneAtATime, NEW w \in Worker, CommitSnapshot(w)
  PROVE  SInv'
<1> DEFINE p == job[w].request
           marks == SourceMarks(p)
           mark == MarkAfter(p)
           boot == BootAfter(p)
           table == Rows(w)
<1>1. /\ pc[w] = "commit" /\ pc[w] \in SnapshotStatement /\ pc[w] \in Reconciling
      /\ pc'[w] = "replied"
      /\ job'[w] = [NoJob EXCEPT !.request = p, !.reply = "accepted"]
      /\ lock' = None /\ dirty'[w] = Nothing
  BY DEF CommitSnapshot, SnapshotStatement, Reconciling, Answer, Goto, IInv, TypeOK
<1>2. job'[w].request = p /\ job'[w].matched = {}
  BY <1>1 DEF NoJob
<1>3. /\ vpnSessions' = table /\ sourceSnapshotAt' = marks
      /\ routerSnapshotAt' = mark /\ routerBootId' = boot
      /\ mark \in Int /\ mark >= p.observed
      /\ routerSnapshotAt # None => mark >= routerSnapshotAt
      /\ Identified(table, marks) /\ OneEach(table) /\ OfBoot(table, mark, boot)
      /\ ~Stale(w)
  BY CommittedTables
<1>4. /\ p.source \in Source /\ p.observed \in Int /\ routerSnapshotAt \in Opt(Int)
      /\ sourceSnapshotAt \in [Source -> Opt(Int)] /\ table \in [SessionId -> Opt(Row)]
  BY <1>1, SnapshotInHand, RowsTyped
<1>5. /\ marks[p.source] = p.observed
      /\ \A source \in Source \ {p.source} : marks[source] = sourceSnapshotAt[source]
  BY <1>4 DEF SourceMarks
<1>6. RouterMarkIsNewest'
  <2>0. RouterMarkIsNewest
    BY DEF SInv, AtRest
  <2>1. ASSUME NEW source \in Source, marks[source] # None
        PROVE  mark # None /\ mark >= marks[source]
    <3>1. CASE source = p.source
      BY <1>3, <1>5, <3>1, NoneAssumption
    <3>2. CASE source # p.source
      <4>1. /\ routerSnapshotAt # None /\ routerSnapshotAt >= sourceSnapshotAt[source]
            /\ marks[source] = sourceSnapshotAt[source]
        BY <1>5, <2>0, <2>1, <3>2 DEF RouterMarkIsNewest
      <4>2. routerSnapshotAt \in Int /\ sourceSnapshotAt[source] \in Int
        BY <1>4, <2>1, <4>1 DEF Opt
      <4> QED
        BY <1>3, <4>1, <4>2, NoneAssumption
    <3> QED
      BY <3>1, <3>2
  <2>2. \E source \in Source : marks[source] = mark
    <3>1. CASE ~Outdated(p, routerSnapshotAt)
      BY <1>4, <1>5, <3>1 DEF MarkAfter
    <3>2. CASE Outdated(p, routerSnapshotAt)
      <4>1. /\ routerSnapshotAt # None /\ p.observed <= routerSnapshotAt
            /\ mark = routerSnapshotAt
        BY <3>2 DEF MarkAfter, Outdated
      <4>2. PICK source \in Source : sourceSnapshotAt[source] = routerSnapshotAt
        BY <2>0, <4>1 DEF RouterMarkIsNewest
      <4>3. source # p.source
        BY <1>3, <4>1, <4>2 DEF Stale, StaleForSource, Outdated
      <4> QED
        BY <1>5, <4>1, <4>2, <4>3
    <3> QED
      BY <3>1, <3>2
  <2> HIDE DEF mark, marks
  <2> QED
    BY <1>3, <2>1, <2>2 DEF RouterMarkIsNewest
<1>7. AtRest'
  BY <1>3, <1>6 DEF AtRest, Identified, OfBoot, OneEach, ActiveIn
<1>8. View(w)' = table
  BY <1>1, <1>3, WorkerAssumption DEF View
<1>9. Rows(w)' = table
  BY <1>1, <1>4, <1>8 DEF Rows, Nothing
<1>10. Pending(w)' /\ RouterIsCurrent(w)' /\ HistoryKept(w)'
  BY <1>1, <1>2, <1>3, <1>8, <1>9, WorkerAssumption
  DEF Pending, RouterIsCurrent, HistoryKept, Nothing, Reconciling, Looping
<1>11. AcceptedIsExact(w)'
  <2> DEFINE open == {s \in Coverable(table, p.observed) : table[s].source = p.source}
  <2> SUFFICES ASSUME Distinguishable(p)
               PROVE  /\ \A s \in open : \E i \in p.items : table[s].rsid = i.rsid
                      /\ \A i \in p.items : \E s \in open : table[s].rsid = i.rsid
    <3>1. ASSUME NEW q \in Snapshots, Accepted(w, q)'
          PROVE  q = p
      BY <1>2, <3>1 DEF Accepted
    <3> HIDE DEF p, table
    <3> QED
      BY <1>3, <3>1 DEF AcceptedIsExact, Exact, Coverable, ActiveIn, Distinguishable,
                        Compatible, Blank, Column
  <2>1. Matched(w) /\ Done(w) = p.items
    BY <1>1 DEF SInv, InHand, ToCome, Done
  <2>2. \A s \in open : s \in job[w].matched
    BY <1>1, <2>1 DEF Matched
  <2>3. ASSUME NEW s \in job[w].matched
        PROVE  s \in open /\ \E i \in p.items : table[s].rsid = i.rsid
    BY <1>1, <2>1 DEF Matched
  <2>4. \A i \in p.items : \E s \in job[w].matched : table[s].rsid = i.rsid
    BY <1>1, <2>1 DEF Matched
  <2> QED
    BY <2>2, <2>3, <2>4
<1>12. /\ NotStale(w)' /\ Rebooted(w)' /\ ToCome(w)' /\ Edited(w)' /\ Matched(w)'
       /\ TablesKeep(w)'
  BY <1>1 DEF NotStale, Rebooted, ToCome, Edited, Matched, TablesKeep, Handling,
              Reconciling, Looping
<1> QED
  BY <1>7, <1>10, <1>11, <1>12, LiftStep DEF InHand

-----------------------------------------------------------------------------
(* The theorems, for requests handled one at a time.                       *)

LEMMA InitSInv == Init => SInv
<1> SUFFICES ASSUME Init
             PROVE  SInv
  OBVIOUS
<1>1. AtRest
  BY DEF Init, AtRest, RouterMarkIsNewest, Identified, OfBoot, OneEach, ActiveIn, Nothing
<1>2. ASSUME NEW w \in Worker
      PROVE  InHand(w)
  <2>1. /\ pc[w] = "idle" /\ job[w] = NoJob /\ dirty[w] = Nothing /\ lock = None
        /\ vpnSessions = Nothing
    BY DEF Init
  <2>2. None \notin Snapshots
    BY NoneAssumption, PayloadAssumption
  <2>3. Pending(w) /\ RouterIsCurrent(w) /\ HistoryKept(w) /\ AcceptedIsExact(w)
    BY <2>1, <2>2, WorkerAssumption
    DEF Pending, RouterIsCurrent, HistoryKept, AcceptedIsExact, Accepted, NoJob, Nothing,
        Reconciling, Looping
  <2>4. /\ NotStale(w) /\ Rebooted(w) /\ ToCome(w) /\ Edited(w) /\ Matched(w)
        /\ TablesKeep(w)
    BY <2>1 DEF NotStale, Rebooted, ToCome, Edited, Matched, TablesKeep, Handling,
                Reconciling, Looping
  <2> QED
    BY <2>3, <2>4 DEF InHand
<1> QED
  BY <1>1, <1>2 DEF SInv

LEMMA StutterSerial ==
  ASSUME SInv, UNCHANGED vars
  PROVE  SInv'
<1>1. UNCHANGED <<database, lock, work, pc, job, dirty>>
  BY DEF vars
<1>2. UNCHANGED <<vpnSessions, vpnEvents, sourceSnapshotAt, routerSnapshotAt, routerBootId>>
  BY <1>1 DEF database
<1>3. AtRest'
  BY <1>2 DEF SInv, AtRest, RouterMarkIsNewest
<1>4. ASSUME NEW w \in Worker
      PROVE  InHand(w)'
  <2>1. InHand(w) /\ View(w)' = View(w) /\ Rows(w)' = Rows(w) /\ Done(w)' = Done(w)
    BY <1>1, <1>2 DEF SInv, View, Rows, Done
  <2>2. /\ Pending(w)' /\ RouterIsCurrent(w)' /\ Rebooted(w)' /\ Edited(w)'
        /\ HistoryKept(w)'
    BY <1>1, <1>2, <2>1 DEF InHand, Pending, RouterIsCurrent, Rebooted, Edited, HistoryKept,
                            ActiveIn, Carries
  <2>3. NotStale(w)'
    BY <1>1, <1>2, <2>1
    DEF InHand, NotStale, Stale, StaleForSource, StaleForBoot, BootChanged, Outdated
  <2>4. ToCome(w)' /\ AcceptedIsExact(w)'
    BY <1>1, <1>2, <2>1
    DEF InHand, ToCome, AcceptedIsExact, Accepted, Exact, WithRouterSessionId, Coverable,
        ActiveIn
  <2>5. Matched(w)'
    BY <1>1, <2>1 DEF InHand, Matched, Coverable, ActiveIn
  <2>6. TablesKeep(w)'
    BY <1>1, <1>2, <2>1
    DEF InHand, TablesKeep, SourceMarks, MarkAfter, BootAfter, Outdated, Identified, OneEach,
        OfBoot, ActiveIn
  <2> QED
    BY <2>2, <2>3, <2>4, <2>5, <2>6 DEF InHand
<1> QED
  BY <1>3, <1>4 DEF SInv

LEMMA NextSInv ==
  ASSUME IInv, SInv, OneAtATime, [Next]_vars
  PROVE  SInv'
<1>1. ASSUME NEW w \in Worker, Step(w)
      PROVE  SInv'
  BY <1>1, ReceiveSerial, AuthenticateSerial, RespondSerial, AbortSerial, EventSerial,
     ResolveSnapshotSerial, CloseForRebootSerial, FlushRebootSerial,
     FindByRouterSessionIdSerial, FindEventFallbackSerial, CreateReconciledSerial,
     CloseMissingSerial, CommitSnapshotSerial DEF Step, SnapshotStep
<1> QED
  BY <1>1, StutterSerial DEF Next

\* The invariant of requests handled one at a time.
THEOREM SerialInvariance ==
  ASSUME OneAtATime
  PROVE  Spec => [](IInv /\ SInv)
<1>1. Init => IInv /\ SInv
  BY InitIInv, InitSInv
<1>2. IInv /\ SInv /\ [Next]_vars => (IInv /\ SInv)'
  BY NextIInv, NextSInv
<1> QED
  BY <1>1, <1>2, PTL DEF Spec

\* The router's mark is always the newest of its sources' marks.
THEOREM NewestMark ==
  ASSUME OneAtATime
  PROVE  Spec => []RouterMarkIsNewest
<1>1. IInv /\ SInv => RouterMarkIsNewest
  BY DEF SInv, AtRest
<1> QED
  BY <1>1, SerialInvariance, PTL

\* No active row, of any source, carries an earlier boot than the one on record.
THEOREM BootGenerations ==
  ASSUME OneAtATime
  PROVE  Spec => []NoRowOutlivesItsBoot
<1>1. IInv /\ SInv => NoRowOutlivesItsBoot
  BY DEF SInv, AtRest, OfBoot, NoRowOutlivesItsBoot
<1> QED
  BY <1>1, SerialInvariance, PTL

\* A RouterOS session is projected to one active row of its source.
THEOREM OneRowPerSession ==
  ASSUME OneAtATime
  PROVE  Spec => []OneActivePerRouterSession
<1>1. IInv /\ SInv => OneActivePerRouterSession
  BY DEF SInv, AtRest, OneEach, OneActivePerRouterSession
<1> QED
  BY <1>1, SerialInvariance, PTL

\* A table with one row for each item has as many rows as items.
LEMMA ExactCounts ==
  ASSUME IInv, OneEach(vpnSessions), NEW p \in Snapshots, Exact(p)
  PROVE  Cardinality({s \in Coverable(vpnSessions, p.observed) :
                         vpnSessions[s].source = p.source}) = Cardinality(p.items)
<1> DEFINE open == {s \in Coverable(vpnSessions, p.observed) :
                       vpnSessions[s].source = p.source}
           f == [i \in p.items |-> CHOOSE s \in open : vpnSessions[s].rsid = i.rsid]
<1>1. /\ IsFiniteSet(p.items) /\ p.items \subseteq Item
      /\ \A i, j \in p.items : i.rsid = j.rsid => i = j
  BY PayloadAssumption DEF Snapshot
<1>2. /\ \A s \in open : \E i \in p.items : vpnSessions[s].rsid = i.rsid
      /\ \A i \in p.items : \E s \in open : vpnSessions[s].rsid = i.rsid
  BY DEF Exact
<1>3. \A i \in p.items : f[i] \in open /\ vpnSessions[f[i]].rsid = i.rsid
  BY <1>2
<1>4. \A s, t \in open : vpnSessions[s].rsid = vpnSessions[t].rsid => s = t
  <2>1. \A s \in open : s \in ActiveIn(vpnSessions) /\ vpnSessions[s].source = p.source
    BY DEF Coverable
  <2>2. \A s \in open : vpnSessions[s].rsid # None
    BY <1>1, <1>2, NoneAssumption DEF Item
  <2> HIDE DEF open
  <2> QED
    BY <2>1, <2>2 DEF OneEach
<1> HIDE DEF open
<1>5. f \in [p.items -> open]
  BY <1>3
<1> HIDE DEF f
<1>6. \A i, j \in p.items : f[i] = f[j] => i = j
  BY <1>1, <1>3
<1>7. \A s \in open : \E i \in p.items : f[i] = s
  BY <1>2, <1>3, <1>4
<1>8. f \in Bijection(p.items, open)
  BY <1>5, <1>6, <1>7, Fun_IsBij
<1>9. ExistsBijection(p.items, open)
  BY <1>8, Fun_ExistsBij
<1>10. Cardinality(open) = Cardinality(p.items)
  BY <1>1, <1>9, FS_Bijection
<1> QED
  BY <1>10 DEF open

\* After an accepted snapshot the active sessions of its source, up to its
\* observation, are its items one for one.
THEOREM SnapshotExactness ==
  ASSUME OneAtATime
  PROVE  Spec => []AcceptedSnapshotIsExact
<1>1. ASSUME IInv, SInv
      PROVE  AcceptedSnapshotIsExact
  <2> SUFFICES ASSUME NEW w \in Worker, NEW p \in Snapshots, Accepted(w, p),
                      Distinguishable(p)
               PROVE  LET open == {s \in Coverable(vpnSessions, p.observed) :
                                      vpnSessions[s].source = p.source}
                      IN
                      /\ Cardinality(open) = Cardinality(p.items)
                      /\ \A i \in p.items : \E s \in open : vpnSessions[s].rsid = i.rsid
    BY DEF AcceptedSnapshotIsExact
  <2>1. OneEach(vpnSessions) /\ Exact(p)
    BY <1>1 DEF SInv, AtRest, InHand, AcceptedIsExact
  <2> QED
    BY <1>1, <2>1, ExactCounts DEF Exact
<1> QED
  BY <1>1, SerialInvariance, PTL

\* A closed session is history: nothing about it changes any more.
THEOREM ClosedHistory ==
  ASSUME OneAtATime
  PROVE  Spec => ClosedIsFinal
<1> DEFINE Final == \A s \in SessionId :
                       vpnSessions[s] # None /\ vpnSessions[s].state = "CLOSED" =>
                           vpnSessions'[s] = vpnSessions[s]
<1>1. ASSUME IInv, SInv, [Next]_vars
      PROVE  Final
  <2>1. CASE UNCHANGED vpnSessions
    BY <2>1
  <2>2. ASSUME NEW w \in Worker, CommitSnapshot(w)
        PROVE  Final
    <3>1. vpnSessions' = Rows(w) /\ HistoryKept(w)
      BY <1>1, <2>2, CommittedTables DEF SInv, InHand
    <3> QED
      BY <3>1 DEF HistoryKept
  <2>3. ASSUME NEW e \in Events, FromEvent(e, vpnSessions')
        PROVE  Final
    <3>1. vpnSessions \in [SessionId -> Opt(Row)]
      BY <1>1 DEF IInv, TypeOK
    <3> QED
      BY <2>3, <3>1 DEF FromEvent, ActiveIn
  <2> QED
    BY <1>1, <2>1, <2>2, <2>3, CommittedBy
    DEF database, StoredWith, Abort, FlushReboot, CreateReconciled
<1>2. (IInv /\ SInv) /\ [Next]_vars => [Final]_vars
  BY <1>1
<1> QED
  BY <1>2, SerialInvariance, PTL DEF Spec, ClosedIsFinal

\* A snapshot not newer than the last one of its source is never committed.
THEOREM StaleIsIgnored ==
  ASSUME OneAtATime
  PROVE  Spec => StaleSnapshotChangesNothing
<1> DEFINE Ignored == \A w \in Worker :
                         /\ pc[w] = "commit"
                         /\ pc'[w] = "replied"
                         /\ sourceSnapshotAt[job[w].request.source] # None
                         /\ job[w].request.observed
                              <= sourceSnapshotAt[job[w].request.source]
                         => vpnSessions' = vpnSessions
<1>1. ASSUME IInv, SInv
      PROVE  Ignored
  <2> SUFFICES ASSUME NEW w \in Worker, pc[w] = "commit",
                      sourceSnapshotAt[job[w].request.source] # None,
                      job[w].request.observed <= sourceSnapshotAt[job[w].request.source]
               PROVE  FALSE
    OBVIOUS
  <2>1. ~Stale(w)
    BY <1>1 DEF SInv, InHand, NotStale, Handling, Reconciling
  <2> QED
    BY <2>1 DEF Stale, StaleForSource, Outdated
<1>2. (IInv /\ SInv) /\ [Next]_vars => [Ignored]_vars
  BY <1>1
<1> QED
  BY <1>2, SerialInvariance, PTL DEF Spec, StaleSnapshotChangesNothing

\* The boot on record only gives way to that of a snapshot newer than every
\* snapshot of the router.
THEOREM NoBootRollBack ==
  ASSUME OneAtATime
  PROVE  Spec => OlderBootCannotRollBack
<1> DEFINE Forward == routerBootId # None /\ routerBootId' # routerBootId =>
                        \E w \in Worker :
                           /\ pc[w] = "commit"
                           /\ job[w].request.boot = routerBootId'
                           /\ routerSnapshotAt = None \/ job[w].request.observed > routerSnapshotAt
<1>1. ASSUME IInv, SInv, [Next]_vars
      PROVE  Forward
  <2>1. ASSUME NEW w \in Worker, CommitSnapshot(w)
        PROVE  Forward
    <3> DEFINE p == job[w].request
    <3>1. pc[w] = "commit" /\ pc[w] \in SnapshotStatement
      BY <2>1 DEF CommitSnapshot, SnapshotStatement
    <3>2. routerBootId' = BootAfter(p) /\ ~StaleForBoot(w)
      BY <1>1, <2>1, CommittedTables DEF Stale
    <3>3. /\ job[w].boot = routerBootId /\ job[w].mark = routerSnapshotAt
          /\ p.observed \in Int /\ routerSnapshotAt \in Opt(Int)
      BY <1>1, <3>1, SnapshotInHand
    <3> QED
      BY <3>1, <3>2, <3>3 DEF BootAfter, StaleForBoot, BootChanged, Outdated, Opt
  <2> QED
    BY <1>1, <2>1, CommittedBy
    DEF database, StoredWith, Abort, FlushReboot, CreateReconciled
<1>2. (IInv /\ SInv) /\ [Next]_vars => [Forward]_vars
  BY <1>1
<1> QED
  BY <1>2, SerialInvariance, PTL DEF Spec, OlderBootCannotRollBack

-----------------------------------------------------------------------------
(* Refinement of AtomicRequests.                                           *)

StoredAtOnce(e) ==
  /\ EventInScope(e)
  /\ \A x \in vpnEvents : x.id # e.id
  /\ vpnSessions' \in IF e.type = "CONNECT" THEN Connected(vpnSessions, e, {})
                                            ELSE Disconnected(vpnSessions, e)
  /\ vpnEvents' = vpnEvents \cup {e}
  /\ UNCHANGED <<sourceSnapshotAt, routerSnapshotAt, routerBootId>>

AppliedAtOnce(p) ==
  /\ SnapshotInScope(p)
  /\ ~Outdated(p, sourceSnapshotAt[p.source])
  /\ ~(OtherBoot(p, routerBootId) /\ Outdated(p, routerSnapshotAt))
  /\ \E x \in AfterItems(p, Before(p), p.items, {}) :
        vpnSessions' = CloseEach(x.objects, Missing(p, x), p, "RECONCILIATION")
  /\ sourceSnapshotAt' = SourceMarks(p)
  /\ routerSnapshotAt' = MarkAfter(p)
  /\ routerBootId' = BootAfter(p)
  /\ UNCHANGED vpnEvents

LEMMA StoresAtOnce ==
  ASSUME NEW e, StoredAtOnce(e)
  PROVE  Atomic!StoresEvent(e)
  BY Zenon
  DEF StoredAtOnce, EventInScope, ServiceAllowed, Connected, Disconnected, Inserted, NewKeys,
      Latest, ActiveFor, ActiveIn, Unused, Blank, EventRow, ReconnectRow, CloseRow, Max0,
      Atomic!StoresEvent, Atomic!EventInScope, Atomic!ServiceAllowed, Atomic!Connected,
      Atomic!Disconnected, Atomic!Inserted, Atomic!NewKeys, Atomic!Latest,
      Atomic!ActiveFor, Atomic!ActiveIn, Atomic!Unused, Atomic!Blank, Atomic!EventRow,
      Atomic!ReconnectRow, Atomic!CloseRow, Atomic!Max0

LEMMA AppliesAtOnce ==
  ASSUME NEW p, AppliedAtOnce(p)
  PROVE  Atomic!AppliesSnapshot(p)
  BY Zenon
  DEF AppliedAtOnce, SnapshotInScope, ServiceAllowed, Outdated, OtherBoot, AfterItems, AfterItem,
      AfterReboot, CloseEach, Missing, MatchedWith, Inserted, NewKeys, Latest, Coverable,
      WithRouterSessionId, FallbackCandidates, Compatible, ActiveIn, Unused, Blank, Column,
      ReconciledRow, RefreshRow, CloseRow, Max0, SourceMarks, MarkAfter, BootAfter,
      Before, Atomic!AppliesSnapshot, Atomic!SnapshotInScope, Atomic!ServiceAllowed, Atomic!Outdated,
      Atomic!OtherBoot, Atomic!AfterItems, Atomic!AfterItem, Atomic!AfterReboot,
      Atomic!CloseEach, Atomic!Missing, Atomic!MatchedWith, Atomic!Inserted, Atomic!NewKeys,
      Atomic!Latest, Atomic!Coverable, Atomic!WithRouterSessionId, Atomic!FallbackCandidates,
      Atomic!Compatible, Atomic!ActiveIn, Atomic!Unused, Atomic!Blank, Atomic!Column,
      Atomic!ReconciledRow, Atomic!RefreshRow, Atomic!CloseRow, Atomic!Max0

-----------------------------------------------------------------------------
(* A request under way, statement by statement.                            *)

\* Before and after its effects there is nothing to say.
LEMMA NothingUnderWay ==
  ASSUME NEW w \in Worker, pc'[w] \in {"idle", "authenticate", "lookup", "resolve", "replied"}
  PROVE  UnderWay(w)'
  BY DEF UnderWay, Handling, Reconciling, Looping

LEMMA EventUnderWay ==
  ASSUME IInv, NEW w \in Worker, EventStep(w)
  PROVE  UnderWay(w)'
<1>1. pc \in [Worker -> Statement]
  BY DEF IInv, TypeOK
<1>2. CASE pc'[w] = "replied"
  BY <1>2, NothingUnderWay
<1>3. CASE /\ EventInScope(job[w].request) /\ Goto(w, "insert") /\ job' = job
  <2>1. pc'[w] = "insert"
    BY <1>1, <1>3 DEF Goto
  <2>2. EventInScope(job'[w].request)
    BY <1>3
  <2> QED
    BY <2>1, <2>2 DEF UnderWay, Handling, Reconciling, Looping
<1> QED
  BY <1>1, <1>2, <1>3
  DEF EventStep, LookupEvent, StoreEvent, ApplyConnect, ApplyDisconnect, CommitEvent,
      AnswerUnchanged, Answer, Goto

\* No item is done yet.
LEMMA FirstUnderWay ==
  ASSUME NEW w \in Worker, pc'[w] = "items", Done(w)' = {}, job'[w].matched = {},
         SnapshotInScope(job'[w].request),
         View(w)' = Before(job[w].request)', Rows(w)' = View(w)'
  PROVE  UnderWay(w)'
<1> DEFINE p == job[w].request
<1>1. Progress(w)' = [flushed |-> Before(p)', objects |-> Before(p)', matched |-> {}]
  BY DEF Progress
<1>2. Progress(w)' \in AfterItems(p', Before(p)', Done(w)', {})
  BY <1>1, NoItems DEF Start
<1> QED
  BY <1>2 DEF UnderWay, Handling, Reconciling, Looping

LEMMA BootIsOther ==
  ASSUME IInv, SInv, NEW w \in Worker, pc[w] \in SnapshotStatement
  PROVE  BootChanged(w) <=> OtherBoot(job[w].request, routerBootId)
  BY SnapshotInHand DEF BootChanged, OtherBoot

LEMMA ResolveUnderWay ==
  ASSUME IInv, SInv, NEW w \in Worker, ResolveSnapshot(w)
  PROVE  UnderWay(w)'
<1> DEFINE p == job[w].request
<1>1. pc[w] = "resolve" /\ pc[w] \in SnapshotStatement
  BY DEF ResolveSnapshot, SnapshotStatement
<1>2. /\ job \in [Worker -> Job] /\ pc \in [Worker -> Statement]
      /\ vpnSessions \in [SessionId -> Opt(Row)]
  BY DEF IInv, TypeOK
<1>3. CASE pc'[w] = "replied"
  BY <1>3, NothingUnderWay
<1>4. CASE /\ SnapshotInScope(p)
           /\ Goto(w, IF BootChanged(w) THEN "reboot" ELSE "items")
           /\ job' = [job EXCEPT ![w].todo = p.items]
           /\ UNCHANGED <<database, lock, work, dirty>>
  <2>1. /\ job'[w].request = p /\ job'[w].todo = p.items /\ job'[w].matched = {}
    BY <1>1, <1>2, <1>4 DEF Job, SInv, InHand, Pending, Reconciling, Looping
  <2>2. CASE BootChanged(w)
    <3>1. pc'[w] = "reboot"
      BY <1>2, <1>4, <2>2 DEF Goto
    <3> QED
      BY <1>4, <2>1, <3>1 DEF UnderWay, Handling, Reconciling, Looping
  <2>3. CASE ~BootChanged(w)
    <3>1. pc'[w] = "items"
      BY <1>2, <1>4, <2>3 DEF Goto
    <3>2. dirty[w] = Nothing /\ lock # w
      BY <1>1 DEF SInv, InHand, Pending, Reconciling, Looping
    <3>3. View(w)' = vpnSessions /\ Rows(w)' = vpnSessions
      BY <1>2, <1>4, <3>2 DEF View, Rows, Nothing, database
    <3>4. Before(job[w].request)' = vpnSessions
      BY <1>1, <1>4, <2>1, <2>3, BootIsOther DEF Before, AfterReboot, database
    <3>5. Done(w)' = {}
      BY <2>1 DEF Done
    <3> QED
      BY <1>4, <2>1, <3>1, <3>3, <3>4, <3>5, FirstUnderWay
  <2> QED
    BY <2>2, <2>3
<1> QED
  BY <1>2, <1>3, <1>4 DEF ResolveSnapshot, AnswerUnchanged, Answer, Goto

LEMMA CloseForRebootUnderWay ==
  ASSUME IInv, SInv, EachUnderWay, NEW w \in Worker, CloseForReboot(w)
  PROVE  UnderWay(w)'
<1> DEFINE p == job[w].request
           covered == Coverable(View(w), p.observed)
<1>1. /\ pc[w] = "reboot" /\ pc[w] \in SnapshotStatement
      /\ job' = job /\ UNCHANGED <<database, lock, work>>
      /\ SnapshotInScope(p)
  BY DEF CloseForReboot, SnapshotStatement, EachUnderWay, UnderWay, Handling
<1>2. /\ dirty[w] = Nothing /\ job[w].matched = {} /\ lock # w
      /\ job[w].todo = p.items /\ BootChanged(w)
  BY <1>1 DEF SInv, InHand, Pending, ToCome, NotStale, Handling, Reconciling, Looping
<1>3. /\ View(w) = vpnSessions /\ vpnSessions \in [SessionId -> Opt(Row)]
      /\ pc \in [Worker -> Statement]
  BY <1>2 DEF View, IInv, TypeOK
<1>4. Rows(w) = vpnSessions
  BY <1>2, <1>3 DEF Rows, Nothing
<1>5. CloseAll(w, covered, "ROUTER_REBOOT") /\ "ROUTER_REBOOT" \in Reason
  BY DEF CloseForReboot, Reason
<1>6. View(w)' = vpnSessions /\ Rows(w)' = CloseEach(vpnSessions, covered, p, "ROUTER_REBOOT")
  <2>1. covered \in SUBSET Coverable(View(w), p.observed)
    OBVIOUS
  <2> HIDE DEF covered
  <2> QED
    BY <1>1, <1>3, <1>4, <1>5, <2>1, ClosedRows
<1>7. Before(p) = CloseEach(vpnSessions, covered, p, "ROUTER_REBOOT")
  BY <1>1, <1>2, <1>3, BootIsOther DEF Before, AfterReboot
<1>8. Before(job[w].request)' = Before(p)
  BY <1>1 DEF Before, database
<1>9. CASE covered = {}
  <2>1. pc'[w] = "items"
    BY <1>3, <1>9 DEF CloseForReboot, Goto
  <2>2. CloseEach(vpnSessions, {}, p, "ROUTER_REBOOT") = vpnSessions
    BY <1>3 DEF CloseEach
  <2>3. Done(w)' = {}
    BY <1>1, <1>2 DEF Done
  <2> QED
    BY <1>1, <1>2, <1>6, <1>7, <1>8, <1>9, <2>1, <2>2, <2>3, FirstUnderWay
<1>10. CASE covered # {}
  <2>1. pc'[w] = "flush"
    BY <1>3, <1>10 DEF CloseForReboot, Goto
  <2>2. Rows(w)' = Before(job[w].request)' /\ SnapshotInScope(job'[w].request)
    BY <1>1, <1>6, <1>7, <1>8
  <2> QED
    BY <2>1, <2>2 DEF UnderWay, Handling, Reconciling, Looping
<1> QED
  BY <1>9, <1>10

LEMMA FlushRebootUnderWay ==
  ASSUME IInv, SInv, EachUnderWay, NEW w \in Worker, FlushReboot(w)
  PROVE  UnderWay(w)'
<1> DEFINE p == job[w].request
<1>1. /\ pc[w] = "flush" /\ pc'[w] = "items"
      /\ job' = job /\ UNCHANGED database
      /\ lock' = w /\ work' = Flushed(w) /\ dirty'[w] = Nothing
  BY DEF FlushReboot, Goto, IInv, TypeOK
<1>2. SnapshotInScope(p) /\ Rows(w) = Before(p)
  BY <1>1 DEF EachUnderWay, UnderWay, Handling
<1>3. job[w].todo = p.items /\ job[w].matched = {}
  BY <1>1 DEF SInv, InHand, Pending, ToCome, Reconciling, Looping
<1>4. View(w)' = Rows(w) /\ Rows(w) \in [SessionId -> Opt(Row)]
  BY <1>1, FlushedIsRows, RowsTyped DEF View
<1>5. Rows(w)' = Rows(w)
  BY <1>1, <1>4 DEF Rows, Nothing
<1>6. Before(job[w].request)' = Before(p)
  BY <1>1 DEF Before, database
<1>7. Done(w)' = {}
  BY <1>1, <1>3 DEF Done
<1> QED
  BY <1>1, <1>2, <1>3, <1>4, <1>5, <1>6, <1>7, FirstUnderWay

\* One more item is done.
LEMMA NextUnderWay ==
  ASSUME IInv, SInv, EachUnderWay, NEW w \in Worker, pc[w] \in Looping, pc'[w] = "items",
         NEW item \in job[w].todo, UNCHANGED database,
         job'[w].request = job[w].request, job'[w].todo = job[w].todo \ {item},
         Progress(w)' \in AfterItem(job[w].request, Progress(w), item, {})
  PROVE  UnderWay(w)'
<1> DEFINE p == job[w].request
<1>1. /\ SnapshotInScope(p) /\ Progress(w) \in AfterItems(p, Before(p), Done(w), {})
  BY DEF EachUnderWay, UnderWay, Handling, Reconciling
<1>2. job[w].todo \subseteq p.items /\ IsFiniteSet(p.items)
  <2>1. p \in Snapshots
    BY SnapshotInHand DEF Looping, SnapshotStatement
  <2> QED
    BY <2>1, PayloadAssumption DEF SInv, InHand, ToCome
<1>3. /\ Done(w)' = Done(w) \cup {item} /\ Done(w) = Done(w)' \ {item}
      /\ item \in Done(w)'
  BY <1>2 DEF Done
<1>4. IsFiniteSet(Done(w)')
  BY <1>2, FS_Subset DEF Done
<1>5. Before(job[w].request)' = Before(p)
  BY DEF Before, database
<1>6. Progress(w)' \in AfterItems(p, Before(p), Done(w)', {})
  BY <1>1, <1>3, <1>4, LastItem
<1> QED
  BY <1>1, <1>5, <1>6 DEF UnderWay, Handling, Reconciling, Looping

LEMMA EditedRow ==
  ASSUME IInv, SInv, NEW w \in Worker, NEW s \in SessionId, NEW new \in Row,
         NEW edited, DOMAIN edited = {s}, edited[s] = new, Edit(w, edited),
         UNCHANGED <<database, lock, work>>, Loaded(w, s) \in Object
  PROVE  View(w)' = View(w) /\ Rows(w)' = [Rows(w) EXCEPT ![s] = new]
<1> DEFINE S == {s}
<1>1. /\ S \in SUBSET SessionId /\ DOMAIN edited = S
      /\ \A t \in S : edited[t] \in Row /\ Loaded(w, t) \in Object
  OBVIOUS
<1> HIDE DEF S
<1>2. /\ View(w)' = View(w)
      /\ Rows(w)' = [t \in SessionId |-> IF t \in S THEN edited[t] ELSE Rows(w)[t]]
      /\ \A t \in SessionId : dirty'[w][t] # None <=> t \in S \/ dirty[w][t] # None
      /\ \A t \in SessionId : dirty'[w][t] # None => dirty'[w][t].old = View(w)[t]
  BY <1>1, EditedRows
<1> QED
  BY <1>2, RowsTyped DEF S

LEMMA MatchUnderWay ==
  ASSUME IInv, SInv, EachUnderWay, NEW w \in Worker, pc[w] \in Looping,
         NEW item \in job[w].todo, NEW s \in SessionId,
         s \in ActiveIn(View(w)), s \in MatchedWith(job[w].request, View(w), Rows(w), item),
         Match(w, item, s)
  PROVE  UnderWay(w)'
<1> DEFINE p == job[w].request
           x == Progress(w)
           new == RefreshRow(Rows(w)[s], p, item)
           edited == [t \in {s} |-> RefreshRow(Loaded(w, t).new, p, item)]
<1>1. /\ pc'[w] = "items" /\ UNCHANGED <<database, lock, work>> /\ Edit(w, edited)
      /\ job'[w].request = p /\ job'[w].todo = job[w].todo \ {item}
      /\ job'[w].matched = job[w].matched \cup {s}
  BY DEF Match, Goto, IInv, TypeOK, Job
<1>2. /\ p \in Snapshot /\ item \in Item
  BY SnapshotInHand DEF Looping, SnapshotStatement, SInv, InHand, ToCome
<1>3. Loaded(w, s) \in Object /\ Loaded(w, s).new = Rows(w)[s] /\ s \in SessionId
  BY LoadedCoherent, LoadedIsRows DEF ActiveIn
<1>4. new \in Row
  BY <1>2, <1>3, RefreshedRow DEF Object
<1>5. edited = [t \in {s} |-> new]
  BY <1>3
<1> HIDE DEF edited, new
<1>6. DOMAIN edited = {s} /\ edited[s] = new
  BY <1>5
<1>7. View(w)' = View(w) /\ Rows(w)' = [Rows(w) EXCEPT ![s] = new]
  BY <1>1, <1>3, <1>4, <1>6, EditedRow
<1>8. Progress(w)' = [flushed |-> View(w), objects |-> [Rows(w) EXCEPT ![s] = new],
                      matched |-> job[w].matched \cup {s}]
  BY <1>1, <1>7 DEF Progress
<1>9. Progress(w)' \in AfterItem(p, Progress(w), item, {})
  BY <1>8, MatchedItem DEF Progress, new
<1> QED
  BY <1>1, <1>9, NextUnderWay

\* Between two statements of an item nothing changes but the statement.
LEMMA SameUnderWay ==
  ASSUME EachUnderWay, NEW w \in Worker, pc[w] \in Looping, pc'[w] \in {"fallback", "create"},
         UNCHANGED <<database, lock, work, dirty>>,
         job'[w].request = job[w].request, job'[w].todo = job[w].todo,
         job'[w].matched = job[w].matched,
         pc'[w] = "create" =>
             MatchedWith(job[w].request, View(w), Rows(w), job'[w].item) = {}
  PROVE  UnderWay(w)'
<1> DEFINE p == job[w].request
<1>1. SnapshotInScope(p) /\ Progress(w) \in AfterItems(p, Before(p), Done(w), {})
  BY DEF EachUnderWay, UnderWay, Handling, Reconciling
<1>2. View(w)' = View(w) /\ Rows(w)' = Rows(w)
  BY DEF View, Rows, database
<1>3. Progress(w)' = Progress(w) /\ Done(w)' = Done(w)
  BY <1>2 DEF Progress, Done
<1>4. Before(job[w].request)' = Before(p)
  BY DEF Before, database
<1>5. Progress(w)' \in AfterItems(p, Before(p), Done(w)', {})
  BY <1>1, <1>3
<1> QED
  BY <1>1, <1>2, <1>4, <1>5 DEF UnderWay, Handling, Reconciling, Looping

LEMMA FindByRouterSessionIdUnderWay ==
  ASSUME IInv, SInv, EachUnderWay, NEW w \in Worker, FindByRouterSessionId(w)
  PROVE  UnderWay(w)'
<1> DEFINE p == job[w].request
<1>1. pc[w] \in Looping
  BY DEF FindByRouterSessionId, Looping
<1>2. PICK item \in job[w].todo :
         \/ \E s \in Latest(View(w), WithRouterSessionId(View(w), p, item)) : Match(w, item, s)
         \/ /\ WithRouterSessionId(View(w), p, item) = {}
            /\ job' = [job EXCEPT ![w].item = item]
            /\ Goto(w, "fallback")
            /\ UNCHANGED <<database, lock, work, dirty>>
  BY DEF FindByRouterSessionId
<1>3. ASSUME NEW s \in Latest(View(w), WithRouterSessionId(View(w), p, item)),
             Match(w, item, s)
      PROVE  UnderWay(w)'
  <2>1. s \in SessionId /\ s \in ActiveIn(View(w))
    BY DEF Latest, WithRouterSessionId, Coverable, ActiveIn
  <2>2. s \in WithRouterSessionId(View(w), p, item)
    BY DEF Latest
  <2>3. s \in MatchedWith(p, View(w), Rows(w), item)
    BY <1>3, <2>2, Zenon DEF MatchedWith
  <2> QED
    BY <1>1, <1>3, <2>1, <2>3, MatchUnderWay
<1>4. CASE /\ job' = [job EXCEPT ![w].item = item]
           /\ Goto(w, "fallback")
           /\ UNCHANGED <<database, lock, work, dirty>>
  <2>1. /\ pc'[w] = "fallback" /\ job'[w].request = p /\ job'[w].todo = job[w].todo
        /\ job'[w].matched = job[w].matched
    BY <1>4 DEF Goto, IInv, TypeOK, Job
  <2> QED
    BY <1>1, <1>4, <2>1, SameUnderWay
<1> QED
  BY <1>2, <1>3, <1>4

LEMMA FindEventFallbackUnderWay ==
  ASSUME IInv, SInv, EachUnderWay, NEW w \in Worker, FindEventFallback(w)
  PROVE  UnderWay(w)'
<1> DEFINE p == job[w].request
           item == job[w].item
           candidates == FallbackCandidates(View(w), p, item)
           compatible == {s \in candidates : Compatible(item, Rows(w)[s])}
<1>1. /\ pc[w] = "fallback" /\ pc[w] \in Looping
      /\ item \in job[w].todo /\ WithRouterSessionId(View(w), p, item) = {}
  BY DEF FindEventFallback, Looping, SInv, InHand, ToCome
<1>2. candidates \subseteq ActiveIn(View(w)) /\ candidates \subseteq SessionId
  BY DEF FallbackCandidates, Coverable, ActiveIn
<1>3. compatible = {s \in candidates : Compatible(item, Loaded(w, s).new)}
  BY <1>2, LoadedIsRows
<1>4. MatchedWith(p, View(w), Rows(w), item) = {s \in compatible : compatible = {s}}
  BY <1>1, Zenon DEF MatchedWith
<1>5. \/ \E s \in compatible : compatible = {s} /\ Match(w, item, s)
      \/ /\ \A s \in compatible : compatible # {s}
         /\ Goto(w, "create")
         /\ UNCHANGED <<database, lock, work, job, dirty>>
  BY <1>3 DEF FindEventFallback
<1>6. ASSUME NEW s \in compatible, compatible = {s}, Match(w, item, s)
      PROVE  UnderWay(w)'
  <2>1. s \in SessionId /\ s \in ActiveIn(View(w))
    BY <1>2
  <2>2. s \in MatchedWith(p, View(w), Rows(w), item)
    BY <1>4, <1>6
  <2> QED
    BY <1>1, <1>6, <2>1, <2>2, MatchUnderWay
<1>7. CASE /\ \A s \in compatible : compatible # {s}
           /\ Goto(w, "create")
           /\ UNCHANGED <<database, lock, work, job, dirty>>
  <2>1. pc'[w] = "create" /\ job' = job
    BY <1>7 DEF Goto, IInv, TypeOK
  <2>2. MatchedWith(p, View(w), Rows(w), job'[w].item) = {}
    BY <1>4, <1>7, <2>1
  <2> QED
    BY <1>1, <1>7, <2>1, <2>2, SameUnderWay
<1> QED
  BY <1>5, <1>6, <1>7

LEMMA CreateReconciledUnderWay ==
  ASSUME IInv, SInv, EachUnderWay, NEW w \in Worker, CreateReconciled(w)
  PROVE  UnderWay(w)'
<1> DEFINE p == job[w].request
           item == job[w].item
           new == ReconciledRow(p, item)
<1>1. /\ pc[w] = "create" /\ pc[w] \in Looping /\ pc[w] \in SnapshotStatement
      /\ pc'[w] = "items" /\ UNCHANGED database /\ dirty'[w] = Nothing
  BY DEF CreateReconciled, Looping, SnapshotStatement, Goto, IInv, TypeOK
<1>2. p \in Snapshot /\ item \in Item /\ item \in job[w].todo
  BY <1>1, SnapshotInHand DEF SInv, InHand, ToCome
<1>3. PICK s \in SessionId :
         /\ View(w)[s] = None
         /\ lock' = w
         /\ work' = [Flushed(w) EXCEPT ![s] = new]
         /\ job' = [job EXCEPT ![w].todo = @ \ {item}, ![w].item = None,
                               ![w].matched = @ \cup {s}]
  BY DEF CreateReconciled
<1>4. new \in Row /\ new # None
  BY <1>2, ReconciledRowType, NoneAssumption
<1>5. MatchedWith(p, View(w), Rows(w), item) = {}
  BY <1>1 DEF EachUnderWay, UnderWay
<1> HIDE DEF new
<1> DEFINE table == [Rows(w) EXCEPT ![s] = new]
<1>6. Rows(w) \in [SessionId -> Opt(Row)] /\ Rows(w)[s] = None
  BY <1>3, RowsTyped
<1>7. table \in Inserted(Rows(w), new, {})
  BY <1>6 DEF Inserted, NewKeys, Unused
<1>8. {t \in SessionId : table[t] # Rows(w)[t]} = {s}
  BY <1>4, <1>6
<1>9. View(w)' = table /\ Rows(w)' = table
  <2>1. View(w)' = table
    BY <1>3, FlushedIsRows DEF View
  <2>2. table \in [SessionId -> Opt(Row)]
    BY <1>4, <1>6 DEF Opt
  <2> HIDE DEF table
  <2> QED
    BY <1>1, <2>1, <2>2 DEF Rows, Nothing
<1> HIDE DEF table
<1>10. /\ job'[w].request = p /\ job'[w].todo = job[w].todo \ {item}
       /\ job'[w].matched = job[w].matched \cup {s}
  BY <1>3 DEF IInv, TypeOK, Job
<1>11. Progress(w)' = [flushed |-> table, objects |-> table,
                       matched |-> job[w].matched \cup
                                      {t \in SessionId : table[t] # Rows(w)[t]}]
  BY <1>8, <1>9, <1>10 DEF Progress
<1>12. Progress(w)' \in AfterItem(p, Progress(w), item, {})
  BY <1>5, <1>7, <1>11, InsertedItem DEF Progress, new
<1> QED
  BY <1>1, <1>2, <1>10, <1>12, NextUnderWay

LEMMA CloseMissingUnderWay ==
  ASSUME IInv, SInv, EachUnderWay, NEW w \in Worker, CloseMissing(w)
  PROVE  UnderWay(w)'
<1> DEFINE p == job[w].request
           x == Progress(w)
           missing == {s \in Coverable(View(w), p.observed) : View(w)[s].source = p.source}
                         \ job[w].matched
<1>1. /\ pc[w] = "items" /\ pc[w] \in Looping /\ pc[w] \in SnapshotStatement
      /\ pc'[w] = "commit" /\ job' = job /\ UNCHANGED <<database, lock, work>>
      /\ job[w].todo = {} /\ CloseAll(w, missing, "RECONCILIATION")
  BY DEF CloseMissing, Looping, SnapshotStatement, Goto, IInv, TypeOK
<1>2. SnapshotInScope(p) /\ x \in AfterItems(p, Before(p), p.items, {})
  <2>1. Done(w) = p.items
    BY <1>1 DEF Done
  <2> QED
    BY <1>1, <2>1 DEF EachUnderWay, UnderWay, Handling, Reconciling
<1>3. Rows(w)' = CloseEach(Rows(w), missing, p, "RECONCILIATION")
  <2>1. missing \in SUBSET Coverable(View(w), p.observed) /\ "RECONCILIATION" \in Reason
    BY DEF Reason
  <2> HIDE DEF missing
  <2> QED
    BY <1>1, <2>1, ClosedRows
<1>4. Missing(p, x) = missing /\ x.objects = Rows(w)
  BY DEF Missing, Progress
<1>5. Before(job[w].request)' = Before(p)
  BY <1>1 DEF Before, database
<1>6. \E y \in AfterItems(p, Before(p), p.items, {}) :
         Rows(w)' = CloseEach(y.objects, Missing(p, y), p, "RECONCILIATION")
  <2> HIDE DEF x
  <2> QED
    BY <1>2, <1>3, <1>4
<1> QED
  BY <1>1, <1>2, <1>5, <1>6 DEF UnderWay, Handling, Reconciling, Looping

LEMMA NextEachUnderWay ==
  ASSUME IInv, SInv, EachUnderWay, OneAtATime, [Next]_vars
  PROVE  EachUnderWay'
<1>1. ASSUME NEW w \in Worker, Step(w)
      PROVE  UnderWay(w)'
  <2>1. pc \in [Worker -> Statement]
    BY DEF IInv, TypeOK
  <2>2. CASE Receive(w) \/ Authenticate(w) \/ Respond(w) \/ Abort(w) \/ CommitSnapshot(w)
    <3>1. pc'[w] \in {"idle", "authenticate", "lookup", "resolve", "replied"}
      BY <2>1, <2>2
      DEF Receive, Accept, Authenticate, Respond, Abort, CommitSnapshot, Answer, Goto
    <3> QED
      BY <3>1, NothingUnderWay
  <2> QED
    BY <1>1, <2>2, EventUnderWay, ResolveUnderWay, CloseForRebootUnderWay, FlushRebootUnderWay,
       FindByRouterSessionIdUnderWay, FindEventFallbackUnderWay, CreateReconciledUnderWay,
       CloseMissingUnderWay
    DEF Step, SnapshotStep
<1>2. CASE Next
  <2>1. PICK w \in Worker : Step(w)
    BY <1>2 DEF Next
  <2>2. UnderWay(w)'
    BY <1>1, <2>1
  <2> QED
    BY <2>2 DEF EachUnderWay, OneAtATime
<1>3. CASE UNCHANGED vars
  <2>1. ASSUME NEW w \in Worker
        PROVE  UnderWay(w)'
    <3>1. UnderWay(w) /\ UNCHANGED <<database, lock, work, pc, job, dirty>>
      BY <1>3 DEF vars, EachUnderWay
    <3>2. /\ View(w)' = View(w) /\ Rows(w)' = Rows(w) /\ Progress(w)' = Progress(w)
          /\ Done(w)' = Done(w) /\ Before(job[w].request)' = Before(job[w].request)
      BY <3>1 DEF View, Rows, Progress, Done, Before, database
    <3> QED
      BY <3>1, <3>2 DEF UnderWay
  <2> QED
    BY <2>1 DEF EachUnderWay
<1> QED
  BY <1>2, <1>3

\* The commit of an event is its effect.
LEMMA EventAtOnce ==
  ASSUME IInv, EachUnderWay, NEW w \in Worker, StoreEvent(w)
  PROVE  UNCHANGED Atomic!tables \/ \E e \in Events : Atomic!StoresEvent(e)
<1> DEFINE e == job[w].request
           fitting == Latest(vpnSessions, ActiveFor(vpnSessions, e))
           same == IF Blank(e.attrs["iface"]) THEN {} ELSE fitting
<1>1. pc[w] = "insert" /\ e \in Events /\ EventInScope(e)
  BY DEF StoreEvent, IInv, RequestTyped, EachUnderWay, UnderWay
<1>2. CASE AnswerUnchanged(w, "duplicate")
  BY <1>2 DEF AnswerUnchanged, database, Atomic!tables
<1>3. ASSUME lock = None, ~InsertRefused(e), NEW later, NEW reply, CommitEvent(w, later, reply),
             later \in IF e.type = "CONNECT" THEN Connected(vpnSessions, e, {})
                                             ELSE Disconnected(vpnSessions, e)
      PROVE  \E x \in Events : Atomic!StoresEvent(x)
  <2>1. \A x \in vpnEvents : x.id # e.id
    BY <1>3 DEF InsertRefused, UniqueViolation
  <2>2. StoredAtOnce(e)
    BY <1>1, <1>3, <2>1 DEF StoredAtOnce, CommitEvent
  <2> QED
    BY <1>1, <2>2, StoresAtOnce
<1>4. CASE lock = None /\ ~InsertRefused(e) /\ e.type = "CONNECT" /\ ApplyConnect(w, e)
  <2>1. ASSUME NEW s \in same,
               CommitEvent(w, [vpnSessions EXCEPT ![s] = ReconnectRow(@, e)], "ALREADY_ACTIVE")
        PROVE  [vpnSessions EXCEPT ![s] = ReconnectRow(@, e)] \in Connected(vpnSessions, e, {})
    BY <2>1, Zenon DEF Connected
  <2>2. ASSUME same = {}, NEW s \in SessionId, vpnSessions[s] = None,
               CommitEvent(w, [vpnSessions EXCEPT ![s] = EventRow(e)], "CREATED")
        PROVE  [vpnSessions EXCEPT ![s] = EventRow(e)] \in Connected(vpnSessions, e, {})
    <3>1. [vpnSessions EXCEPT ![s] = EventRow(e)] \in Inserted(vpnSessions, EventRow(e), {})
      BY <2>2 DEF Inserted, NewKeys, Unused
    <3> QED
      BY <2>2, <3>1, Zenon DEF Connected
  <2>3. \/ \E s \in same :
             CommitEvent(w, [vpnSessions EXCEPT ![s] = ReconnectRow(@, e)], "ALREADY_ACTIVE")
        \/ /\ same = {}
           /\ \E s \in SessionId :
                /\ vpnSessions[s] = None
                /\ CommitEvent(w, [vpnSessions EXCEPT ![s] = EventRow(e)], "CREATED")
    BY <1>4, Zenon DEF ApplyConnect
  <2> HIDE DEF same, fitting
  <2> QED
    BY <1>3, <1>4, <2>1, <2>2, <2>3
<1>5. CASE lock = None /\ ~InsertRefused(e) /\ e.type = "DISCONNECT" /\ ApplyDisconnect(w, e)
  <2>1. ASSUME NEW s \in fitting
        PROVE  [vpnSessions EXCEPT ![s] = CloseRow(@, e.occurred, "DISCONNECT")]
                  \in Disconnected(vpnSessions, e)
    BY <2>1, Zenon DEF Disconnected
  <2>2. fitting = {} => vpnSessions \in Disconnected(vpnSessions, e)
    BY Zenon DEF Disconnected
  <2>3. \/ \E s \in fitting :
             CommitEvent(w, [vpnSessions EXCEPT ![s] = CloseRow(@, e.occurred, "DISCONNECT")],
                         "CLOSED")
        \/ fitting = {} /\ CommitEvent(w, vpnSessions, "NO_ACTIVE_SESSION")
    BY <1>5, Zenon DEF ApplyDisconnect
  <2> HIDE DEF fitting
  <2> QED
    BY <1>3, <1>5, <2>1, <2>2, <2>3
<1> QED
  BY <1>2, <1>4, <1>5 DEF StoreEvent, InsertRefused

\* So is that of a snapshot.
LEMMA SnapshotAtOnce ==
  ASSUME IInv, SInv, EachUnderWay, NEW w \in Worker, CommitSnapshot(w)
  PROVE  \E p \in Snapshots : Atomic!AppliesSnapshot(p)
<1> DEFINE p == job[w].request
<1>1. pc[w] = "commit" /\ pc[w] \in SnapshotStatement /\ UNCHANGED vpnEvents
  BY DEF CommitSnapshot, SnapshotStatement
<1>2. /\ SnapshotInScope(p)
      /\ \E x \in AfterItems(p, Before(p), p.items, {}) :
            Rows(w) = CloseEach(x.objects, Missing(p, x), p, "RECONCILIATION")
  BY <1>1 DEF EachUnderWay, UnderWay, Handling, Reconciling
<1>3. /\ vpnSessions' = Rows(w) /\ sourceSnapshotAt' = SourceMarks(p)
      /\ routerSnapshotAt' = MarkAfter(p) /\ routerBootId' = BootAfter(p)
      /\ ~StaleForSource(w) /\ ~StaleForBoot(w)
  BY CommittedTables DEF Stale
<1>4. /\ ~Outdated(p, sourceSnapshotAt[p.source])
      /\ ~(OtherBoot(p, routerBootId) /\ Outdated(p, routerSnapshotAt))
  BY <1>1, <1>3, BootIsOther, SnapshotInHand DEF StaleForSource, StaleForBoot
<1>5. AppliedAtOnce(p)
  BY <1>1, <1>2, <1>3, <1>4, Zenon DEF AppliedAtOnce
<1> QED
  BY <1>1, <1>5, AppliesAtOnce, SnapshotInHand

\* A request handled alone is one of AtomicRequests, done when it commits, or
\* nothing.
THEOREM RequestsAreAtomic ==
  ASSUME OneAtATime
  PROVE  Spec => HandledAtomically
<1>1. Init => EachUnderWay
  BY DEF Init, EachUnderWay, UnderWay, Handling, Reconciling, Looping
<1>2. (IInv /\ SInv) /\ EachUnderWay /\ [Next]_vars => EachUnderWay'
  BY NextEachUnderWay
<1>3. Init => Atomic!Init
  BY DEF Init, Nothing, Atomic!Init
<1>4. ASSUME IInv, SInv, EachUnderWay, [Next]_vars
      PROVE  [Atomic!Next]_(Atomic!tables)
  <2>1. ASSUME NEW w \in Worker, StoreEvent(w)
        PROVE  Atomic!Next \/ UNCHANGED Atomic!tables
    BY <1>4, <2>1, EventAtOnce DEF Atomic!Next
  <2>2. ASSUME NEW w \in Worker, CommitSnapshot(w)
        PROVE  Atomic!Next
    BY <1>4, <2>2, SnapshotAtOnce DEF Atomic!Next
  <2>3. ASSUME NEW w \in Worker, Step(w), ~StoreEvent(w), ~CommitSnapshot(w)
        PROVE  UNCHANGED Atomic!tables
    <3>1. UNCHANGED database
      BY <2>3
      DEF Step, Receive, Accept, Authenticate, Respond, Abort, EventStep, LookupEvent,
          SnapshotStep, ResolveSnapshot, CloseForReboot, FlushReboot, FindByRouterSessionId,
          FindEventFallback, Match, CreateReconciled, CloseMissing, AnswerUnchanged
    <3> QED
      BY <3>1 DEF database, Atomic!tables
  <2>4. UNCHANGED vars => UNCHANGED Atomic!tables
    BY DEF vars, database, Atomic!tables
  <2> QED
    BY <1>4, <2>1, <2>2, <2>3, <2>4 DEF Next
<1> QED
  BY <1>1, <1>2, <1>3, <1>4, SerialInvariance, PTL DEF Spec, HandledAtomically, Atomic!Spec
=============================================================================
