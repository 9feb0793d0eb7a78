---------------------------- MODULE SessionStore ----------------------------
(***************************************************************************)
(* One router's data in SQLite, the requests being handled, and the way    *)
(* SQLAlchemy and pysqlite stand between them (app/database.py,            *)
(* app/security.py and the transaction calls of the services).             *)
(*                                                                         *)
(* A request is handled by one thread with one Session of its own.         *)
(*   - A SELECT outside a transaction sees the latest commit.              *)
(*   - autoflush=False: an edited object waits in the Session's unit of    *)
(*     work ("dirty"), invisible to the Session's own WHERE clauses; a     *)
(*     SELECT that returns its row again yields the edited object.         *)
(*   - The first flush begins the transaction and takes the one write      *)
(*     lock, held until commit or rollback; who does not get it within     *)
(*     busy_timeout fails.                                                 *)
(*   - expire_on_commit=False and the shared Session: the Router object    *)
(*     read by the authentication is the one the handler works with.       *)
(***************************************************************************)
EXTENDS SessionRows

CONSTANTS
    Worker,             \* threads handling requests
    Events,             \* the events routers may send, any number of times
    Snapshots           \* the snapshots routers may send

ASSUME PayloadAssumption ==
    /\ Events \subseteq Event
    /\ Snapshots \subseteq Snapshot
    /\ \A p \in Snapshots : IsFiniteSet(p.items)

ASSUME WorkerAssumption == None \notin Worker

VARIABLES
    vpnSessions,        \* committed rows of vpn_sessions
    vpnEvents,          \* committed rows of vpn_events
    sourceSnapshotAt,   \* sources.last_snapshot_at
    routerSnapshotAt,   \* routers.last_snapshot_at
    routerBootId,       \* routers.last_boot_id
    lock,               \* the worker whose transaction is writing, or None
    work,               \* vpn_sessions as that transaction sees them
    pc,                 \* the statement a worker executes next
    job,                \* the local variables of its request
    dirty               \* its unit of work: edited objects, per row

database == <<vpnSessions, vpnEvents, sourceSnapshotAt, routerSnapshotAt, routerBootId>>
vars == <<database, lock, work, pc, job, dirty>>

-----------------------------------------------------------------------------

Statement == {"idle", "authenticate", "lookup", "insert",
              "resolve", "reboot", "flush", "items", "fallback", "create",
              "commit", "replied"}

Reply == {"rejected", "duplicate", "conflict",
          "ALREADY_ACTIVE", "CREATED", "CLOSED", "NO_ACTIVE_SESSION",
          "stale", "accepted"}

Request == Events \cup Snapshots

\* The Router columns as authenticate_router loaded them (boot, mark), what
\* the item loop has left (todo, item) and has matched, and the answer.
Job == [request : Opt(Request), boot : Opt(BootId), mark : Opt(Int),
        todo : SUBSET Item, item : Opt(Item), matched : SUBSET SessionId,
        reply : Opt(Reply)]

NoJob == [request |-> None, boot |-> None, mark |-> None,
          todo |-> {}, item |-> None, matched |-> {}, reply |-> None]

\* A mapped object: the columns as loaded, and as edited.
Object == [old : Row, new : Row]

ASSUME ObjectAssumption == None \notin Object

Nothing == [s \in SessionId |-> None]

TypeOK ==
    /\ vpnSessions \in [SessionId -> Opt(Row)]
    /\ vpnEvents \subseteq Events
    /\ sourceSnapshotAt \in [Source -> Opt(Int)]
    /\ routerSnapshotAt \in Opt(Int)
    /\ routerBootId \in Opt(BootId)
    /\ lock \in Opt(Worker)
    /\ work \in [SessionId -> Opt(Row)]
    /\ pc \in [Worker -> Statement]
    /\ job \in [Worker -> Job]
    /\ dirty \in [Worker -> [SessionId -> Opt(Object)]]

\* An installed database whose router has reported nothing yet.
Init ==
    /\ vpnSessions = Nothing
    /\ vpnEvents = {}
    /\ sourceSnapshotAt = [s \in Source |-> None]
    /\ routerSnapshotAt = None
    /\ routerBootId = None
    /\ lock = None
    /\ work = Nothing
    /\ pc = [w \in Worker |-> "idle"]
    /\ job = [w \in Worker |-> NoJob]
    /\ dirty = [w \in Worker |-> Nothing]

-----------------------------------------------------------------------------
(* Reading.                                                                *)

\* What a SELECT of this worker runs on.
View(w) == IF lock = w THEN work ELSE vpnSessions

\* A mistake: the SELECT overwrites the edits (populate_existing).
FreshlyLoaded(w, s) == [old |-> View(w)[s], new |-> View(w)[s]]

\* The object a SELECT yields for a row: the one already edited, if any.
Loaded(w, s) == IF dirty[w][s] # None
                THEN dirty[w][s]
                ELSE [old |-> View(w)[s], new |-> View(w)[s]]

(***************************************************************************)
(* Writing.                                                                *)
(***************************************************************************)

CanWrite(w) == lock \in {None, w}

\* vpn_sessions after the pending UPDATEs of the unit of work.
Flushed(w) ==
    [s \in SessionId |->
        IF dirty[w][s] = None
        THEN View(w)[s]
        ELSE MergedRow(View(w)[s], dirty[w][s].old, dirty[w][s].new)]

Goto(w, statement) == pc' = [pc EXCEPT ![w] = statement]

\* The handler returns: of the request only the answer remains.
Answer(w, reply) ==
    /\ Goto(w, "replied")
    /\ job' = [job EXCEPT ![w] = [NoJob EXCEPT !.request = job[w].request,
                                               !.reply = reply]]

\* An answer that leaves the database alone.
AnswerUnchanged(w, reply) ==
    /\ Answer(w, reply)
    /\ UNCHANGED <<database, lock, work, dirty>>

\* A request on a thread of the pool.  authenticate_router loads the Router
\* here; only the snapshot service reads its columns again.
Accept(w, request) ==
    /\ pc[w] = "idle"
    /\ \/ request \in Events /\ job' = [job EXCEPT ![w].request = request]
       \/ /\ request \in Snapshots
          /\ job' = [job EXCEPT ![w] = [@ EXCEPT !.request = request,
                                               !.boot = routerBootId,
                                               !.mark = routerSnapshotAt]]
    /\ Goto(w, "authenticate")
    /\ UNCHANGED <<database, lock, work, dirty>>

Receive(w) == \E request \in Request : Accept(w, request)

\* Its commit of last_seen_at, columns the model leaves out, has to wait for
\* the lock; the handler starts after it, with the Router loaded before.
Authenticate(w) ==
    /\ pc[w] = "authenticate"
    /\ lock = None
    /\ \/ job[w].request \in Events /\ Goto(w, "lookup")
       \/ job[w].request \in Snapshots /\ Goto(w, "resolve")
    /\ UNCHANGED <<database, lock, work, job, dirty>>

Respond(w) ==
    /\ pc[w] = "replied"
    /\ Goto(w, "idle")
    /\ job' = [job EXCEPT ![w] = NoJob]
    /\ UNCHANGED <<database, lock, work, dirty>>

\* The write lock was not granted in time, an exception, or the end of the
\* process: get_db closes the Session and SQLite forgets the transaction.
Abort(w) ==
    /\ pc[w] \notin {"idle", "replied"}
    /\ lock' = IF lock = w THEN None ELSE lock
    /\ work' = IF lock = w THEN vpnSessions ELSE work
    /\ dirty' = [dirty EXCEPT ![w] = Nothing]
    /\ Goto(w, "idle")
    /\ job' = [job EXCEPT ![w] = NoJob]
    /\ UNCHANGED database
=============================================================================
