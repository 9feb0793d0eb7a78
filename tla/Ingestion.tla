------------------------------ MODULE Ingestion ------------------------------
(***************************************************************************)
(* The ingestion API of one router: events and snapshots handled by        *)
(* concurrent workers over one database (app/api/ingestion.py).            *)
(***************************************************************************)
EXTENDS EventIngestion, SnapshotReconciliation

Step(w) ==
    \/ Receive(w) \/ Authenticate(w) \/ Respond(w) \/ Abort(w)
    \/ EventStep(w)
    \/ SnapshotStep(w)

Next == \E w \in Worker : Step(w)

Spec == Init /\ [][Next]_vars

-----------------------------------------------------------------------------
(* Properties that hold whatever the interleaving.                         *)

\* The end columns of a row are written together or not at all, although two
\* requests that loaded the row may both write them: a row is CLOSED exactly
\* when it has an end, a reason and a duration, and the duration is the time
\* between its own connection and end, never below zero.
ClosedIsComplete ==
    \A s \in SessionId : vpnSessions[s] # None => EndIsComplete(vpnSessions[s])

\* No step takes a session back from CLOSED, not even the late refresh of a
\* request that loaded it when it was still ACTIVE.
NeverReopened ==
    [][\A s \in SessionId :
          vpnSessions[s] # None /\ vpnSessions[s].state = "CLOSED" =>
              vpnSessions'[s] # None /\ vpnSessions'[s].state = "CLOSED"]_vars

\* The temporal protection: a snapshot ends no session that connected after
\* its observation.  (A DISCONNECT event may.)
SnapshotClosesOnlyOlder ==
    \A s \in SessionId : vpnSessions[s] # None => EndIsCovered(vpnSessions[s])

\* Whatever the interleaving, the committed rows behave as SessionLifecycle
\* says: the requests, their transactions and their pending objects implement
\* the session state model a reader of the table knows.
Lifecycle == INSTANCE SessionLifecycle WITH sessions <- vpnSessions

ImplementsLifecycle == Lifecycle!Spec

\* At-least-once delivery opens a session at most once: there are never more
\* event sessions of one user, source and instant than stored CONNECTs.
OneSessionPerConnect ==
    \A s \in SessionId :
        LET row == vpnSessions[s]
            twins == {t \in SessionId :
                        /\ vpnSessions[t] # None
                        /\ vpnSessions[t].origin = "EVENT"
                        /\ vpnSessions[t].source = row.source
                        /\ vpnSessions[t].who = row.who
                        /\ vpnSessions[t].connected = row.connected}
            connects == {e \in vpnEvents :
                            /\ e.type = "CONNECT"
                            /\ e.source = row.source
                            /\ e.who = row.who
                            /\ e.occurred = row.connected}
        IN
        row # None /\ row.origin = "EVENT" => Cardinality(twins) <= Cardinality(connects)

\* The answers on which a router stops resending an event.
Settled == {"duplicate", "conflict", "ALREADY_ACTIVE", "CREATED", "CLOSED",
            "NO_ACTIVE_SESSION"}

\* No event is lost after its answer: when a router stops resending, an event
\* of that id is committed.
AnsweredEventIsStored ==
    \A w \in Worker :
        pc[w] = "replied" /\ job[w].reply \in Settled =>
            \E e \in vpnEvents : e.id = job[w].request.id

-----------------------------------------------------------------------------
(* The inductive invariant behind ClosedIsComplete, SnapshotClosesOnlyOlder *)
(* and NeverReopened.  What keeps an UPDATE from tearing a row is that its  *)
(* object was loaded ACTIVE: every end column then differs from the loaded  *)
(* NULL as soon as the object is closed, so all of them are written, and    *)
(* none of them is if it is not.                                            *)

TableCoherent(table) == \A s \in SessionId : table[s] # None => Coherent(table[s])

Continues(earlier, later) ==
    \A s \in SessionId : earlier[s] # None =>
        later[s] # None /\ Succeeds(earlier[s], later[s])

\* An edit never unsets the identifier, and is never the end by an event.
ObjectKept(object) ==
    /\ object.old.rsid # None => object.new.rsid # None
    /\ object.new.reason # "DISCONNECT"

\* The pending objects of one worker, against what it sees.
ObjectsCoherent(w) ==
    \A s \in SessionId : dirty[w][s] # None =>
        /\ dirty[w][s].old.state = "ACTIVE"
        /\ Coherent(dirty[w][s].old)
        /\ Coherent(dirty[w][s].new)
        /\ ObjectKept(dirty[w][s])
        /\ View(w)[s] # None
        /\ SameConnection(View(w)[s], dirty[w][s].new)

SnapshotStatement == {"resolve", "reboot", "flush", "items", "fallback", "create", "commit"}

RequestTyped(w) ==
    /\ pc[w] \in {"lookup", "insert"} => job[w].request \in Events
    /\ pc[w] \in SnapshotStatement => job[w].request \in Snapshots
    /\ pc[w] \in {"fallback", "create"} => job[w].item \in Item

IInv ==
    /\ TypeOK
    /\ \A w \in Worker : RequestTyped(w)
    /\ TableCoherent(vpnSessions)
    /\ TableCoherent(work)
    /\ Continues(vpnSessions, work)
    /\ lock = None => work = vpnSessions
    /\ \A w \in Worker : ObjectsCoherent(w)

-----------------------------------------------------------------------------
(* Properties of requests handled one at a time (a single worker).         *)

Accepted(w, p) ==
    pc[w] = "replied" /\ job[w].request = p /\ job[w].reply = "accepted"

\* Items of one user that can be told apart by an address, a caller or an
\* interface both give.
Distinguishable(p) ==
    \A i, j \in p.items : i # j /\ i.who = j.who => ~Compatible(i, j)

\* After an accepted snapshot the active sessions of its source, up to its
\* observation, are its items one for one.
AcceptedSnapshotIsExact ==
    \A w \in Worker, p \in Snapshots :
        Accepted(w, p) /\ Distinguishable(p) =>
            LET open == {s \in Coverable(vpnSessions, p.observed) :
                            vpnSessions[s].source = p.source}
            IN
            /\ Cardinality(open) = Cardinality(p.items)
            /\ \A i \in p.items : \E s \in open : vpnSessions[s].rsid = i.rsid

\* Statement by statement, with its unit of work, its flushes and whatever is
\* rolled back, a request handled alone has one of the outcomes AtomicRequests
\* gives it, at once or not at all.
Atomic == INSTANCE AtomicRequests WITH KeyOrder <- {}

HandledAtomically == Atomic!Spec

\* A closed session is history: nothing about it changes any more.
ClosedIsFinal ==
    [][\A s \in SessionId :
          vpnSessions[s] # None /\ vpnSessions[s].state = "CLOSED" =>
              vpnSessions'[s] = vpnSessions[s]]_vars

\* A RouterOS session of a source is projected to one active row.
OneActivePerRouterSession ==
    \A s, t \in ActiveIn(vpnSessions) :
        /\ vpnSessions[s].source = vpnSessions[t].source
        /\ vpnSessions[s].rsid # None
        /\ vpnSessions[s].rsid = vpnSessions[t].rsid
        => s = t

\* No active row carries the boot of an earlier generation, over all sources.
NoRowOutlivesItsBoot ==
    \A s \in ActiveIn(vpnSessions) : vpnSessions[s].boot \in {None, routerBootId}

\* The router's mark is the newest of its sources' marks.
RouterMarkIsNewest ==
    /\ \A source \in Source :
          sourceSnapshotAt[source] # None =>
              routerSnapshotAt # None /\ routerSnapshotAt >= sourceSnapshotAt[source]
    /\ routerSnapshotAt # None =>
          \E source \in Source : sourceSnapshotAt[source] = routerSnapshotAt

\* A snapshot that is not newer than the last one of its source, when it
\* commits, changes no session.
StaleSnapshotChangesNothing ==
    [][\A w \in Worker :
          /\ pc[w] = "commit"
          /\ pc'[w] = "replied"
          /\ sourceSnapshotAt[job[w].request.source] # None
          /\ job[w].request.observed <= sourceSnapshotAt[job[w].request.source]
          => vpnSessions' = vpnSessions]_vars

\* A snapshot with another boot that is not newer than the router-wide latest
\* snapshot cannot change the boot on record.
OlderBootCannotRollBack ==
    [][routerBootId # None /\ routerBootId' # routerBootId =>
          \E w \in Worker :
              /\ pc[w] = "commit"
              /\ job[w].request.boot = routerBootId'
              /\ routerSnapshotAt = None \/ job[w].request.observed > routerSnapshotAt]_vars

-----------------------------------------------------------------------------
(* What the documentation says and the code does not keep.                 *)

\* docs/router-ingestion.md:180: reusing an event_id with different content
\* is refused, so what is called a duplicate is the stored event.
ReusedIdIsRefused ==
    \A w \in Worker :
        pc[w] = "replied" /\ job[w].request \in Events /\ job[w].reply = "duplicate" =>
            job[w].request \in vpnEvents

\* docs/snapshot-reconciliation.md:148-154: every session an accepted snapshot
\* lists has an active projection that carries its identifier.
ObservedSessionsAreActive ==
    \A w \in Worker, p \in Snapshots :
        Accepted(w, p) =>
            \A i \in p.items : \E s \in ActiveIn(vpnSessions) :
                vpnSessions[s].source = p.source /\ vpnSessions[s].rsid = i.rsid

\* docs/snapshot-reconciliation.md:124: a delayed snapshot reverses no newer
\* state.  A session that a DISCONNECT ended after the observation is not made
\* active again, as a new session of the same user and instant.
NewerEndIsNotReversed ==
    [][\A s, t \in SessionId :
          /\ vpnSessions[s] = None
          /\ vpnSessions'[s] # None
          /\ vpnSessions'[s].origin = "RECONCILIATION"
          /\ vpnSessions[t] # None
          /\ vpnSessions[t].reason = "DISCONNECT"
          /\ vpnSessions[t].source = vpnSessions'[s].source
          /\ vpnSessions[t].who = vpnSessions'[s].who
          /\ vpnSessions[t].connected = vpnSessions'[s].connected
          => vpnSessions[t].disconnected <= vpnSessions'[s].observed]_vars
=============================================================================
