--------------------------- MODULE EventIngestion ---------------------------
(***************************************************************************)
(* POST of a CONNECT or DISCONNECT event: process_event of                 *)
(* app/services/events.py, as a thread executes it.  The duplicate test    *)
(* and the insert are separate statements; from the insert, which takes    *)
(* the write lock, to the commit nothing else can be written or seen, so   *)
(* that part is one step.                                                  *)
(***************************************************************************)
EXTENDS SessionStore

\* The SELECT for a stored event of this id, outside any transaction.
LookupEvent(w) ==
    LET e == job[w].request
        stored == {x \in vpnEvents : x.id = e.id}
    IN
    /\ pc[w] = "lookup"
    /\ \/ /\ ~EventInScope(e)
          /\ AnswerUnchanged(w, "rejected")
       \/ /\ EventInScope(e)
          /\ e \in stored
          /\ AnswerUnchanged(w, "duplicate")
       \/ /\ EventInScope(e)
          /\ stored \ {e} # {}
          /\ AnswerUnchanged(w, "conflict")
       \/ /\ EventInScope(e)
          /\ stored = {}
          /\ Goto(w, "insert")
          /\ UNCHANGED <<database, lock, work, job, dirty>>

\* The commit of an event with its effect on the sessions.
CommitEvent(w, sessions, reply) ==
    /\ vpnEvents' = vpnEvents \cup {job[w].request}
    /\ vpnSessions' = sessions
    /\ work' = sessions
    /\ Answer(w, reply)
    /\ UNCHANGED <<sourceSnapshotAt, routerSnapshotAt, routerBootId, lock, dirty>>

\* _apply_connect.  Without an interface every CONNECT is a new session.
ApplyConnect(w, e) ==
    LET existing == IF Blank(e.attrs["iface"])
                    THEN {}
                    ELSE Latest(vpnSessions, ActiveFor(vpnSessions, e))
    IN
    \/ \E s \in existing :
        CommitEvent(w, [vpnSessions EXCEPT ![s] = ReconnectRow(@, e)], "ALREADY_ACTIVE")
    \/ /\ existing = {}
       /\ \E s \in SessionId :
            /\ vpnSessions[s] = None
            /\ CommitEvent(w, [vpnSessions EXCEPT ![s] = EventRow(e)], "CREATED")

\* _apply_disconnect: closes the latest match, whenever it connected.
ApplyDisconnect(w, e) ==
    LET existing == Latest(vpnSessions, ActiveFor(vpnSessions, e)) IN
    \/ \E s \in existing :
        CommitEvent(w, [vpnSessions EXCEPT ![s] = CloseRow(@, e.occurred, "DISCONNECT")],
                    "CLOSED")
    \/ /\ existing = {}
       /\ CommitEvent(w, vpnSessions, "NO_ACTIVE_SESSION")

\* uq_vpn_events_router_external rejects the insert of a stored id ...
DuplicateUnnoticed(e) == FALSE

UniqueViolation(e) == \E x \in vpnEvents : x.id = e.id

\* ... which takes the write lock to find out.
InsertRefusedOrBusy(e) == lock # None \/ UniqueViolation(e)

InsertRefused(e) == lock = None /\ UniqueViolation(e)

\* The insert and, under its lock, the rest of the handler.  A refused insert
\* is rolled back and the event called a duplicate, whatever is stored.
StoreEvent(w) ==
    LET e == job[w].request IN
    /\ pc[w] = "insert"
    /\ \/ /\ InsertRefused(e)
          /\ AnswerUnchanged(w, "duplicate")
       \/ /\ lock = None
          /\ ~InsertRefused(e)
          /\ \/ e.type = "CONNECT" /\ ApplyConnect(w, e)
             \/ e.type = "DISCONNECT" /\ ApplyDisconnect(w, e)

EventStep(w) == LookupEvent(w) \/ StoreEvent(w)
=============================================================================
