---------------------------- MODULE SessionRows ----------------------------
(***************************************************************************)
(* The rows of one router in the VPN Monitor database and what the         *)
(* ingestion services compute from them, without any state: the tables of  *)
(* app/models.py, the payloads of app/schemas.py, and the selections and   *)
(* row edits of app/services/events.py and app/services/snapshots.py.      *)
(*                                                                         *)
(* Every query of the services is filtered by router_id, so one router is  *)
(* enough.  Instants are whole seconds (the resolution of the RouterOS     *)
(* scripts); display names and local addresses, which no guard reads, and  *)
(* the created_at/updated_at stamps are left out.                          *)
(***************************************************************************)
EXTENDS Integers, FiniteSets

CONSTANTS
    Source,             \* source names a payload may carry
    EnabledSource,      \* those with a row in "sources" that is enabled
    SourceServices,     \* services of each source; {} allows every service
    User, Service,      \* PPP user names and services
    RouterSessionId,    \* RouterOS session identifiers
    Text,               \* addresses, caller ids, interface ids
    BootId,             \* router boot identifiers
    EventId,            \* external event identifiers
    SessionId,          \* primary keys of vpn_sessions (UUIDs)
    None,               \* NULL
    Empty               \* the empty string

ASSUME ScopeAssumption ==
    /\ EnabledSource \subseteq Source
    /\ SourceServices \in [Source -> SUBSET Service]

Opt(S) == S \cup {None}
Identity == User \X Service

\* The optional text columns: vpn_address, caller_id and interface_id.
Column == {"addr", "caller", "iface"}
Attributes == [Column -> Text \cup {Empty, None}]

\* Python's falsy strings: both None and "" count as "not given".
Blank(text) == text \in {None, Empty}

\* A duration is never negative; a mistake would be to keep the sign.
Signed(n) == n

Max0(n) == IF n < 0 THEN 0 ELSE n

-----------------------------------------------------------------------------
(* Tables and payloads.                                                    *)

Reason == {"DISCONNECT", "RECONCILIATION", "ROUTER_REBOOT"}

Row == [source : Source, who : Identity,
        state : {"ACTIVE", "CLOSED"}, origin : {"EVENT", "RECONCILIATION"},
        rsid : Opt(RouterSessionId), attrs : Attributes, boot : Opt(BootId),
        connected : Int, observed : Int,
        disconnected : Opt(Int), duration : Opt(Nat), reason : Opt(Reason)]

Event == [id : EventId, type : {"CONNECT", "DISCONNECT"}, source : Source,
          who : Identity, attrs : Attributes, occurred : Int]

Item == [rsid : RouterSessionId, who : Identity, attrs : Attributes,
         uptime : Opt(Nat)]

\* A snapshot lists its sessions in some order; the set stands for all of
\* them.  unique_router_session_ids makes the identifiers distinct.
Snapshot == {p \in [source : Source, observed : Int, boot : Opt(BootId),
                    items : SUBSET Item] :
                \A i, j \in p.items : i.rsid = j.rsid => i = j}

\* NULL is not a value.
ASSUME NoneAssumption ==
    /\ None \notin Int /\ None \notin RouterSessionId /\ None \notin BootId
    /\ None \notin Text \cup {Empty} /\ None \notin Reason
    /\ None \notin Row /\ None \notin Event /\ None \notin Item /\ None \notin Snapshot

-----------------------------------------------------------------------------
(* Scope: _resolve_source of both services.                                *)

ServiceAllowed(source, who) ==
    SourceServices[source] = {} \/ who[2] \in SourceServices[source]

EventInScope(e) == e.source \in EnabledSource /\ ServiceAllowed(e.source, e.who)

SnapshotInScope(p) ==
    /\ p.source \in EnabledSource
    /\ \A i \in p.items : ServiceAllowed(p.source, i.who)

\* A mistake: any snapshot is newer than the last.
NeverOutdated(p, mark) == FALSE

\* A snapshot is compared with the instant of the last one accepted.
Outdated(p, mark) == mark # None /\ p.observed <= mark

-----------------------------------------------------------------------------
(* New rows and row edits.                                                 *)

\* The row _apply_connect inserts.
EventRow(e) ==
    [source |-> e.source, who |-> e.who, state |-> "ACTIVE", origin |-> "EVENT",
     rsid |-> None, attrs |-> e.attrs, boot |-> None,
     connected |-> e.occurred, observed |-> e.occurred,
     disconnected |-> None, duration |-> None, reason |-> None]

\* The row _create_reconciled_session inserts: the uptime dates the connection.
ReconciledRow(p, item) ==
    [source |-> p.source, who |-> item.who, state |-> "ACTIVE",
     origin |-> "RECONCILIATION", rsid |-> item.rsid, attrs |-> item.attrs,
     boot |-> p.boot,
     connected |-> IF item.uptime = None THEN p.observed
                                         ELSE p.observed - item.uptime,
     observed |-> p.observed,
     disconnected |-> None, duration |-> None, reason |-> None]

\* A CONNECT for an interface that is already active: the addresses are
\* overwritten as they come, None included.
ReconnectRow(row, e) ==
    [row EXCEPT !.attrs = [@ EXCEPT !["caller"] = e.attrs["caller"],
                                    !["addr"] = e.attrs["addr"]],
                !.observed = e.occurred]

\* A mistake: the time since the last observation, not since the connection.
CloseRowSinceObserved(row, at, why) ==
    [row EXCEPT !.state = "CLOSED", !.disconnected = at, !.observed = at,
                !.duration = Max0(at - row.observed), !.reason = why]

\* Another: the identifier is given back with the session.
CloseRowReleasing(row, at, why) ==
    [row EXCEPT !.state = "CLOSED", !.disconnected = at, !.observed = at,
                !.duration = Max0(at - row.connected), !.reason = why, !.rsid = None]

\* _close_session, and the same assignments in _apply_disconnect.
CloseRow(row, at, why) ==
    [row EXCEPT !.state = "CLOSED", !.disconnected = at, !.observed = at,
                !.duration = Max0(at - row.connected), !.reason = why]

\* _refresh_session: what the item does not give is kept; "" is given.
RefreshRow(row, p, item) ==
    [row EXCEPT !.rsid = item.rsid,
                !.attrs = [c \in Column |-> IF item.attrs[c] = None
                                            THEN row.attrs[c]
                                            ELSE item.attrs[c]],
                !.boot = IF p.boot = None THEN @ ELSE p.boot,
                !.observed = p.observed]

-----------------------------------------------------------------------------
(* What a row tells, and what it goes on telling.                          *)

EndIsComplete(row) ==
    IF row.state = "CLOSED"
    THEN /\ row.disconnected # None
         /\ row.reason # None
         /\ row.duration = Max0(row.disconnected - row.connected)
    ELSE row.disconnected = None /\ row.reason = None /\ row.duration = None

EndIsCovered(row) ==
    row.state = "CLOSED" /\ row.reason # "DISCONNECT" => row.disconnected >= row.connected

Coherent(row) == EndIsComplete(row) /\ EndIsCovered(row)

SameConnection(row, later) ==
    /\ later.source = row.source
    /\ later.who = row.who
    /\ later.origin = row.origin
    /\ later.connected = row.connected

\* A row later on: of the same connection, identified and closed for good, and
\* not made the work of a DISCONNECT after it was closed.
Succeeds(row, later) ==
    /\ SameConnection(row, later)
    /\ row.rsid # None => later.rsid # None
    /\ row.state = "CLOSED" =>
          /\ later.state = "CLOSED"
          /\ later.reason = "DISCONNECT" => row.reason = "DISCONNECT"

-----------------------------------------------------------------------------
(* Selections from a table, a function from SessionId to Row or None.      *)

ActiveIn(table) == {s \in SessionId : table[s] # None /\ table[s].state = "ACTIVE"}

Unused(table) == {s \in SessionId : table[s] = None}

\* Mistakes: the instant, or the state, is not asked for.
CoverableAnyTime(table, at) == ActiveIn(table)

CoverableAnyState(table, at) ==
    {s \in SessionId : table[s] # None /\ table[s].connected <= at}

\* Active sessions of the router a snapshot of this instant may touch.
Coverable(table, at) == {s \in ActiveIn(table) : table[s].connected <= at}

\* ORDER BY connected_at DESC LIMIT 1; UUIDs break ties, in an order nobody
\* chose, so any of the latest may come first.
Latest(table, S) == {s \in S : \A t \in S : table[t].connected <= table[s].connected}

\* _find_active_session: a blank interface matches every session of the user.
ActiveFor(table, e) ==
    {s \in ActiveIn(table) :
        /\ table[s].source = e.source
        /\ table[s].who = e.who
        /\ Blank(e.attrs["iface"]) \/ table[s].attrs["iface"] = e.attrs["iface"]}

\* _find_by_router_session_id, before ORDER BY.
WithRouterSessionId(table, p, item) ==
    {s \in Coverable(table, p.observed) :
        table[s].source = p.source /\ table[s].rsid = item.rsid}

\* The candidates _find_unique_event_fallback selects ...
FallbackCandidates(table, p, item) ==
    {s \in Coverable(table, p.observed) :
        table[s].source = p.source /\ table[s].who = item.who /\ table[s].rsid = None}

\* ... and the test it applies to each: blanks on either side are wildcards.
Compatible(item, row) ==
    \A c \in Column : \/ Blank(item.attrs[c])
                      \/ Blank(row.attrs[c])
                      \/ item.attrs[c] = row.attrs[c]

-----------------------------------------------------------------------------
(* An UPDATE of the unit of work names the columns that differ from what   *)
(* was loaded; the others keep what the row holds when it is written.      *)

Written(old, new, current) == IF new = old THEN current ELSE new

\* A mistake: every column is written as the object has it.
WholeRow(row, old, new) == new

MergedRow(row, old, new) ==
    [row EXCEPT !.state = Written(old.state, new.state, @),
                !.rsid = Written(old.rsid, new.rsid, @),
                !.attrs = [c \in Column |-> Written(old.attrs[c], new.attrs[c],
                                                    row.attrs[c])],
                !.boot = Written(old.boot, new.boot, @),
                !.observed = Written(old.observed, new.observed, @),
                !.disconnected = Written(old.disconnected, new.disconnected, @),
                !.duration = Written(old.duration, new.duration, @),
                !.reason = Written(old.reason, new.reason, @)]
=============================================================================
