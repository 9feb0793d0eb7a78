------------------------------ MODULE Queries ------------------------------
(***************************************************************************)
(* The local query API (app/services/queries.py, app/api/query.py), read   *)
(* while requests commit.  One SELECT sees one state of the database, but  *)
(* nothing holds several together: pysqlite opens no transaction for them, *)
(* so a summary is read figure by figure, and a history page by page.      *)
(*                                                                         *)
(* The writers are those of SessionLifecycle, one row at a time: a commit  *)
(* of several rows is several steps with no read in between.  One reader   *)
(* is enough, since readers change nothing.                                *)
(***************************************************************************)
EXTENDS Integers, Sequences, FiniteSets, FiniteSetsExt

CONSTANTS
    Router,         \* rows of "routers"
    Source,         \* rows of "sources": a router and a name that is its own
    User,           \* PPP user names, numbered in their order
    SessionId,      \* primary keys, numbered in their order
    Instant,        \* whole seconds
    WalkFilter,     \* the queries a reader pages through
    PageSize,
    Telemetry,      \* the events that may be received
    None

ASSUME QueriesAssumption ==
    /\ \A source \in Source : source.router \in Router
    /\ \A one, other \in Source :
          one.router = other.router /\ one.name = other.name => one = other
    /\ SessionId \cup User \cup Instant \subseteq Int
    /\ PageSize \in Nat \ {0}
    /\ Telemetry \subseteq [type : {"CONNECT", "DISCONNECT"}, occurred : Instant]

VARIABLES
    sessions,   \* vpn_sessions
    events,     \* vpn_events, of which there is at most one of a kind
    reader      \* the request, or the requests for pages, being answered

vars == <<sessions, events, reader>>

Opt(S) == S \cup {None}

Row == [source : Source, user : User, state : {"ACTIVE", "CLOSED"},
        connected : Instant]

ASSUME NullAssumption ==
    /\ None \notin SessionId \cup User \cup Instant
    /\ None \notin Router
    /\ None \notin {source.name : source \in Source}
    /\ None \notin {"ACTIVE", "CLOSED"}
    /\ None \notin Row

Stored == {s \in SessionId : sessions[s] # None}
Active == {s \in Stored : sessions[s].state = "ACTIVE"}

-----------------------------------------------------------------------------
(* Writers.                                                                *)

\* Session identifiers are random: a new row may be of any time and sort
\* anywhere among the rows of its second.
Open(s) ==
    /\ sessions[s] = None
    /\ \E source \in Source, user \in User, at \in Instant :
          sessions' = [sessions EXCEPT ![s] =
              [source |-> source, user |-> user, state |-> "ACTIVE",
               connected |-> at]]

\* What a late snapshot writes over the end of a closed session is not told
\* apart here: no filter, order or count reads it but the users' durations.
Close(s) ==
    /\ s \in Active
    /\ sessions' = [sessions EXCEPT ![s].state = "CLOSED"]

StoreEvent ==
    /\ reader.at \notin {"walked", "answered"}
    /\ \E e \in Telemetry \ events : events' = events \cup {e}
    /\ UNCHANGED <<sessions, reader>>

\* An answer is looked at before the next commit.
Write ==
    /\ reader.at \notin {"walked", "answered"}
    /\ \E s \in SessionId : Open(s) \/ Close(s)
    /\ UNCHANGED <<events, reader>>

-----------------------------------------------------------------------------
(* list_sessions: filters that are not given match all.                    *)

Filter == [state : Opt({"ACTIVE", "CLOSED"}), router : Opt(Router),
           source : Opt({source.name : source \in Source}), user : Opt(User),
           since : Opt(Instant), until : Opt(Instant)]

NoFilter == [state |-> None, router |-> None, source |-> None, user |-> None,
             since |-> None, until |-> None]

Given(wanted, value) == wanted \in {None, value}

Matching(filter) ==
    {s \in Stored :
        /\ Given(filter.state, sessions[s].state)
        /\ Given(filter.router, sessions[s].source.router)
        /\ Given(filter.source, sessions[s].source.name)
        /\ Given(filter.user, sessions[s].user)
        /\ filter.since # None => sessions[s].connected >= filter.since
        /\ filter.until # None => sessions[s].connected <= filter.until}

\* A mistake: active sessions on top.
ActiveFirst(s, t) ==
    \/ s \in Active /\ t \notin Active
    \/ /\ sessions[s].state = sessions[t].state
       /\ \/ sessions[s].connected > sessions[t].connected
          \/ sessions[s].connected = sessions[t].connected /\ s > t

\* ORDER BY connected_at DESC, id DESC: of columns that are never written again.
Before(s, t) ==
    \/ sessions[s].connected > sessions[t].connected
    \/ sessions[s].connected = sessions[t].connected /\ s > t

\* LIMIT and OFFSET: the row with so many before it is on the page.
OnPage(preceding, limit, offset) ==
    Cardinality(preceding) \in offset .. offset + limit - 1

ListSessions(filter, limit, offset) ==
    LET rows == Matching(filter) IN
    {s \in rows : OnPage({t \in rows : Before(t, s)}, limit, offset)}

\* A mistake: every session of the router is listed, whatever its state.
AnyState(router, source, user, limit) ==
    ListSessions([NoFilter EXCEPT !.router = router, !.source = source,
                                  !.user = user], limit, 0)

\* GET /query/sessions/active
ActiveSessions(router, source, user, limit) ==
    ListSessions([NoFilter EXCEPT !.state = "ACTIVE", !.router = router,
                                  !.source = source, !.user = user], limit, 0)

-----------------------------------------------------------------------------
(* Listings with counts: a LEFT JOIN keeps a key that no row goes with,    *)
(* beside NULLs, and COUNT(column) does not count a NULL.                  *)

LeftJoin(on) == IF on = {} THEN {None} ELSE on

Count(values) == Cardinality(values \ {None})

RouterItem(router) ==
    LET joined == LeftJoin({s \in Active : sessions[s].source.router = router})
    IN  [active |-> Count(joined),
         users |-> Count({IF s = None THEN None ELSE sessions[s].user : s \in joined})]

SourceItem(source) ==
    LET joined == LeftJoin({s \in Active : sessions[s].source = source})
    IN  [active |-> Count(joined),
         users |-> Count({IF s = None THEN None ELSE sessions[s].user : s \in joined})]

\* GROUP BY username: users of no session have no item.
Of(user) == {s \in Stored : sessions[s].user = user}
Known == {user \in User : Of(user) # {}}

\* A mistake: only sessions that last are joined.
ActiveUserItem(user) ==
    [active |-> Cardinality(Of(user) \cap Active),
     total |-> Cardinality(Of(user) \cap Active),
     last |-> Max({sessions[s].connected : s \in Of(user)})]

UserItem(user) ==
    [active |-> Cardinality(Of(user) \cap Active),
     total |-> Cardinality(Of(user)),
     last |-> Max({sessions[s].connected : s \in Of(user)})]

LatestFirst(u, v) ==
    \/ UserItem(u).last > UserItem(v).last
    \/ UserItem(u).last = UserItem(v).last /\ u < v

ListUsers(limit) ==
    {user \in Known : OnPage({u \in Known : LatestFirst(u, user)}, limit, 0)}

-----------------------------------------------------------------------------
(* A history read page by page, until one comes back short.                *)

Idle == [at |-> "idle"]

Forget ==
    /\ reader.at \in {"walked", "answered"}
    /\ reader' = Idle
    /\ UNCHANGED <<sessions, events>>

StartWalk ==
    /\ reader = Idle
    /\ \E filter \in WalkFilter :
          reader' = [at |-> "walking", filter |-> filter, offset |-> 0,
                     \* of an answer given at once, what has not been listed
                     owed |-> Matching(filter)]
    /\ UNCHANGED <<sessions, events>>

NextPage ==
    /\ reader.at = "walking"
    /\ LET page == ListSessions(reader.filter, PageSize, reader.offset)
       IN  reader' = [reader EXCEPT
               !.at = IF Cardinality(page) < PageSize THEN "walked" ELSE @,
               !.offset = @ + PageSize,
               !.owed = @ \ page]
    /\ UNCHANGED <<sessions, events>>

-----------------------------------------------------------------------------
(* get_summary: one scalar after the other.  The counts of enabled routers *)
(* and sources are left out, since nothing disables either.                *)

\* A mistake: the users are counted before the sessions.
UsersFirst == <<"active_users", "active_sessions", "sessions_24h",
                "connect_events_24h", "last_event_at">>

Order == <<"active_sessions", "active_users", "sessions_24h",
           "connect_events_24h", "last_event_at">>

Figure(name, since) ==
    CASE name = "active_sessions" -> Cardinality(Active)
      [] name = "active_users" -> Cardinality({sessions[s].user : s \in Active})
      [] name = "sessions_24h" ->
            Cardinality({s \in Stored : sessions[s].connected >= since})
      [] name = "connect_events_24h" ->
            Cardinality({e \in events : e.type = "CONNECT" /\ e.occurred >= since})
      [] name = "last_event_at" ->
            IF events = {} THEN None ELSE Max({e.occurred : e \in events})

\* The clock is the API's, the instants are the routers': any may be "since".
StartSummary ==
    /\ reader = Idle
    /\ \E since \in Instant :
          reader' = [at |-> "counting", since |-> since, figures |-> <<>>,
                     \* history: how many rows there were at the start
                     stored |-> Cardinality(Stored)]
    /\ UNCHANGED <<sessions, events>>

NextFigure ==
    /\ reader.at = "counting"
    /\ LET n == Len(reader.figures) + 1
       IN  reader' = [reader EXCEPT
               !.at = IF n = Len(Order) THEN "answered" ELSE @,
               !.figures = Append(@, Figure(Order[n], reader.since))]
    /\ UNCHANGED <<sessions, events>>

-----------------------------------------------------------------------------

Init ==
    /\ sessions = [s \in SessionId |-> None]
    /\ events = {}
    /\ reader = Idle

Next ==
    \/ Write \/ StoreEvent
    \/ StartWalk \/ NextPage \/ StartSummary \/ NextFigure \/ Forget

Spec == Init /\ [][Next]_vars

-----------------------------------------------------------------------------
(* Properties.                                                             *)

\* Whatever opens, closes or is rewritten while a history is read by offset
\* (queries.py:112-113), every session the first page's query would have
\* matched has been listed at the end.  Not so of the active ones, of which one
\* that ends makes the others move up past the offset.
WalkMissesNothing ==
    reader.at = "walked" /\ reader.filter.state # "ACTIVE" =>
        reader.owed = {}

Read(name) == reader.figures[CHOOSE n \in DOMAIN Order : Order[n] = name]

\* The figures of a summary are of several states (queries.py:54-68), so they
\* may differ by what is committed between them: more users may be active than
\* sessions, but by no more than the sessions opened since the summary began;
\* no more sessions are active than are recent or older; and a recent CONNECT is
\* not newer than the last event.  Each holds only for the order they are read in.
SummaryHoldsTogether ==
    reader.at = "answered" =>
        /\ Read("active_users") <=
              Read("active_sessions") + (Cardinality(Stored) - reader.stored)
        /\ Read("active_sessions") <=
              Read("sessions_24h")
                  + Cardinality({s \in Stored : sessions[s].connected < reader.since})
        /\ Read("connect_events_24h") > 0 =>
              /\ Read("last_event_at") # None
              /\ Read("last_event_at") >= reader.since

\* The counts beside each router and each source (queries.py:118-217), zero
\* included, are those of the active sessions the API lists for it, though a
\* source is filtered by a name other routers use too; and the users' counts
\* add up to the whole list.  The limits are ones that leave nothing out.  Asked
\* while nothing else is, as it may be of any table.
CountsMatchListings ==
    reader = Idle =>
    LET Listed(router, source) ==
            ActiveSessions(router, source, None, Cardinality(Stored))
    IN  /\ \A router \in Router :
              RouterItem(router) =
                  [active |-> Cardinality(Listed(router, None)),
                   users |-> Cardinality({sessions[s].user : s \in Listed(router, None)})]
        /\ \A source \in Source :
              SourceItem(source).active = Cardinality(Listed(source.router, source.name))
        /\ MapThenSumSet(LAMBDA user : UserItem(user).active, ListUsers(Cardinality(Known)))
              = Cardinality(Listed(None, None))

\* No commit takes a user off the list, or lowers the number of the user's
\* sessions or the instant of the last (queries.py:220-230).
HistoryOnlyGrows ==
    [][sessions' # sessions =>
       \A user \in Known :
          LET before == UserItem(user)
              after == UserItem(user)'
          IN  /\ user \in Known'
              /\ after.total >= before.total
              /\ after.last >= before.last]_vars
=============================================================================
