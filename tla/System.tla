------------------------------- MODULE System -------------------------------
(***************************************************************************)
(* A router, its scripts and the ingestion API together: the PPP sessions  *)
(* of one source come up and go down, the profile hooks report each with   *)
(* an event, the scheduler reports all of them with a snapshot             *)
(* (routeros/*.rsc), and attempts to deliver either may fail on the way,   *)
(* in the API or on the way back.                                          *)
(*                                                                         *)
(* A request that no other one overlaps is handled as AtomicRequests says, *)
(* which Ingestion implements for requests one at a time.  One that others *)
(* do overlap, be it the resend of the same message, goes through its      *)
(* handler statement by statement (Handler).  Of two requests that overlap *)
(* the one that commits first might as well be handled at that moment, so  *)
(* one slow handler among requests in one step is every overlap of two.    *)
(*                                                                         *)
(* The clock advances by seconds up to Horizon.  Sessions come and go up   *)
(* to ActiveUntil, and what a script has begun is over MaxDelay seconds    *)
(* later (a bounded number of attempts, a second apart, of bounded         *)
(* duration); from Horizon on only the scheduler and its snapshots go on.  *)
(***************************************************************************)
EXTENDS AtomicRequests

CONSTANTS
    Endpoints,                  \* what the PPP sessions may be: for each
                                \* identifier a user, address and interface
    OwnSource, OwnService,      \* sourceName and serviceName of the scripts
    Horizon, ActiveUntil, MaxDelay,
    MaxSkew,                    \* how far the clock may be ahead at first
    MaxFaults,                  \* bound on lost answers, messages given up,
                                \* clock changes and overlapped requests
    Overlapped,                 \* the Endpoints for which there are those
    Slow                        \* the worker that handles them

ASSUME ClockAssumption ==
    /\ {Horizon, ActiveUntil, MaxDelay, MaxSkew, MaxFaults} \subseteq Nat
    /\ Horizon > ActiveUntil + MaxDelay + MaxSkew

ASSUME OwnAssumption ==
    /\ OwnSource \in Source
    /\ OwnService \in Service
    /\ Endpoints \subseteq
          [RouterSessionId -> [user : User, addr : Text, iface : Text]]

\* RouterOS numbers its sessions, and uses the numbers in turn.
ASSUME OrderAssumption == RouterSessionId \subseteq Nat

ASSUME SlowAssumption == Slow # None

\* An event is no snapshot.
ASSUME RequestAssumption == Events \cap Snapshots = {}

VARIABLES
    lock, work, pc, job, dirty, \* the slow request's handler
    slow,       \* the message it handles, or None
    apart,      \* whether no snapshot was handled like that so far
    endpoint,   \* which of the Endpoints they are
    now,        \* seconds since the router started
    skew,       \* how far its clock is ahead
    phase,      \* of each PPP session
    began,      \* when it came up
    hooks,      \* the events being sent, and since when
    reports,    \* the snapshots being sent
    script,     \* what a running snapshot script has read, and when, or None
    due,        \* whether the scheduler has yet to start one this second
    faults      \* how many there were

Handler == INSTANCE Ingestion WITH Worker <- {Slow}

handler == <<lock, work, pc, job, dirty, slow, apart>>
clock == <<now, skew>>
sessions == <<endpoint, phase, began>>
scripts == <<hooks, reports, script, due>>
system == <<tables, handler, clock, sessions, scripts, faults>>

\* The clock the scripts read.
Clock == now + skew

Up == {k \in RouterSessionId : phase[k] = "up"}

-----------------------------------------------------------------------------
(* What the scripts send.                                                  *)

Hook(k, end, type, at) ==
    [id |-> <<k, type>>, type |-> type, source |-> OwnSource,
     who |-> <<end.user, OwnService>>,
     attrs |-> [addr |-> end.addr, caller |-> None, iface |-> end.iface],
     occurred |-> at]

\* An entry of /ppp active, which gives no interface.
Entry(k, end, uptime) ==
    [rsid |-> k, who |-> <<end.user, OwnService>>,
     attrs |-> [addr |-> end.addr, caller |-> None, iface |-> None],
     uptime |-> uptime]

\* The sender gives no boot_id.
Listing(at, entries) ==
    [source |-> OwnSource, observed |-> at, boot |-> None, items |-> entries]

Message(content) == [content |-> content, since |-> now]

-----------------------------------------------------------------------------
(* The router.                                                             *)

SystemInit ==
    /\ Handler!Init
    /\ slow = None
    /\ apart = TRUE
    /\ endpoint \in Endpoints
    /\ now = 0
    /\ skew = MaxSkew
    /\ phase = [k \in RouterSessionId |-> "new"]
    /\ began = [k \in RouterSessionId |-> None]
    /\ hooks = {}
    /\ reports = {}
    /\ script = None
    /\ due = FALSE
    /\ faults = 0

\* A second passes, for which nothing a script has begun may be too old.
Tick ==
    /\ now < Horizon
    /\ \A m \in hooks \cup reports : now < m.since + MaxDelay
    /\ script # None => now < script.since + MaxDelay
    /\ slow # None => now < slow.since + MaxDelay
    /\ now' = now + 1
    /\ due' = TRUE
    /\ UNCHANGED <<tables, handler, skew, sessions, hooks, reports, script, faults>>

\* The clock is set right.
SetClock ==
    /\ skew # 0
    /\ faults < MaxFaults
    /\ skew' = 0
    /\ faults' = faults + 1
    /\ UNCHANGED <<tables, handler, now, sessions, scripts>>

\* on-up.  An interface has one session at a time.
ComesUp(k) ==
    /\ now <= ActiveUntil
    /\ phase[k] = "new"
    /\ \A j \in RouterSessionId : j < k => phase[j] # "new"
    /\ \A j \in Up : endpoint[j].iface # endpoint[k].iface
    /\ phase' = [phase EXCEPT ![k] = "up"]
    /\ began' = [began EXCEPT ![k] = now]
    /\ hooks' = hooks \cup {Message(Hook(k, endpoint[k], "CONNECT", Clock))}
    /\ UNCHANGED <<tables, handler, clock, endpoint, reports, script, due, faults>>

\* on-down.
GoesDown(k) ==
    /\ now <= ActiveUntil
    /\ phase[k] = "up"
    /\ phase' = [phase EXCEPT ![k] = "down"]
    /\ hooks' = hooks \cup {Message(Hook(k, endpoint[k], "DISCONNECT", Clock))}
    /\ UNCHANGED <<tables, handler, clock, endpoint, began, reports, script, due, faults>>

\* The scheduler starts the snapshot script, which first reads the clock.
\* The last instant stands for all later ones.
StartScript ==
    /\ script = None
    /\ due \/ (now = Horizon /\ reports = {})
    /\ script' = [observed |-> Clock, since |-> now]
    /\ due' = FALSE
    /\ UNCHANGED <<tables, handler, clock, sessions, hooks, reports, faults>>

\* It prints /ppp active some time later, and sends what it got.
PrintActive ==
    /\ script # None
    /\ reports' = reports \cup
          {Message(Listing(script.observed, {Entry(k, endpoint[k], now - began[k]) : k \in Up}))}
    /\ script' = None
    /\ UNCHANGED <<tables, handler, clock, sessions, hooks, due, faults>>

-----------------------------------------------------------------------------
(* Delivery: /tool fetch in a :retry.  An attempt that fails before the API *)
(* commits leaves nothing behind but its successor.                         *)

\* An attempt no other overlaps; a duplicate or a stale one changes nothing.
HandleEvent(e) ==
    \/ StoresEvent(e)
    \/ e \in vpnEvents /\ UNCHANGED tables

HandleSnapshot(p) ==
    \/ AppliesSnapshot(p)
    \/ Outdated(p, sourceSnapshotAt[p.source]) /\ UNCHANGED tables

\* Between two statements of the slow request, if there is one, that has not
\* begun to write.
Meanwhile ==
    /\ lock = None
    /\ work' = vpnSessions'
    /\ UNCHANGED <<lock, pc, job, dirty, slow, apart>>

\* Its answer arrives, and the script is done.
Deliver ==
    /\ \/ \E m \in hooks :
             hooks' = hooks \ {m} /\ UNCHANGED reports /\ HandleEvent(m.content)
       \/ \E m \in reports :
             reports' = reports \ {m} /\ UNCHANGED hooks /\ HandleSnapshot(m.content)
    /\ Meanwhile
    /\ UNCHANGED <<clock, sessions, script, due, faults>>

\* Its answer is lost, and the script will send it again.
LoseAnswer ==
    /\ faults < MaxFaults
    /\ faults' = faults + 1
    /\ \/ \E m \in hooks : HandleEvent(m.content)
       \/ \E m \in reports : HandleSnapshot(m.content)
    /\ Meanwhile
    /\ UNCHANGED <<clock, sessions, scripts>>

\* The last attempt has failed.
GiveUp ==
    /\ faults < MaxFaults
    /\ faults' = faults + 1
    /\ \/ \E m \in hooks : hooks' = hooks \ {m} /\ UNCHANGED reports
       \/ \E m \in reports : reports' = reports \ {m} /\ UNCHANGED hooks
    /\ UNCHANGED <<tables, handler, clock, sessions, script, due>>

-----------------------------------------------------------------------------
(* A request that others overlap.  Its message stays with the script: the  *)
(* fetch may fail before the answer, and the next attempt is made then.     *)

\* An attempt reaches a thread, early enough for what it does to be followed
\* by a snapshot.
TakeUp(m) ==
    /\ faults < MaxFaults
    /\ faults' = faults + 1
    /\ endpoint \in Overlapped
    /\ slow = None
    /\ m.since + MaxDelay + MaxSkew < Horizon
    /\ Handler!Accept(Slow, m.content)
    /\ slow' = m
    /\ UNCHANGED <<clock, sessions, scripts>>

TakeUpEvent == \E m \in hooks : m.content \in Events /\ TakeUp(m) /\ UNCHANGED apart

TakeUpSnapshot == \E m \in reports : TakeUp(m) /\ apart' = FALSE

\* One of its statements.  Keys are used in their order.
Handle ==
    /\ Handler!Authenticate(Slow) \/ Handler!EventStep(Slow) \/ Handler!SnapshotStep(Slow)
    /\ \A s \in Unused(work) : work'[s] # None => s \in NewKeys(work, KeyOrder)
    /\ UNCHANGED <<slow, apart, clock, sessions, scripts, faults>>

\* It is answered; the script is done, unless it has stopped waiting.
Answered ==
    /\ Handler!Respond(Slow)
    /\ slow' = None
    /\ \/ hooks' = hooks \ {slow} /\ reports' = reports \ {slow}
       \/ UNCHANGED <<hooks, reports>>
    /\ UNCHANGED <<apart, clock, sessions, script, due, faults>>

\* It fails, and leaves nothing but the next attempt.
Fails ==
    /\ Handler!Abort(Slow)
    /\ slow' = None
    /\ UNCHANGED <<apart, clock, sessions, scripts, faults>>

-----------------------------------------------------------------------------

Progress == Tick \/ StartScript \/ PrintActive \/ Deliver \/ Handle \/ Answered

SystemNext ==
    \/ Progress
    \/ \E k \in RouterSessionId : ComesUp(k) \/ GoesDown(k)
    \/ SetClock \/ LoseAnswer \/ GiveUp \/ TakeUpEvent \/ TakeUpSnapshot \/ Fails

\* Time passes, the scheduler runs and attempts are made: something of it goes
\* on for as long as anything can.
SystemSpec == SystemInit /\ [][SystemNext]_system /\ WF_system(Progress)

-----------------------------------------------------------------------------

\* The active rows are the router's sessions, one for one.
Agrees ==
    /\ Cardinality(ActiveIn(vpnSessions)) = Cardinality(Up)
    /\ \A k \in Up : \E s \in ActiveIn(vpnSessions) :
          vpnSessions[s].rsid = k /\ vpnSessions[s].who[1] = endpoint[k].user

\* Eventual consistency: whichever events and snapshots are lost, repeated,
\* delayed or overtaken, or handled at the same time as others, the active rows
\* end up as the router's sessions.
Repair == <>[]Agrees

\* Reconciliation may end a row that nothing has identified; but once a row
\* carries the identifier of a session, it is only ended as missing when that
\* session is really down.  Two things are excluded.  If another request
\* commits while a snapshot is handled, be it the resend of the same one
\* (apart), the later to commit may end a row the other has identified.  And a
\* clock set back by more than a second may date a listing that is older than
\* the session after the one that identified it.
IdentifiedEndIsReal ==
    apart /\ MaxSkew - skew <= 1 =>
    \A s \in SessionId :
        LET row == vpnSessions[s] IN
        row # None /\ row.rsid # None /\ row.reason = "RECONCILIATION" =>
            phase[row.rsid] = "down"
=============================================================================
