---------------------------- MODULE LogonAlerts ----------------------------
(***************************************************************************)
(* The logon alert feed: CONNECT events are stamped with received_at, wait *)
(* for the write lock and commit (app/services/events.py), while Grafana   *)
(* polls the events received within the lookback                           *)
(* (app/services/queries.py, app/api/alerts.py).                           *)
(*                                                                         *)
(* An event enters the table with a stamp that is already some time old,   *)
(* so a poll finds rows "before" ones that earlier polls have answered.    *)
(***************************************************************************)
EXTENDS Integers

CONSTANTS
    EventId,    \* the CONNECT events
    Lookback,   \* lookback_minutes
    Period,     \* longest time between two polls that are answered
    MaxWait,    \* longest time from the stamp to the commit: the busy timeout
    Horizon,    \* bound on the clock
    None

ASSUME TimeAssumption ==
    {Lookback, Period, MaxWait, Horizon} \subseteq Nat /\ None \notin Nat

\* What the caller of the feed has to grant.
ASSUME LookbackAssumption == Lookback >= Period + MaxWait

VARIABLES
    now,        \* the clock of the API's host
    received,   \* vpn_events: received_at of each stored event
    attempts,   \* requests that have stamped their event and not committed
    poll,       \* when the running poll has read the clock, or None
    asked,      \* when the last answered poll did
    polled,     \* what that poll's SELECT found in the table
    feed,       \* and what it answered
    seen        \* all that was ever answered

vars == <<now, received, attempts, poll, asked, polled, feed, seen>>

Attempt == [event : EventId, at : Nat]

Stored == {e \in EventId : received[e] # None}

-----------------------------------------------------------------------------

Init ==
    /\ now = 0
    /\ received = [e \in EventId |-> None]
    /\ attempts = {}
    /\ poll = None
    /\ asked = 0
    /\ polled = {} /\ feed = {} /\ seen = {}

\* Time passes, but for the deadlines of what is under way.
Tick ==
    /\ now < Horizon
    /\ \A a \in attempts : now < a.at + MaxWait
    /\ now < (IF poll = None THEN asked ELSE poll) + Period
    /\ now' = now + 1
    /\ UNCHANGED <<received, attempts, poll, asked, polled, feed, seen>>

\* process_event has found the event stored already: resent, it changes nothing.
Refreshed(e) == received' = [received EXCEPT ![e] = now]
Kept(e) == UNCHANGED received

Resend(e) ==
    /\ e \in Stored
    /\ Kept(e)
    /\ UNCHANGED <<now, attempts, poll, asked, polled, feed, seen>>

\* It has found no such event, and builds the row.
Stamp(e) ==
    /\ e \notin Stored
    /\ attempts' = attempts \cup {[event |-> e, at |-> now]}
    /\ UNCHANGED <<now, received, poll, asked, polled, feed, seen>>

\* Another attempt's row is in the table.
Refused(a) == a.event \in Stored

\* Its turn to write has come.
Commit(a) ==
    /\ ~Refused(a)
    /\ received' = [received EXCEPT ![a.event] = a.at]
    /\ attempts' = attempts \ {a}
    /\ UNCHANGED <<now, poll, asked, polled, feed, seen>>

\* The insert is refused, the wait times out or the process ends.
Abort(a) ==
    /\ attempts' = attempts \ {a}
    /\ UNCHANGED <<now, received, poll, asked, polled, feed, seen>>

\* list_logon_alerts: the cutoff is fixed before the SELECT.
StartPoll ==
    /\ poll = None
    /\ poll' = now
    /\ UNCHANGED <<now, received, attempts, asked, polled, feed, seen>>

CutoffSinceLastPoll(start) == start - Period
Cutoff(start) == start - Lookback

AnswerPoll ==
    /\ poll # None
    /\ feed' = {e \in Stored : received[e] >= Cutoff(poll)}
    /\ seen' = seen \cup feed'
    /\ polled' = Stored
    /\ asked' = poll
    /\ poll' = None
    /\ UNCHANGED <<now, received, attempts>>

\* It is not answered, and tried again in time.
LosePoll ==
    /\ poll # None
    /\ now < asked + Period
    /\ poll' = None
    /\ UNCHANGED <<now, received, attempts, asked, polled, feed, seen>>

Next ==
    \/ Tick \/ StartPoll \/ AnswerPoll \/ LosePoll
    \/ \E e \in EventId : Resend(e) \/ Stamp(e)
    \/ \E a \in attempts : Commit(a) \/ Abort(a)

Spec == Init /\ [][Next]_vars

-----------------------------------------------------------------------------

TypeOK ==
    /\ now \in Nat
    /\ received \in [EventId -> Nat \cup {None}]
    /\ attempts \subseteq Attempt
    /\ poll \in Nat \cup {None}
    /\ asked \in Nat
    /\ polled \subseteq Stored
    /\ feed \subseteq seen
    /\ seen \subseteq Stored

\* No logon goes unreported: whatever a poll could have found in the table it
\* or an earlier one has answered, however late the event got its lock.
NoConnectMissed == polled \subseteq seen

\* An alert fires once: what has left the feed never enters it again, also not
\* when its event is delivered again.
AlertFiresOnce == [][(feed' \ feed) \cap seen = {}]_vars

-----------------------------------------------------------------------------
(* The inductive invariant.                                                *)

PollsInTime ==
    /\ asked <= now
    /\ poll = None => now <= asked + Period
    /\ poll # None => asked <= poll /\ poll <= now /\ poll <= asked + Period
                                    /\ now <= poll + Period

WritesInTime == \A a \in attempts : a.at <= now /\ now <= a.at + MaxWait

\* What the last poll did not find was stamped not long before it.
LateIsRecent == \A e \in Stored \ polled : asked <= received[e] + MaxWait

\* What is no longer answered is older than the lookback.
GoneIsOld == \A e \in seen \ feed : received[e] < Cutoff(asked)

AInv == TypeOK /\ PollsInTime /\ WritesInTime /\ LateIsRecent /\ GoneIsOld /\ NoConnectMissed
=============================================================================
