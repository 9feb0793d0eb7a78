------------------------- MODULE LogonAlertsProofs -------------------------
(***************************************************************************)
(* Machine-checked proofs about LogonAlerts, for any events and clock, and *)
(* any lookback that covers the polling period and the wait for the lock.  *)
(***************************************************************************)
EXTENDS LogonAlerts, TLAPS

LEMMA InitAInv == Init => AInv
  BY TimeAssumption
  DEF Init, AInv, TypeOK, Stored, PollsInTime, WritesInTime, LateIsRecent,
      GoneIsOld, NoConnectMissed

-----------------------------------------------------------------------------
(* What the router's side does.                                            *)

LEMMA TickAInv == AInv /\ Tick => AInv'
<1> SUFFICES ASSUME AInv, Tick PROVE AInv'
  OBVIOUS
<1> USE TimeAssumption DEF AInv, Tick
<1>1. TypeOK' /\ LateIsRecent' /\ GoneIsOld' /\ NoConnectMissed'
  BY DEF TypeOK, Stored, LateIsRecent, GoneIsOld, NoConnectMissed
<1>2. PollsInTime'
  BY DEF PollsInTime, TypeOK
<1>3. WritesInTime'
  BY DEF WritesInTime, TypeOK, Attempt
<1> QED
  BY <1>1, <1>2, <1>3

LEMMA StampAInv ==
  ASSUME AInv, NEW e \in EventId, Stamp(e)
  PROVE  AInv'
<1> USE TimeAssumption DEF AInv, Stamp
<1>1. /\ TypeOK' /\ PollsInTime' /\ LateIsRecent' /\ GoneIsOld' /\ NoConnectMissed'
  BY DEF TypeOK, Attempt, Stored, PollsInTime, LateIsRecent, GoneIsOld, NoConnectMissed
<1>2. WritesInTime'
  BY DEF WritesInTime, TypeOK
<1> QED
  BY <1>1, <1>2

LEMMA ResendChangesNothing ==
  ASSUME NEW e \in EventId, Resend(e)
  PROVE  UNCHANGED vars
  BY DEF Resend, Kept, vars

\* The new row is stamped at most MaxWait before the last poll: the clock has
\* not left the attempt behind for longer.
LEMMA CommitAInv ==
  ASSUME AInv, NEW a \in attempts, Commit(a)
  PROVE  AInv'
<1> USE TimeAssumption DEF AInv, Commit, Refused
<1>1. a.event \in EventId /\ a.at \in Nat
  BY DEF TypeOK, Attempt
<1>2. /\ received'[a.event] = a.at
      /\ \A e \in EventId : e # a.event => received'[e] = received[e]
      /\ received[a.event] = None
  BY <1>1 DEF TypeOK, Stored
<1>3. Stored' = Stored \cup {a.event}
  BY <1>1, <1>2 DEF Stored
<1>4. a.event \notin polled /\ a.event \notin seen
  BY <1>2 DEF TypeOK, Stored
<1>5. TypeOK'
  BY <1>1, <1>3 DEF TypeOK
<1>6. PollsInTime' /\ WritesInTime' /\ NoConnectMissed'
  BY DEF PollsInTime, WritesInTime, NoConnectMissed
<1>7. LateIsRecent'
  BY <1>1, <1>2, <1>3 DEF LateIsRecent, WritesInTime, PollsInTime, TypeOK, Stored
<1>8. GoneIsOld'
  BY <1>2, <1>4 DEF GoneIsOld, TypeOK, Stored, Cutoff
<1> QED
  BY <1>5, <1>6, <1>7, <1>8

LEMMA AbortAInv ==
  ASSUME AInv, NEW a \in attempts, Abort(a)
  PROVE  AInv'
  BY DEF AInv, Abort, TypeOK, Stored, PollsInTime, WritesInTime, LateIsRecent,
         GoneIsOld, NoConnectMissed

-----------------------------------------------------------------------------
(* Polls.                                                                  *)

LEMMA StartPollAInv == AInv /\ StartPoll => AInv'
  BY TimeAssumption
  DEF AInv, StartPoll, TypeOK, Stored, PollsInTime, WritesInTime, LateIsRecent,
      GoneIsOld, NoConnectMissed

LEMMA LosePollAInv == AInv /\ LosePoll => AInv'
  BY TimeAssumption
  DEF AInv, LosePoll, TypeOK, Stored, PollsInTime, WritesInTime, LateIsRecent,
      GoneIsOld, NoConnectMissed

\* The heart of the argument: the poll begins at most Period after the last
\* one, so whatever that one did not find is still within the lookback; and
\* what it does not answer is outside for good.
LEMMA AnswerPollAInv == AInv /\ AnswerPoll => AInv'
<1> SUFFICES ASSUME AInv, AnswerPoll PROVE AInv'
  OBVIOUS
<1> USE TimeAssumption, LookbackAssumption DEF AInv, AnswerPoll
<1>1. Stored' = Stored
  BY DEF Stored
<1>2. poll \in Nat /\ asked \in Nat /\ asked' \in Nat
  BY DEF TypeOK
<1>3. \A e \in Stored : received[e] \in Nat
  BY DEF Stored, TypeOK
<1>4. TypeOK'
  BY <1>1, <1>2 DEF TypeOK
<1>5. PollsInTime'
  BY <1>2 DEF PollsInTime, TypeOK
<1>6. WritesInTime' /\ LateIsRecent'
  BY <1>1 DEF WritesInTime, LateIsRecent
<1>7. GoneIsOld'
  BY <1>1, <1>2, <1>3 DEF GoneIsOld, TypeOK, Cutoff
<1>8. NoConnectMissed'
  <2> SUFFICES ASSUME NEW e \in Stored PROVE e \in seen'
    BY DEF NoConnectMissed
  <2>1. CASE e \in polled
    BY <2>1 DEF NoConnectMissed
  <2>2. CASE e \notin polled
    <3>1. asked <= received[e] + MaxWait /\ poll <= asked + Period
      BY <2>2 DEF LateIsRecent, PollsInTime
    <3>2. received[e] >= Cutoff(poll)
      BY <1>2, <1>3, <3>1 DEF Cutoff
    <3> QED
      BY <3>2
  <2> QED
    BY <2>1, <2>2
<1> QED
  BY <1>4, <1>5, <1>6, <1>7, <1>8

LEMMA NextAInv == AInv /\ [Next]_vars => AInv'
<1> SUFFICES ASSUME AInv, [Next]_vars PROVE AInv'
  OBVIOUS
<1>1. CASE UNCHANGED vars
  BY <1>1
  DEF vars, AInv, TypeOK, Stored, PollsInTime, WritesInTime, LateIsRecent,
      GoneIsOld, NoConnectMissed
<1> QED
  BY <1>1, ResendChangesNothing, TickAInv, StampAInv, CommitAInv, AbortAInv, StartPollAInv, LosePollAInv,
     AnswerPollAInv
  DEF Next

\* Every reachable state satisfies the invariant.
THEOREM AlertInvariance == Spec => []AInv
  BY InitAInv, NextAInv, PTL DEF Spec

\* list_logon_alerts reports every CONNECT, if only the lookback covers the time
\* between two answered polls and the wait between received_at and the commit.
THEOREM EveryLogonIsReported == Spec => []NoConnectMissed
<1>1. AInv => NoConnectMissed
  BY DEF AInv
<1> QED
  BY <1>1, AlertInvariance, PTL

LEMMA ReentersNever ==
  ASSUME AInv, [Next]_vars
  PROVE  (feed' \ feed) \cap seen = {}
<1>1. CASE AnswerPoll
  <2> SUFFICES ASSUME NEW e \in seen \ feed PROVE e \notin feed'
    OBVIOUS
  <2>1. e \in Stored /\ received[e] \in Nat /\ received[e] < Cutoff(asked)
    BY DEF AInv, TypeOK, GoneIsOld, Stored
  <2>2. poll \in Nat /\ asked \in Nat /\ asked <= poll
    BY <1>1 DEF AInv, TypeOK, PollsInTime, AnswerPoll
  <2>3. received[e] < Cutoff(poll)
    BY <2>1, <2>2, TimeAssumption DEF Cutoff
  <2>4. Cutoff(poll) \in Int
    BY <2>2, TimeAssumption DEF Cutoff
  <2> QED
    BY <1>1, <2>1, <2>3, <2>4 DEF AnswerPoll
<1>2. CASE feed' = feed
  BY <1>2
<1> QED
  BY <1>1, <1>2
  DEF Next, vars, Resend, Tick, Stamp, Commit, Abort, StartPoll, LosePoll

\* An alert that has left the feed never comes back, for the stamp of a stored
\* event never changes and the cutoffs only advance.
THEOREM AlertsFireOnce == Spec => AlertFiresOnce
<1>1. AInv /\ [Next]_vars => (feed' \ feed) \cap seen = {}
  BY ReentersNever
<1> QED
  BY <1>1, AlertInvariance, PTL DEF Spec, AlertFiresOnce
=============================================================================
