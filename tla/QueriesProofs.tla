--------------------------- MODULE QueriesProofs ---------------------------
(***************************************************************************)
(* What the answers of the query API say of a history that goes on, for    *)
(* any rows, users, instants, queries and page size: the theorems about    *)
(* Queries and their proofs.                                               *)
(***************************************************************************)
EXTENDS Queries, FiniteSetTheorems, TLAPS

-----------------------------------------------------------------------------
(* Finite sets.                                                            *)

\* A set of finite sets that is not empty has a member no other is part of:
\* induction on finite sets, for one set of them at a time.
LEMMA SmallestMember ==
    ASSUME NEW C, C # {}, \A X \in C : IsFiniteSet(X)
    PROVE  \E X \in C : \A Y \in C : Y \subseteq X => Y = X
<1> DEFINE All == UNION C
<1>1. IsWellFoundedOn(StrictSubsetOrdering(All), FiniteSubsetsOf(All))
    BY FS_StrictSubsetOrderingWellFounded, Zenon
<1>2. C \subseteq FiniteSubsetsOf(All)
    BY DEF FiniteSubsetsOf
<1>3. PICK X \in C : \A Y \in C : ~ (<<Y, X>> \in StrictSubsetOrdering(All))
    <2> HIDE DEF All
    <2> QED  BY <1>1, <1>2, WFMin, Zenon
<1>4. ASSUME NEW Y \in C, Y \subseteq X, Y # X
      PROVE  FALSE
    <2>1. Y \in SUBSET All /\ X \in SUBSET All
        OBVIOUS
    <2>2. <<Y, X>> \in StrictSubsetOrdering(All)
        BY <1>4, <2>1 DEF StrictSubsetOrdering
    <2> QED  BY <2>2, <1>3
<1> QED  BY <1>4

\* A finite set of numbers has a largest, and Max is it.
LEMMA MaxIsLargest ==
    ASSUME NEW S, S \subseteq Int, IsFiniteSet(S), S # {}
    PROVE  Max(S) \in S /\ \A y \in S : Max(S) >= y
<1> DEFINE Without == {X \in SUBSET S : X # {} /\ ~ \E x \in X : \A y \in X : x >= y}
<1>1. ASSUME Without # {}
      PROVE  FALSE
    <2>1. \A X \in Without : IsFiniteSet(X)
        BY FS_Subset
    <2>2. PICK X \in Without : \A Y \in Without : Y \subseteq X => Y = X
        <3> HIDE DEF Without
        <3> QED  BY <1>1, <2>1, SmallestMember
    <2>3. PICK a \in X : TRUE
        OBVIOUS
    <2>4. X \ {a} \notin Without
        <3> HIDE DEF Without
        <3> QED  BY <2>2, <2>3
    <2>5. CASE X \ {a} = {}
        <3>1. X = {a} /\ a \in Int
            BY <2>5, <2>3
        <3> QED  BY <3>1
    <2>6. CASE X \ {a} # {}
        <3>1. PICK b \in X \ {a} : \A y \in X \ {a} : b >= y
            BY <2>4, <2>6
        <3>2. a \in Int /\ b \in Int /\ X \subseteq Int
            BY <3>1
        <3>3. (\A y \in X : b >= y) \/ (\A y \in X : a >= y)
            BY <3>1, <3>2
        <3> QED  BY <3>1, <3>3
    <2> QED  BY <2>5, <2>6
<1>2. \E x \in S : \A y \in S : x >= y
    BY <1>1
<1> QED  BY <1>2 DEF Max

LEMMA ImageIsFinite ==
    ASSUME NEW S, IsFiniteSet(S), NEW f
    PROVE  /\ IsFiniteSet({f[x] : x \in S})
           /\ Cardinality({f[x] : x \in S}) \in Nat
           /\ Cardinality({f[x] : x \in S}) <= Cardinality(S)
<1> DEFINE image == {f[x] : x \in S}
           g == [x \in S |-> f[x]]
<1>1. g \in Surjection(S, image)
    BY DEF Surjection
<1>2. IsFiniteSet(image) /\ Cardinality(image) <= Cardinality(S)
    <2> HIDE DEF image, g
    <2> QED  BY <1>1, FS_Surjection
<1> QED  BY <1>2, FS_CardinalityType

LEMMA Places ==
    ASSUME NEW first \in Nat, NEW n \in Nat
    PROVE  /\ IsFiniteSet(first .. first + n - 1)
           /\ Cardinality(first .. first + n - 1) = n
<1> DEFINE last == first + n - 1
<1>1. first \in Int /\ last \in Int
    OBVIOUS
<1>2. /\ IsFiniteSet(first .. last)
      /\ Cardinality(first .. last) = IF first > last THEN 0 ELSE last - first + 1
    <2> HIDE DEF last
    <2> QED  BY <1>1, FS_Interval
<1> QED  BY <1>2

-----------------------------------------------------------------------------
(* The inductive invariant.                                                *)

Rows ==
    /\ sessions \in [SessionId -> Row \cup {None}]
    /\ IsFiniteSet(Stored)
    /\ events \subseteq Telemetry
    /\ IsFiniteSet(events)

Walk == [at : {"walking", "walked"}, filter : WalkFilter, offset : Nat,
         owed : SUBSET SessionId]
Summary == [at : {"counting", "answered"}, since : Instant,
            figures : Seq(Int \cup {None}), stored : Nat]

ReaderInv == reader \in {Idle} \cup Walk \cup Summary

\* How many rows a listing puts before one of them.
Preceding(filter, s) == {t \in Matching(filter) : Before(t, s)}
Rank(filter, s) == Cardinality(Preceding(filter, s))

\* A filter no commit takes a row out of.
Lasting(filter) == filter.state # "ACTIVE"

\* What a walk has not listed is still to be found, past the offset.
WalkInv ==
    /\ reader.at = "walking" /\ Lasting(reader.filter) =>
          /\ reader.owed \subseteq Matching(reader.filter)
          /\ \A s \in reader.owed : Rank(reader.filter, s) >= reader.offset
    /\ reader.at = "walked" /\ Lasting(reader.filter) => reader.owed = {}

Older(since) == {s \in Stored : sessions[s].connected < since}
Recent(since) == {s \in Stored : sessions[s].connected >= since}
Closed == Stored \ Active
Users == {sessions[s].user : s \in Active}
Connects(since) == {e \in events : e.type = "CONNECT" /\ e.occurred >= since}

\* The sessions counted active are among those stored, until the recent ones are
\* counted, and from then on among these and the older ones.  A session stored at
\* the start was counted active or is closed, for good: of the users counted next,
\* those beyond the count of sessions have sessions opened since.  A CONNECT that
\* was counted as recent stays.
SummaryInv ==
    reader.at \in {"counting", "answered"} =>
    LET f == reader.figures
    IN  /\ reader.at = "counting" => Len(f) \in 0 .. 4
        /\ reader.at = "answered" => Len(f) = 5
        /\ \A n \in 1 .. 4 : n <= Len(f) => f[n] \in Nat
        /\ reader.stored <= Cardinality(Stored)
        /\ Len(f) = 1 => reader.stored <= f[1] + Cardinality(Closed)
        /\ Len(f) >= 2 => f[2] <= f[1] + (Cardinality(Stored) - reader.stored)
        /\ Len(f) \in {1, 2} => f[1] <= Cardinality(Stored)
        /\ Len(f) >= 3 => f[1] <= f[3] + Cardinality(Older(reader.since))
        /\ Len(f) >= 4 /\ f[4] > 0 => \E e \in events : e.occurred >= reader.since
        /\ Len(f) = 5 /\ f[4] > 0 => f[5] \in Instant /\ f[5] >= reader.since

QInv == Rows /\ ReaderInv /\ WalkInv /\ SummaryInv

-----------------------------------------------------------------------------
(* What commits leave of the history.                                      *)

\* Rows stay, with all an order or a filter reads but the state.
Kept ==
    \A s \in Stored :
        /\ s \in Stored'
        /\ sessions'[s].source = sessions[s].source
        /\ sessions'[s].user = sessions[s].user
        /\ sessions'[s].connected = sessions[s].connected
        /\ sessions'[s].state \in {sessions[s].state, "CLOSED"}

Same == UNCHANGED sessions

LEMMA StoredRows ==
    ASSUME Rows, NEW s \in Stored
    PROVE  /\ s \in SessionId
           /\ s \in Int
           /\ sessions[s] \in Row
           /\ sessions[s].connected \in Instant
           /\ sessions[s].connected \in Int
           /\ sessions[s].user \in User
BY QueriesAssumption DEF Rows, Stored, Row

LEMMA WriteKeeps ==
    ASSUME Rows, Write
    PROVE  Rows' /\ Kept
<1>1. PICK s \in SessionId : Open(s) \/ Close(s)
    BY DEF Write
<1>2. UNCHANGED events
    BY DEF Write
<1>3. CASE Open(s)
    <2>1. PICK row \in Row : sessions' = [sessions EXCEPT ![s] = row]
        <3>1. PICK source \in Source, user \in User, at \in Instant :
                  sessions' = [sessions EXCEPT ![s] =
                      [source |-> source, user |-> user, state |-> "ACTIVE",
                       connected |-> at]]
            BY <1>3 DEF Open
        <3> QED  BY <3>1 DEF Row
    <2>2. sessions[s] = None /\ s \notin Stored
        BY <1>3 DEF Open, Stored
    <2>3. sessions' \in [SessionId -> Row \cup {None}]
        BY <2>1 DEF Rows
    <2>4. Stored' = Stored \cup {s}
        BY <2>1, NullAssumption DEF Rows, Stored
    <2>5. IsFiniteSet(Stored')
        BY <2>4, FS_AddElement DEF Rows
    <2>6. \A t \in Stored : sessions'[t] = sessions[t]
        BY <2>1, <2>2 DEF Rows, Stored
    <2> QED  BY <1>2, <2>3, <2>4, <2>5, <2>6 DEF Rows, Kept
<1>4. CASE Close(s)
    <2>1. /\ s \in Stored
          /\ sessions' = [sessions EXCEPT ![s] = [sessions[s] EXCEPT !.state = "CLOSED"]]
        BY <1>4 DEF Close, Active
    <2>2. /\ sessions[s] \in Row
          /\ [sessions[s] EXCEPT !.state = "CLOSED"] \in Row
        BY <2>1, StoredRows DEF Row
    <2>3. sessions' \in [SessionId -> Row \cup {None}]
        BY <2>1, <2>2 DEF Rows
    <2>4. Stored' = Stored
        BY <2>1, <2>2, NullAssumption DEF Rows, Stored
    <2>5. \A t \in Stored : t # s => sessions'[t] = sessions[t]
        BY <2>1 DEF Rows, Stored
    <2>6. sessions'[s] = [sessions[s] EXCEPT !.state = "CLOSED"]
        BY <2>1 DEF Rows, Stored
    <2>7. /\ sessions'[s].source = sessions[s].source
          /\ sessions'[s].user = sessions[s].user
          /\ sessions'[s].connected = sessions[s].connected
          /\ sessions'[s].state = "CLOSED"
        BY <2>2, <2>6 DEF Row
    <2>8. Kept
        BY <2>4, <2>5, <2>7 DEF Kept
    <2> QED  BY <1>2, <2>3, <2>4, <2>8 DEF Rows
<1> QED  BY <1>1, <1>3, <1>4

LEMMA SameKeeps ==
    ASSUME Rows, Same
    PROVE  Kept /\ Stored' = Stored
BY DEF Same, Kept, Rows, Stored

\* Every step keeps the history, and the events.
LEMMA StepKeeps ==
    ASSUME Rows, [Next]_vars
    PROVE  Rows' /\ Kept /\ events \subseteq events'
<1>1. CASE Write
    BY <1>1, WriteKeeps DEF Write
<1>2. CASE StoreEvent
    <2>1. PICK e \in Telemetry \ events : events' = events \cup {e}
        BY <1>2 DEF StoreEvent
    <2>2. Same
        BY <1>2 DEF StoreEvent, Same
    <2>3. IsFiniteSet(events')
        BY <2>1, FS_AddElement DEF Rows
    <2> QED  BY <2>1, <2>2, <2>3, SameKeeps DEF Rows, Same
<1>3. CASE UNCHANGED <<sessions, events>>
    BY <1>3, SameKeeps DEF Rows, Same
<1> QED
    BY <1>1, <1>2, <1>3 DEF Next, StartWalk, NextPage, StartSummary, NextFigure,
       Forget, vars

-----------------------------------------------------------------------------
(* The history page by page.                                               *)

LEMMA MatchingIsFinite ==
    ASSUME Rows, NEW filter
    PROVE  /\ Matching(filter) \subseteq Stored
           /\ IsFiniteSet(Matching(filter))
           /\ \A s \in Matching(filter) : /\ IsFiniteSet(Preceding(filter, s))
                                          /\ Rank(filter, s) \in Nat
<1>1. Matching(filter) \subseteq Stored
    BY DEF Matching
<1>2. IsFiniteSet(Matching(filter))
    BY <1>1, FS_Subset DEF Rows
<1>3. ASSUME NEW s \in Matching(filter)
      PROVE  IsFiniteSet(Preceding(filter, s)) /\ Rank(filter, s) \in Nat
    <2>1. Preceding(filter, s) \subseteq Matching(filter)
        BY DEF Preceding
    <2>2. IsFiniteSet(Preceding(filter, s))
        BY <1>2, <2>1, FS_Subset
    <2> QED  BY <2>2, FS_CardinalityType DEF Rank
<1> QED  BY <1>1, <1>2, <1>3

\* No commit takes a row out of such a query, or moves one before another.
LEMMA RankGrows ==
    ASSUME Rows, Rows', Kept, NEW filter, Lasting(filter)
    PROVE  /\ Matching(filter) \subseteq Matching(filter)'
           /\ \A s \in Matching(filter) : /\ Rank(filter, s)' \in Nat
                                          /\ Rank(filter, s)' >= Rank(filter, s)
<1>1. Matching(filter) \subseteq Matching(filter)'
    <2>1. ASSUME NEW s \in Matching(filter)
          PROVE  s \in Matching(filter)'
        <3>1. /\ s \in Stored /\ s \in Stored'
              /\ sessions'[s].source = sessions[s].source
              /\ sessions'[s].user = sessions[s].user
              /\ sessions'[s].connected = sessions[s].connected
              /\ sessions'[s].state \in {sessions[s].state, "CLOSED"}
            BY DEF Matching, Kept
        <3>2. sessions[s].state \in {"ACTIVE", "CLOSED"}
            BY <3>1, StoredRows DEF Row
        <3>3. Given(filter.state, sessions'[s].state)
            BY <3>1, <3>2 DEF Given, Matching, Lasting
        <3> QED  BY <3>1, <3>3 DEF Matching
    <2> QED  BY <2>1
<1>2. ASSUME NEW s \in Matching(filter)
      PROVE  Rank(filter, s)' \in Nat /\ Rank(filter, s)' >= Rank(filter, s)
    <2>1. Preceding(filter, s) \subseteq Preceding(filter, s)'
        <3>1. ASSUME NEW t \in Preceding(filter, s)
              PROVE  t \in Preceding(filter, s)'
            <4>1. t \in Matching(filter) /\ t \in Stored /\ s \in Stored /\ Before(t, s)
                BY DEF Preceding, Matching
            <4>2. /\ sessions'[s].connected = sessions[s].connected
                  /\ sessions'[t].connected = sessions[t].connected
                BY <4>1 DEF Kept
            <4>3. Before(t, s)'
                BY <4>1, <4>2 DEF Before
            <4> QED  BY <1>1, <4>1, <4>3 DEF Preceding
        <3> QED  BY <3>1
    <2>2. s \in Matching(filter)'
        BY <1>1
    <2>3. IsFiniteSet(Matching(filter)')
        <3>1. Matching(filter)' \subseteq Stored'
            BY DEF Matching
        <3> QED  BY <3>1, FS_Subset DEF Rows
    <2>4. IsFiniteSet(Preceding(filter, s)')
        <3>1. Preceding(filter, s)' \subseteq Matching(filter)'
            BY DEF Preceding
        <3> QED  BY <2>3, <3>1, FS_Subset
    <2>5. Cardinality(Preceding(filter, s)) <= Cardinality(Preceding(filter, s)')
        BY <2>1, <2>4, FS_Subset
    <2>6. /\ Cardinality(Preceding(filter, s)) \in Nat
          /\ Cardinality(Preceding(filter, s)') \in Nat
        BY <2>4, MatchingIsFinite, FS_CardinalityType
    <2> QED  BY <2>5, <2>6 DEF Rank
<1> QED  BY <1>1, <1>2

\* The newest first, of one second the greatest identifier: a total order.
LEMMA BeforeIsTotal ==
    ASSUME Rows, NEW s \in Stored, NEW t \in Stored
    PROVE  /\ ~ Before(s, s)
           /\ s # t => Before(s, t) \/ Before(t, s)
           /\ \A u \in Stored : Before(s, t) /\ Before(t, u) => Before(s, u)
<1>1. \A r \in Stored : r \in Int /\ sessions[r].connected \in Int
    BY StoredRows
<1> QED  BY <1>1 DEF Before

\* A row has the places before its own all taken.
LEMMA PlacesAreTaken ==
    ASSUME Rows, NEW filter, NEW s \in Matching(filter),
           NEW k \in 0 .. Rank(filter, s) - 1
    PROVE  \E t \in Matching(filter) : Rank(filter, t) = k
<1> DEFINE earlier == Preceding(filter, s)
           places == 0 .. Rank(filter, s) - 1
           place == [t \in earlier |-> Rank(filter, t)]
<1>1. /\ earlier \subseteq Matching(filter)
      /\ Matching(filter) \subseteq Stored
      /\ IsFiniteSet(earlier)
      /\ Rank(filter, s) \in Nat
      /\ Cardinality(earlier) = Rank(filter, s)
    BY MatchingIsFinite DEF Preceding, Rank
<1>2. ASSUME NEW t \in Matching(filter), NEW u \in Matching(filter), Before(t, u)
      PROVE  Rank(filter, t) < Rank(filter, u)
    <2>1. Preceding(filter, t) \subseteq Preceding(filter, u)
        BY <1>1, <1>2, BeforeIsTotal DEF Preceding
    <2>2. t \in Preceding(filter, u) /\ t \notin Preceding(filter, t)
        BY <1>1, <1>2, BeforeIsTotal DEF Preceding
    <2>3. /\ IsFiniteSet(Preceding(filter, u))
          /\ Rank(filter, t) \in Nat /\ Rank(filter, u) \in Nat
        BY MatchingIsFinite
    <2>4. /\ Cardinality(Preceding(filter, t)) <= Cardinality(Preceding(filter, u))
          /\ Cardinality(Preceding(filter, u)) # Cardinality(Preceding(filter, t))
        <3>1. Preceding(filter, t) \in SUBSET Preceding(filter, u)
            BY <2>1
        <3> QED  BY <3>1, <2>2, <2>3, FS_Subset
    <2> QED  BY <2>3, <2>4 DEF Rank
<1>3. place \in Injection(earlier, places)
    <2>1. \A t \in earlier : Rank(filter, t) \in places
        <3>1. ASSUME NEW t \in earlier
              PROVE  Rank(filter, t) \in places
            <4>1. Before(t, s) /\ t \in Matching(filter)
                BY DEF Preceding
            <4>2. Rank(filter, t) < Rank(filter, s) /\ Rank(filter, t) \in Nat
                BY <1>2, <4>1, MatchingIsFinite
            <4> QED  BY <1>1, <4>2
        <3> QED  BY <3>1
    <2>2. ASSUME NEW t \in earlier, NEW u \in earlier, t # u
          PROVE  Rank(filter, t) # Rank(filter, u)
        <3>1. Before(t, u) \/ Before(u, t)
            BY <2>2, <1>1, BeforeIsTotal
        <3>2. Rank(filter, t) \in Nat /\ Rank(filter, u) \in Nat
            BY <1>1, MatchingIsFinite
        <3> QED  BY <1>1, <1>2, <3>1, <3>2
    <2> HIDE DEF earlier, places
    <2> QED  BY <2>1, <2>2 DEF Injection, IsInjective
<1>4. IsFiniteSet(places) /\ Cardinality(places) = Cardinality(earlier)
    <2>1. IsFiniteSet(places) /\ Cardinality(places) = Rank(filter, s)
        <3>1. 0 + Rank(filter, s) - 1 = Rank(filter, s) - 1
            BY <1>1
        <3> QED  BY <3>1, <1>1, Places
    <2> QED  BY <2>1, <1>1
<1>5. place \in Surjection(earlier, places)
    <2> HIDE DEF earlier, places, place
    <2> QED  BY <1>3, <1>4, FS_Injection
<1>6. PICK t \in earlier : place[t] = k
    BY <1>5 DEF Surjection
<1> QED  BY <1>1, <1>6

LEMMA PageByRank ==
    ASSUME NEW filter, NEW limit, NEW offset
    PROVE  ListSessions(filter, limit, offset) =
               {s \in Matching(filter) : Rank(filter, s) \in offset .. offset + limit - 1}
BY DEF ListSessions, OnPage, Rank, Preceding

\* A page that comes back short is the last: a row past it would have rows in
\* every place of the page before it.
LEMMA ShortPageIsLast ==
    ASSUME Rows, NEW filter, NEW offset \in Nat,
           NEW s \in Matching(filter), Rank(filter, s) >= offset + PageSize
    PROVE  Cardinality(ListSessions(filter, PageSize, offset)) >= PageSize
<1> DEFINE page == ListSessions(filter, PageSize, offset)
           places == offset .. offset + PageSize - 1
           place == [t \in page |-> Rank(filter, t)]
<1>1. PageSize \in Nat \ {0}
    BY QueriesAssumption
<1>2. page = {t \in Matching(filter) : Rank(filter, t) \in places}
    BY PageByRank, Zenon
<1>3. IsFiniteSet(page)
    <2>1. page \subseteq Matching(filter)
        BY <1>2
    <2> QED  BY <2>1, MatchingIsFinite, FS_Subset
<1>4. place \in Surjection(page, places)
    <2>1. ASSUME NEW k \in places
          PROVE  \E t \in page : Rank(filter, t) = k
        <3>1. k \in 0 .. Rank(filter, s) - 1
            BY <1>1, MatchingIsFinite
        <3>2. PICK t \in Matching(filter) : Rank(filter, t) = k
            BY <3>1, PlacesAreTaken
        <3> QED  BY <1>2, <3>2
    <2>2. \A t \in page : Rank(filter, t) \in places
        BY <1>2
    <2> HIDE DEF page, places
    <2> QED  BY <2>1, <2>2 DEF Surjection
<1>5. Cardinality(places) <= Cardinality(page)
    <2> HIDE DEF page, places, place
    <2> QED  BY <1>3, <1>4, FS_Surjection
<1>6. Cardinality(places) = PageSize
    BY <1>1, Places
<1> QED  BY <1>5, <1>6

LEMMA WalkStep ==
    ASSUME Rows, ReaderInv, WalkInv, [Next]_vars
    PROVE  WalkInv'
<1>1. Rows' /\ Kept
    BY StepKeeps
<1>2. CASE UNCHANGED reader
    <2>1. ASSUME NEW filter, filter = reader.filter,
                 reader.at = "walking", Lasting(filter)
          PROVE  /\ reader.owed \subseteq Matching(filter)'
                 /\ \A s \in reader.owed : Rank(filter, s)' >= reader.offset
        <3>1. /\ reader.owed \subseteq Matching(filter)
              /\ \A s \in reader.owed : Rank(filter, s) >= reader.offset
              /\ reader.offset \in Nat
            BY <2>1 DEF WalkInv, ReaderInv, Idle, Walk, Summary
        <3>2. /\ Matching(filter) \subseteq Matching(filter)'
              /\ \A s \in Matching(filter) : /\ Rank(filter, s)' \in Nat
                                             /\ Rank(filter, s)' >= Rank(filter, s)
            BY <1>1, <2>1, RankGrows
        <3>3. \A s \in Matching(filter) : Rank(filter, s) \in Nat
            BY MatchingIsFinite
        <3> QED  BY <3>1, <3>2, <3>3
    <2> QED  BY <1>2, <2>1 DEF WalkInv, Lasting
<1>3. CASE StartWalk
    <2>1. PICK filter \in WalkFilter :
              reader' = [at |-> "walking", filter |-> filter, offset |-> 0,
                         owed |-> Matching(filter)]
        BY <1>3 DEF StartWalk
    <2>2. /\ Matching(filter)' = Matching(filter)
          /\ \A s \in Matching(filter) : Rank(filter, s)' = Rank(filter, s)
        BY <1>3 DEF StartWalk, Matching, Stored, Rank, Preceding, Before, Given
    <2>3. \A s \in Matching(filter) : Rank(filter, s) \in Nat
        BY MatchingIsFinite
    <2> QED  BY <2>1, <2>2, <2>3 DEF WalkInv, Lasting
<1>4. CASE NextPage
    <2> DEFINE page == ListSessions(reader.filter, PageSize, reader.offset)
    <2>1. /\ reader \in Walk
          /\ reader.at = "walking"
          /\ reader.offset \in Nat
          /\ PageSize \in Nat \ {0}
        BY <1>4, QueriesAssumption DEF NextPage, ReaderInv, Idle, Walk, Summary
    <2>2. /\ UNCHANGED sessions
          /\ reader' = [reader EXCEPT
                 !.at = IF Cardinality(page) < PageSize THEN "walked" ELSE @,
                 !.offset = @ + PageSize,
                 !.owed = @ \ page]
        BY <1>4 DEF NextPage
    <2>3. /\ reader'.filter = reader.filter
          /\ reader'.offset = reader.offset + PageSize
          /\ reader'.owed = reader.owed \ page
          /\ Cardinality(page) < PageSize => reader'.at = "walked"
          /\ ~ (Cardinality(page) < PageSize) => reader'.at = "walking"
        BY <2>1, <2>2 DEF Walk
    <2>4. ASSUME NEW filter, filter = reader.filter, Lasting(filter)
          PROVE  /\ reader'.at = "walking" =>
                        /\ reader'.owed \subseteq Matching(filter)'
                        /\ \A s \in reader'.owed : Rank(filter, s)' >= reader'.offset
                 /\ reader'.at = "walked" => reader'.owed = {}
        <3>1. /\ reader.owed \subseteq Matching(filter)
              /\ \A s \in reader.owed : Rank(filter, s) >= reader.offset
            BY <2>1, <2>4 DEF WalkInv
        <3>2. \A s \in Matching(filter) : Rank(filter, s) \in Nat
            BY MatchingIsFinite
        <3>3. page = {s \in Matching(filter) :
                          Rank(filter, s) \in reader.offset .. reader.offset + PageSize - 1}
            BY <2>4, PageByRank
        <3>4. \A s \in reader'.owed : /\ s \in Matching(filter)
                                      /\ Rank(filter, s) >= reader.offset + PageSize
            <4> HIDE DEF page
            <4> QED  BY <2>1, <2>3, <3>1, <3>2, <3>3
        <3>5. Cardinality(page) < PageSize => reader'.owed = {}
            <4>1. \A s \in reader'.owed : Cardinality(page) >= PageSize
                BY <2>1, <2>4, <3>4, ShortPageIsLast
            <4>2. IsFiniteSet(page)
                <5>1. page \subseteq Matching(filter)
                    BY <3>3
                <5> QED  BY <5>1, MatchingIsFinite, FS_Subset
            <4>3. Cardinality(page) \in Nat
                BY <4>2, FS_CardinalityType
            <4> QED  BY <2>1, <4>1, <4>3
        <3>6. /\ Matching(filter)' = Matching(filter)
              /\ \A s \in Matching(filter) : Rank(filter, s)' = Rank(filter, s)
            BY <2>2 DEF Matching, Stored, Rank, Preceding, Before
        <3> HIDE DEF page
        <3> QED  BY <2>3, <3>4, <3>5, <3>6
    <2> HIDE DEF page
    <2> QED  BY <2>3, <2>4 DEF WalkInv, Lasting
<1>5. CASE StartSummary \/ Forget
    BY <1>5 DEF StartSummary, Forget, WalkInv, Idle
<1>6. CASE NextFigure
    <2>1. reader.at = "counting" /\ reader \in Summary
        BY <1>6 DEF NextFigure, ReaderInv, Idle, Walk
    <2>2. reader'.at \in {"counting", "answered"}
        BY <1>6, <2>1 DEF NextFigure, Summary
    <2> QED  BY <2>2 DEF WalkInv
<1> QED
    BY <1>2, <1>3, <1>4, <1>5, <1>6 DEF Next, Write, StoreEvent, vars

-----------------------------------------------------------------------------
(* The summary figure by figure.                                           *)

LEMMA Tables ==
    ASSUME Rows, NEW since \in Instant
    PROVE  /\ IsFiniteSet(Active)
           /\ IsFiniteSet(Older(since))
           /\ IsFiniteSet(Connects(since))
           /\ Cardinality(Stored) = Cardinality(Recent(since)) + Cardinality(Older(since))
           /\ Cardinality(Active) \in Nat
           /\ Cardinality(Active) <= Cardinality(Stored)
           /\ Cardinality(Stored) \in Nat
           /\ Cardinality(Recent(since)) \in Nat
           /\ Cardinality(Older(since)) \in Nat
           /\ Cardinality(Connects(since)) \in Nat
           /\ Cardinality(Users) \in Nat
           /\ Cardinality(Users) <= Cardinality(Active)
           /\ Cardinality(Closed) \in Nat
           /\ Cardinality(Stored) = Cardinality(Active) + Cardinality(Closed)
<1>1. IsFiniteSet(Stored) /\ IsFiniteSet(events)
    BY DEF Rows
<1>2. /\ Active \subseteq Stored
      /\ Older(since) \subseteq Stored
      /\ Recent(since) \subseteq Stored
      /\ Connects(since) \subseteq events
    BY DEF Active, Older, Recent, Connects
<1>3. /\ IsFiniteSet(Active)
      /\ IsFiniteSet(Older(since))
      /\ IsFiniteSet(Recent(since))
      /\ IsFiniteSet(Connects(since))
      /\ Cardinality(Active) <= Cardinality(Stored)
    BY <1>1, <1>2, FS_Subset
<1>4. Cardinality(Stored) = Cardinality(Recent(since)) + Cardinality(Older(since))
    <2>1. since \in Int /\ \A s \in Stored : sessions[s].connected \in Int
        BY QueriesAssumption, StoredRows
    <2>2. /\ Recent(since) \cup Older(since) = Stored
          /\ Recent(since) \cap Older(since) = {}
        BY <2>1 DEF Recent, Older
    <2>3. Cardinality(Recent(since) \cup Older(since)) =
              Cardinality(Recent(since)) + Cardinality(Older(since))
                  - Cardinality(Recent(since) \cap Older(since))
        BY <1>3, FS_Union
    <2>4. /\ Cardinality(Recent(since)) \in Nat
          /\ Cardinality(Older(since)) \in Nat
        BY <1>3, FS_CardinalityType
    <2>5. /\ Cardinality(Recent(since) \cup Older(since)) = Cardinality(Stored)
          /\ Cardinality(Recent(since) \cap Older(since)) = 0
        BY <2>2, FS_EmptySet, Zenon
    <2> QED  BY <2>3, <2>4, <2>5
<1>5. Cardinality(Users) \in Nat /\ Cardinality(Users) <= Cardinality(Active)
    <2> DEFINE user == [s \in Active |-> sessions[s].user]
    <2>1. /\ Cardinality({user[s] : s \in Active}) \in Nat
          /\ Cardinality({user[s] : s \in Active}) <= Cardinality(Active)
        <3> HIDE DEF user
        <3> QED  BY <1>3, ImageIsFinite
    <2>2. {user[s] : s \in Active} = Users
        BY DEF Users
    <2> QED  BY <2>1, <2>2, Zenon
<1>6. /\ Cardinality(Closed) \in Nat
      /\ Cardinality(Stored) = Cardinality(Active) + Cardinality(Closed)
    <2>1. IsFiniteSet(Closed) /\ Cardinality(Closed) \in Nat
        BY <1>1, FS_Subset, FS_CardinalityType DEF Closed
    <2>2. /\ Active \cup Closed = Stored
          /\ Active \cap Closed = {}
        BY <1>2 DEF Closed
    <2>3. Cardinality(Active \cup Closed) =
              Cardinality(Active) + Cardinality(Closed) - Cardinality(Active \cap Closed)
        BY <1>3, <2>1, FS_Union
    <2>4. /\ Cardinality(Active \cup Closed) = Cardinality(Stored)
          /\ Cardinality(Active \cap Closed) = 0
        BY <2>2, FS_EmptySet, Zenon
    <2>5. Cardinality(Active) \in Nat
        BY <1>3, FS_CardinalityType
    <2> QED  BY <2>1, <2>3, <2>4, <2>5
<1> QED  BY <1>1, <1>3, <1>4, <1>5, <1>6, FS_CardinalityType

\* What a figure is, in the order they are read.
LEMMA FigureValue ==
    ASSUME Rows, NEW since \in Instant
    PROVE  /\ Len(Order) = 5
           /\ Figure(Order[1], since) = Cardinality(Active)
           /\ Figure(Order[2], since) = Cardinality(Users)
           /\ Figure(Order[3], since) = Cardinality(Recent(since))
           /\ Figure(Order[4], since) = Cardinality(Connects(since))
           /\ Figure(Order[5], since) =
                  IF events = {} THEN None ELSE Max({e.occurred : e \in events})
<1>1. /\ Len(Order) = 5
      /\ Order[1] = "active_sessions"
      /\ Order[2] = "active_users"
      /\ Order[3] = "sessions_24h"
      /\ Order[4] = "connect_events_24h"
      /\ Order[5] = "last_event_at"
    BY DEF Order
<1> HIDE DEF Order
<1> QED  BY <1>1 DEF Figure, Recent, Connects, Users

\* No event is newer than the last.
LEMMA LastIsLast ==
    ASSUME Rows, NEW since \in Instant, NEW e \in events
    PROVE  /\ e.occurred \in Int
           /\ Figure(Order[5], since) \in Instant
           /\ Figure(Order[5], since) >= e.occurred
<1> DEFINE times == {d.occurred : d \in events}
           last == Max(times)
<1>1. times \subseteq Instant /\ Instant \subseteq Int /\ e.occurred \in times
    BY QueriesAssumption DEF Rows
<1>2. IsFiniteSet(times)
    <2> DEFINE time == [d \in events |-> d.occurred]
    <2>1. IsFiniteSet({time[d] : d \in events})
        <3> HIDE DEF time
        <3> QED  BY ImageIsFinite DEF Rows
    <2>2. {time[d] : d \in events} = times
        OBVIOUS
    <2> QED  BY <2>1, <2>2
<1>3. last \in times /\ last >= e.occurred
    <2> HIDE DEF times
    <2> QED  BY <1>1, <1>2, MaxIsLargest
<1>4. Figure(Order[5], since) = last
    BY FigureValue
<1> HIDE DEF times, last
<1> QED  BY <1>1, <1>3, <1>4

LEMMA NextFigureStep ==
    ASSUME Rows, ReaderInv, SummaryInv, NextFigure
    PROVE  reader' \in Summary /\ SummaryInv'
<1> DEFINE f == reader.figures
           since == reader.since
           n == Len(f) + 1
           figure == Figure(Order[n], since)
           at == IF n = 5 THEN "answered" ELSE "counting"
<1>1. /\ reader \in Summary
      /\ reader.at = "counting"
      /\ since \in Instant
      /\ f \in Seq(Int \cup {None})
    BY DEF NextFigure, ReaderInv, Idle, Walk, Summary
<1>2. n \in 1 .. 5
    <2>1. Len(f) \in 0 .. 4
        BY <1>1 DEF SummaryInv
    <2>2. \A k \in 0 .. 4 : k + 1 \in 1 .. 5
        OBVIOUS
    <2> QED  BY <2>1, <2>2, Zenon
<1>3. Len(Order) = 5
    BY DEF Order
<1>4. reader' = [at |-> at, since |-> since, figures |-> Append(f, figure),
                 stored |-> reader.stored]
    <2>1. reader' = [reader EXCEPT !.at = at, !.figures = Append(f, figure)]
        BY <1>1, <1>3 DEF NextFigure
    <2> HIDE DEF figure, at
    <2> QED  BY <1>1, <2>1 DEF Summary
<1>5. UNCHANGED <<sessions, events>>
    BY DEF NextFigure
<1>6. /\ n = 1 => figure = Cardinality(Active)
      /\ n = 2 => figure = Cardinality(Users)
      /\ n = 3 => figure = Cardinality(Recent(since))
      /\ n = 4 => figure = Cardinality(Connects(since))
      /\ n = 5 => figure = IF events = {} THEN None ELSE Max({e.occurred : e \in events})
    BY <1>1, FigureValue
<1>7. n \in 1 .. 4 => figure \in Nat
    BY <1>1, <1>2, <1>6, Tables
<1>8. ASSUME n = 5
      PROVE  /\ figure \in Int \cup {None}
             /\ \A e \in events : /\ e.occurred \in Int
                                  /\ figure \in Instant /\ figure \in Int
                                  /\ figure >= e.occurred
    <2>1. \A e \in events : /\ e.occurred \in Int
                            /\ figure \in Instant /\ figure \in Int
                            /\ figure >= e.occurred
        BY <1>1, <1>8, LastIsLast, QueriesAssumption
    <2>2. events = {} => figure = None
        BY <1>6, <1>8
    <2> QED  BY <2>1, <2>2
<1>9. reader' \in Summary
    <2> HIDE DEF figure, n
    <2>1. figure \in Int \cup {None}
        BY <1>2, <1>7, <1>8
    <2>2. Append(f, figure) \in Seq(Int \cup {None})
        BY <1>1, <2>1
    <2>3. at \in {"counting", "answered"}
        OBVIOUS
    <2>4. reader.stored \in Nat
        BY <1>1 DEF Summary
    <2> QED  BY <1>1, <1>4, <2>2, <2>3, <2>4 DEF Summary
<1>10. SummaryInv'
    <2> DEFINE g == Append(f, figure)
               stored == reader.stored
    <2>1. /\ Len(g) = n
          /\ \A k \in 1 .. n - 1 : g[k] = f[k]
          /\ g[n] = figure
          /\ n - 1 = Len(f)
        <3> HIDE DEF f, figure
        <3> QED  BY <1>1
    <2>2. /\ reader'.at = at /\ reader'.since = since /\ reader'.figures = g
          /\ reader'.stored = stored
          /\ Older(since)' = Older(since)
          /\ Stored' = Stored
          /\ Closed' = Closed
        BY <1>4, <1>5 DEF Older, Stored, Closed, Active
    <2>3. /\ stored \in Nat
          /\ stored <= Cardinality(Stored)
          /\ Len(f) = 1 => stored <= f[1] + Cardinality(Closed)
          /\ Len(f) >= 2 => f[2] <= f[1] + (Cardinality(Stored) - stored)
          /\ \A k \in 1 .. 4 : k <= Len(f) => f[k] \in Nat
          /\ Len(f) \in {1, 2} => f[1] <= Cardinality(Stored)
          /\ Len(f) >= 3 => f[1] <= f[3] + Cardinality(Older(since))
          /\ Len(f) >= 4 /\ f[4] > 0 => \E e \in events : e.occurred >= since
        BY <1>1 DEF SummaryInv, Summary
    <2>4. since \in Int
        BY <1>1, QueriesAssumption
    <2>5. \A k \in 1 .. 4 : k <= n => g[k] \in Nat
        <3> HIDE DEF n, g, f, figure
        <3> QED  BY <1>2, <1>7, <2>1, <2>3
    <2>6. n \in {1, 2} => g[1] <= Cardinality(Stored)
        <3> HIDE DEF n, g, f, figure
        <3>1. n = 1 => g[1] = Cardinality(Active)
            BY <1>6, <2>1
        <3>2. n = 2 => g[1] = f[1] /\ Len(f) = 1
            BY <2>1
        <3> QED  BY <1>1, <2>3, <3>1, <3>2, Tables
    <2>7. n >= 3 => g[1] <= g[3] + Cardinality(Older(since))
        <3> HIDE DEF n, g, f, figure
        <3>1. n = 3 => g[1] = f[1] /\ Len(f) = 2 /\ g[3] = Cardinality(Recent(since))
            BY <1>6, <2>1
        <3>2. n >= 4 => g[1] = f[1] /\ g[3] = f[3] /\ Len(f) >= 3
            BY <1>2, <2>1
        <3>3. Cardinality(Stored) = Cardinality(Recent(since)) + Cardinality(Older(since))
            BY <1>1, Tables
        <3>4. n = 3 \/ n >= 4 \/ ~ (n >= 3)
            BY <1>2
        <3> QED  BY <2>3, <3>1, <3>2, <3>3, <3>4
    <2>8. n >= 4 /\ g[4] > 0 => \E e \in events : e.occurred >= since
        <3> HIDE DEF n, g, f, figure
        <3>1. ASSUME n = 4, g[4] > 0
              PROVE  \E e \in events : e.occurred >= since
            <4>1. Cardinality(Connects(since)) # 0
                BY <1>6, <2>1, <3>1
            <4>2. Connects(since) # {}
                BY <4>1, FS_EmptySet
            <4> QED  BY <4>2 DEF Connects
        <3>2. n = 5 => g[4] = f[4] /\ Len(f) = 4
            BY <2>1
        <3>3. n >= 4 => n = 4 \/ n = 5
            BY <1>2
        <3> QED  BY <2>3, <3>1, <3>2, <3>3
    <2>9. n = 5 /\ g[4] > 0 => g[5] \in Instant /\ g[5] >= since
        <3> HIDE DEF n, g, f, figure
        <3>1. ASSUME n = 5, g[4] > 0
              PROVE  g[5] \in Instant /\ g[5] >= since
            <4>1. PICK e \in events : e.occurred >= since
                BY <2>8, <3>1
            <4>2. g[5] = figure
                BY <2>1, <3>1
            <4> QED  BY <1>8, <2>4, <3>1, <4>1, <4>2
        <3> QED  BY <3>1
    <2>10. n = 1 => stored <= g[1] + Cardinality(Closed)
        <3> HIDE DEF n, g, f, figure, stored
        <3>1. n = 1 => g[1] = Cardinality(Active)
            BY <1>6, <2>1
        <3>2. Cardinality(Stored) = Cardinality(Active) + Cardinality(Closed)
            BY <1>1, Tables
        <3> QED  BY <2>3, <3>1, <3>2
    <2>11. n >= 2 => g[2] <= g[1] + (Cardinality(Stored) - stored)
        <3> HIDE DEF n, g, f, figure, stored
        <3>1. n = 2 => g[1] = f[1] /\ Len(f) = 1 /\ g[2] = Cardinality(Users)
            BY <1>6, <2>1
        <3>2. n >= 3 => g[1] = f[1] /\ g[2] = f[2] /\ Len(f) >= 2
            BY <1>2, <2>1
        <3>3. /\ Cardinality(Users) \in Nat
              /\ Cardinality(Users) <= Cardinality(Active)
              /\ Cardinality(Active) \in Nat
              /\ Cardinality(Closed) \in Nat
              /\ Cardinality(Stored) = Cardinality(Active) + Cardinality(Closed)
            BY <1>1, Tables
        <3>4. ASSUME n = 2
              PROVE  f[1] \in Nat
            <4>1. 1 \in 1 .. 4 /\ 1 <= Len(f)
                BY <3>1, <3>4
            <4> QED  BY <2>3, <4>1
        <3>5. n = 2 \/ n >= 3 \/ ~ (n >= 2)
            BY <1>2
        <3> QED  BY <2>3, <3>1, <3>2, <3>3, <3>4, <3>5
    <2>12. at = "counting" => n \in 0 .. 4
        <3> HIDE DEF n
        <3> QED  BY <1>2
    <2>13. at = "answered" => n = 5
        OBVIOUS
    <2> DEFINE h == reader'.figures
    <2>14. /\ Len(h) = n
           /\ \A k \in 1 .. 4 : k <= Len(h) => h[k] \in Nat
           /\ stored <= Cardinality(Stored')
           /\ Len(h) = 1 => stored <= h[1] + Cardinality(Closed')
           /\ Len(h) >= 2 => h[2] <= h[1] + (Cardinality(Stored') - stored)
           /\ Len(h) \in {1, 2} => h[1] <= Cardinality(Stored')
           /\ Len(h) >= 3 => h[1] <= h[3] + Cardinality(Older(since)')
           /\ Len(h) >= 4 /\ h[4] > 0 => \E e \in events' : e.occurred >= since
           /\ Len(h) = 5 /\ h[4] > 0 => h[5] \in Instant /\ h[5] >= since
        <3> HIDE DEF n, g, f, at, since, stored
        <3> QED  BY <1>5, <2>1, <2>2, <2>3, <2>5, <2>6, <2>7, <2>8, <2>9, <2>10, <2>11
    <2> HIDE DEF n, g, f, at, stored
    <2> QED  BY <2>2, <2>12, <2>13, <2>14, Zenon DEF SummaryInv
<1> QED  BY <1>9, <1>10

LEMMA TypeStep ==
    ASSUME Rows, ReaderInv, SummaryInv, [Next]_vars
    PROVE  ReaderInv'
<1>1. CASE UNCHANGED reader
    BY <1>1 DEF ReaderInv
<1>2. CASE StartWalk
    <2>1. PICK filter \in WalkFilter :
              reader' = [at |-> "walking", filter |-> filter, offset |-> 0,
                         owed |-> Matching(filter)]
        BY <1>2 DEF StartWalk
    <2>2. Matching(filter) \in SUBSET SessionId
        BY DEF Matching, Stored
    <2> QED  BY <2>1, <2>2 DEF ReaderInv, Walk
<1>3. CASE NextPage
    <2> DEFINE page == ListSessions(reader.filter, PageSize, reader.offset)
               at == IF Cardinality(page) < PageSize THEN "walked" ELSE reader.at
    <2>1. reader \in Walk
        BY <1>3 DEF NextPage, ReaderInv, Idle, Summary
    <2>2. at \in {"walking", "walked"}
        BY <2>1 DEF Walk
    <2>3. reader' = [reader EXCEPT !.at = at, !.offset = reader.offset + PageSize,
                                   !.owed = reader.owed \ page]
        BY <1>3 DEF NextPage
    <2>4. /\ reader.filter \in WalkFilter
          /\ reader.offset + PageSize \in Nat
          /\ reader.owed \ page \in SUBSET SessionId
        BY <2>1, QueriesAssumption DEF Walk
    <2> HIDE DEF at, page
    <2>5. reader' = [at |-> at, filter |-> reader.filter,
                     offset |-> reader.offset + PageSize, owed |-> reader.owed \ page]
        BY <2>1, <2>3 DEF Walk
    <2> QED  BY <2>2, <2>4, <2>5 DEF ReaderInv, Walk
<1>4. CASE StartSummary
    <2>1. Cardinality(Stored) \in Nat
        BY FS_CardinalityType DEF Rows
    <2> QED  BY <1>4, <2>1 DEF StartSummary, ReaderInv, Summary
<1>5. CASE NextFigure
    BY <1>5, NextFigureStep DEF ReaderInv
<1>6. CASE Forget
    BY <1>6 DEF Forget, ReaderInv
<1> QED
    BY <1>1, <1>2, <1>3, <1>4, <1>5, <1>6 DEF Next, Write, StoreEvent, vars

\* Commits leave no fewer rows, of all, of the older and of the closed.
LEMMA TablesGrow ==
    ASSUME Rows, Rows', Kept, NEW since
    PROVE  /\ Cardinality(Stored) <= Cardinality(Stored')
           /\ Cardinality(Older(since)) <= Cardinality(Older(since)')
           /\ Cardinality(Closed) <= Cardinality(Closed')
           /\ Cardinality(Closed) \in Nat /\ Cardinality(Closed') \in Nat
           /\ Cardinality(Stored) \in Nat /\ Cardinality(Stored') \in Nat
           /\ Cardinality(Older(since)) \in Nat /\ Cardinality(Older(since)') \in Nat
<1>1. /\ Stored \subseteq Stored'
      /\ Older(since) \subseteq Stored
      /\ Older(since)' \subseteq Stored'
      /\ Older(since) \subseteq Older(since)'
      /\ Closed \subseteq Stored
      /\ Closed' \subseteq Stored'
      /\ Closed \subseteq Closed'
    BY DEF Kept, Older, Closed, Active
<1>2. IsFiniteSet(Stored) /\ IsFiniteSet(Stored')
    BY DEF Rows
<1>3. /\ IsFiniteSet(Older(since)) /\ IsFiniteSet(Older(since)')
      /\ IsFiniteSet(Closed) /\ IsFiniteSet(Closed')
    BY <1>1, <1>2, FS_Subset
<1> QED  BY <1>1, <1>2, <1>3, FS_Subset, FS_CardinalityType

LEMMA SummaryStep ==
    ASSUME Rows, ReaderInv, SummaryInv, [Next]_vars
    PROVE  SummaryInv'
<1>1. Rows' /\ Kept /\ events \subseteq events'
    BY StepKeeps
<1>2. CASE UNCHANGED reader
    <2>1. ASSUME reader.at \in {"counting", "answered"}
          PROVE  SummaryInv'
        <3> DEFINE f == reader.figures
                   since == reader.since
                   stored == reader.stored
        <3>1. /\ since \in Instant
              /\ stored \in Nat
              /\ f \in Seq(Int \cup {None})
            BY <2>1 DEF ReaderInv, Idle, Walk, Summary
        <3>2. /\ reader.at = "counting" => Len(f) \in 0 .. 4
              /\ reader.at = "answered" => Len(f) = 5
              /\ \A n \in 1 .. 4 : n <= Len(f) => f[n] \in Nat
              /\ stored <= Cardinality(Stored)
              /\ Len(f) = 1 => stored <= f[1] + Cardinality(Closed)
              /\ Len(f) >= 2 => f[2] <= f[1] + (Cardinality(Stored) - stored)
              /\ Len(f) \in {1, 2} => f[1] <= Cardinality(Stored)
              /\ Len(f) >= 3 => f[1] <= f[3] + Cardinality(Older(since))
              /\ Len(f) >= 4 /\ f[4] > 0 => \E e \in events : e.occurred >= since
              /\ Len(f) = 5 /\ f[4] > 0 => f[5] \in Instant /\ f[5] >= since
            BY <2>1, Zenon DEF SummaryInv
        <3>3. Len(f) \in Nat
            BY <3>1
        <3>4. /\ Cardinality(Stored) <= Cardinality(Stored')
              /\ Cardinality(Stored) \in Nat
              /\ Cardinality(Stored') \in Nat
              /\ Cardinality(Older(since)) <= Cardinality(Older(since)')
              /\ Cardinality(Older(since)) \in Nat
              /\ Cardinality(Older(since)') \in Nat
              /\ Cardinality(Closed) <= Cardinality(Closed')
              /\ Cardinality(Closed) \in Nat
              /\ Cardinality(Closed') \in Nat
            <4>1. ASSUME NEW at, at = since
                  PROVE  /\ Cardinality(Older(at)) <= Cardinality(Older(at)')
                         /\ Cardinality(Older(at)) \in Nat
                         /\ Cardinality(Older(at)') \in Nat
                BY <1>1, TablesGrow
            <4>2. since' = since
                BY <1>2
            <4>3. Cardinality(Older(since)') \in Nat /\
                  Cardinality(Older(since)) <= Cardinality(Older(since)')
                BY <4>1, <4>2 DEF Older
            <4> QED  BY <1>1, <4>1, <4>3, TablesGrow
        <3> HIDE DEF f, since, stored
        <3>5. Len(f) \in {1, 2} => f[1] <= Cardinality(Stored')
            <4>1. Len(f) \in {1, 2} => f[1] \in Nat
                BY <3>2
            <4> QED  BY <3>2, <3>4, <4>1
        <3>6. Len(f) >= 3 => f[1] <= f[3] + Cardinality(Older(since)')
            <4>1. Len(f) >= 3 => f[1] \in Nat /\ f[3] \in Nat
                BY <3>2, <3>3
            <4> QED  BY <3>2, <3>4, <4>1
        <3>7. Len(f) >= 4 /\ f[4] > 0 => \E e \in events' : e.occurred >= since
            BY <1>1, <3>2
        <3>8. stored <= Cardinality(Stored')
            BY <3>1, <3>2, <3>4
        <3>9. Len(f) = 1 => stored <= f[1] + Cardinality(Closed')
            <4>1. Len(f) = 1 => f[1] \in Nat
                BY <3>2
            <4> QED  BY <3>1, <3>2, <3>4, <4>1
        <3>10. Len(f) >= 2 => f[2] <= f[1] + (Cardinality(Stored') - stored)
            <4>1. Len(f) >= 2 => f[1] \in Nat /\ f[2] \in Nat
                BY <3>2, <3>3
            <4>2. Len(f) >= 2 => f[2] <= f[1] + (Cardinality(Stored) - stored)
                BY <3>2
            <4> QED  BY <3>1, <3>4, <4>1, <4>2
        <3>11. /\ f' = f /\ since' = since /\ stored' = stored
               /\ reader'.at = reader.at
            BY <1>2 DEF f, since, stored
        <3> QED
            BY <3>2, <3>5, <3>6, <3>7, <3>8, <3>9, <3>10, <3>11, Zenon
            DEF SummaryInv, f, since, stored
    <2> QED  BY <1>2, <2>1 DEF SummaryInv
<1>3. CASE StartWalk \/ Forget
    BY <1>3 DEF StartWalk, Forget, SummaryInv, Idle
<1>4. CASE NextPage
    <2>1. reader \in Walk
        BY <1>4 DEF NextPage, ReaderInv, Idle, Summary
    <2>2. reader'.at = reader.at \/ reader'.at = "walked"
        BY <1>4, <2>1 DEF NextPage, Walk
    <2> QED  BY <2>1, <2>2 DEF SummaryInv, Walk
<1>5. CASE StartSummary
    <2>1. PICK since \in Instant :
              reader' = [at |-> "counting", since |-> since, figures |-> <<>>,
                         stored |-> Cardinality(Stored)]
        BY <1>5 DEF StartSummary
    <2>2. Len(<<>>) = 0
        OBVIOUS
    <2>3. /\ reader'.at = "counting"
          /\ Len(reader'.figures) = 0
          /\ reader'.stored = Cardinality(Stored)
        BY <2>1, <2>2
    <2>4. Stored' = Stored /\ Cardinality(Stored) \in Nat
        BY <1>5, FS_CardinalityType DEF StartSummary, Stored, Rows
    <2> QED  BY <2>3, <2>4 DEF SummaryInv
<1>6. CASE NextFigure
    BY <1>6, NextFigureStep
<1> QED
    BY <1>2, <1>3, <1>4, <1>5, <1>6 DEF Next, Write, StoreEvent, vars

-----------------------------------------------------------------------------

\* The inductive invariant holds in every state: rows, readers, the distance of a
\* walk from what it still owes, and what the figures read so far are bounded by.
THEOREM QueriesInvariance == Spec => []QInv
<1>1. Init => QInv
    <2> SUFFICES ASSUME Init PROVE QInv
        OBVIOUS
    <2>1. Stored = {}
        BY DEF Init, Stored
    <2>2. IsFiniteSet(Stored) /\ IsFiniteSet(events)
        BY <2>1, FS_EmptySet DEF Init
    <2>3. reader = Idle /\ reader.at = "idle"
        BY DEF Init, Idle
    <2> QED
        BY <2>2, <2>3 DEF Init, QInv, Rows, ReaderInv, WalkInv, SummaryInv
<1>2. QInv /\ [Next]_vars => QInv'
    BY StepKeeps, TypeStep, WalkStep, SummaryStep DEF QInv
<1> QED  BY <1>1, <1>2, PTL DEF Spec

\* Whatever is committed while a history is read by offset (queries.py:112-113),
\* a walk of a filter that keeps its rows has listed, when a page comes back short,
\* all that its first query would have matched: what is not listed yet ranks no
\* lower than the offset, and a row past the page fills it.
THEOREM CompleteWalk == Spec => []WalkMissesNothing
<1>1. QInv => WalkMissesNothing
    BY DEF QInv, WalkInv, WalkMissesNothing, Lasting
<1> QED  BY <1>1, QueriesInvariance, PTL

\* The figures of one summary differ by no more than what is committed between
\* them, each being of a state of its own (queries.py:54-68): sessions and events
\* are added, never removed, and a session that ended stays so.
THEOREM CoherentSummary == Spec => []SummaryHoldsTogether
<1>1. ASSUME QInv, reader.at = "answered"
      PROVE  SummaryHoldsTogether
    <2> DEFINE f == reader.figures
    <2>1. /\ DOMAIN Order = 1 .. 5
          /\ Order[1] = "active_sessions"
          /\ Order[2] = "active_users"
          /\ Order[3] = "sessions_24h"
          /\ Order[4] = "connect_events_24h"
          /\ Order[5] = "last_event_at"
        BY DEF Order
    <2>2. /\ \A n \in DOMAIN Order : n = 1 \/ n = 2 \/ n = 3 \/ n = 4 \/ n = 5
          /\ 1 \in DOMAIN Order /\ 2 \in DOMAIN Order /\ 3 \in DOMAIN Order /\ 4 \in DOMAIN Order
          /\ 5 \in DOMAIN Order
        BY <2>1
    <2> HIDE DEF Order
    <2>3. /\ (CHOOSE n \in DOMAIN Order : Order[n] = "active_sessions") = 1
          /\ (CHOOSE n \in DOMAIN Order : Order[n] = "active_users") = 2
          /\ (CHOOSE n \in DOMAIN Order : Order[n] = "sessions_24h") = 3
          /\ (CHOOSE n \in DOMAIN Order : Order[n] = "connect_events_24h") = 4
          /\ (CHOOSE n \in DOMAIN Order : Order[n] = "last_event_at") = 5
        BY <2>1, <2>2
    <2>4. /\ Read("active_sessions") = f[1]
          /\ Read("active_users") = f[2]
          /\ Read("sessions_24h") = f[3]
          /\ Read("connect_events_24h") = f[4]
          /\ Read("last_event_at") = f[5]
        BY <2>3, Zenon DEF Read
    <2>5. /\ Len(f) >= 2 => f[2] <= f[1] + (Cardinality(Stored) - reader.stored)
          /\ Len(f) >= 3 => f[1] <= f[3] + Cardinality(Older(reader.since))
          /\ Len(f) = 5
          /\ Len(f) = 5 /\ f[4] > 0 => f[5] \in Instant /\ f[5] >= reader.since
        BY <1>1, Zenon DEF QInv, SummaryInv
    <2> HIDE DEF f
    <2>6. /\ f[2] <= f[1] + (Cardinality(Stored) - reader.stored)
          /\ f[1] <= f[3] + Cardinality(Older(reader.since))
          /\ f[4] > 0 => f[5] # None /\ f[5] >= reader.since
        BY <2>5, NullAssumption
    <2> QED  BY <2>4, <2>6, Zenon DEF SummaryHoldsTogether, Older
<1> QED  BY <1>1, QueriesInvariance, PTL DEF SummaryHoldsTogether

-----------------------------------------------------------------------------
(* The users' histories.                                                   *)

Times(user) == {sessions[s].connected : s \in Of(user)}

\* What the item of a user who has sessions is computed of.
UserFigures(user) ==
    /\ Of(user) \subseteq Stored
    /\ IsFiniteSet(Of(user))
    /\ Cardinality(Of(user)) \in Nat
    /\ Times(user) \subseteq Int
    /\ Max(Times(user)) \in Times(user)
    /\ \A t \in Times(user) : Max(Times(user)) >= t

AllFigures == \A user \in Known : UserFigures(user)

LEMMA KnownUsers ==
    ASSUME Rows, NEW user \in Known
    PROVE  UserFigures(user)
<1> DEFINE times == {sessions[s].connected : s \in Of(user)}
           time == [s \in Of(user) |-> sessions[s].connected]
<1>1. Of(user) \subseteq Stored
    BY DEF Of
<1>2. IsFiniteSet(Of(user)) /\ Cardinality(Of(user)) \in Nat
    BY <1>1, FS_Subset, FS_CardinalityType DEF Rows
<1>3. times \subseteq Int
    BY <1>1, StoredRows
<1>4. times # {}
    BY DEF Known
<1>5. IsFiniteSet(times)
    <2>1. IsFiniteSet({time[s] : s \in Of(user)})
        <3> HIDE DEF time
        <3> QED  BY <1>2, ImageIsFinite
    <2>2. {time[s] : s \in Of(user)} = times
        OBVIOUS
    <2> QED  BY <2>1, <2>2
<1>6. Max(times) \in times /\ \A t \in times : Max(times) >= t
    <2> HIDE DEF times
    <2> QED  BY <1>3, <1>4, <1>5, MaxIsLargest
<1> QED  BY <1>1, <1>2, <1>3, <1>6, Zenon DEF UserFigures, Times

\* No commit takes a user off the list, or lowers the number of the user's
\* sessions or the instant of the last (queries.py:220-230): rows are not deleted
\* and connected_at is written once.
THEOREM GrowingHistory == Spec => HistoryOnlyGrows
<1> DEFINE Grows == \A user \in Known :
               LET before == UserItem(user)
                   after == UserItem(user)'
               IN  /\ user \in Known'
                   /\ after.total >= before.total
                   /\ after.last >= before.last
<1>1. Rows => AllFigures
    BY KnownUsers DEF AllFigures
<1>2. Rows' => AllFigures'
    BY <1>1, PTL
<1>3. ASSUME Rows, [Next]_vars
      PROVE  Grows
    <2> SUFFICES ASSUME NEW user \in Known
                 PROVE  /\ user \in Known'
                        /\ UserItem(user)'.total >= UserItem(user).total
                        /\ UserItem(user)'.last >= UserItem(user).last
        OBVIOUS
    <2>1. Rows' /\ Kept
        BY <1>3, StepKeeps
    <2>2. Of(user) \subseteq Of(user)'
        BY <2>1 DEF Of, Kept
    <2>3. user \in Known'
        BY <2>2 DEF Known
    <2>4. Times(user) \subseteq Times(user)'
        BY <2>1, <2>2 DEF Times, Of, Kept
    <2>5. UserFigures(user) /\ UserFigures(user)'
        BY <1>1, <1>2, <1>3, <2>1, <2>3 DEF AllFigures
    <2>6. Cardinality(Of(user)) <= Cardinality(Of(user)')
        BY <2>2, <2>5, FS_Subset DEF UserFigures
    <2>7. Max(Times(user)') >= Max(Times(user))
        BY <2>4, <2>5 DEF UserFigures
    <2>8. /\ UserItem(user).total = Cardinality(Of(user))
          /\ UserItem(user).last = Max(Times(user))
          /\ UserItem(user)'.total = Cardinality(Of(user)')
          /\ UserItem(user)'.last = Max(Times(user)')
        BY DEF UserItem, Times
    <2> QED  BY <2>3, <2>5, <2>6, <2>7, <2>8 DEF UserFigures
<1>4. [][sessions' # sessions => Grows]_vars <=> HistoryOnlyGrows
    BY DEF HistoryOnlyGrows
<1> HIDE DEF Grows
<1>5. QInv /\ [Next]_vars => [sessions' # sessions => Grows]_vars
    BY <1>3 DEF QInv
<1> QED  BY <1>4, <1>5, QueriesInvariance, PTL DEF Spec

-----------------------------------------------------------------------------
(* The counts and the listings.                                            *)

\* A limit that is no less than the rows there are leaves none out.
LEMMA WholeList ==
    ASSUME Rows, NEW filter
    PROVE  ListSessions(filter, Cardinality(Stored), 0) = Matching(filter)
<1>1. ASSUME NEW s \in Matching(filter)
      PROVE  Rank(filter, s) \in 0 .. 0 + Cardinality(Stored) - 1
    <2>1. /\ Preceding(filter, s) \subseteq Stored \ {s}
          /\ s \in Stored
        BY BeforeIsTotal DEF Preceding, Matching
    <2>2. /\ IsFiniteSet(Stored \ {s})
          /\ Cardinality(Stored \ {s}) = Cardinality(Stored) - 1
        BY <2>1, FS_RemoveElement DEF Rows
    <2>3. Cardinality(Preceding(filter, s)) <= Cardinality(Stored \ {s})
        BY <2>1, <2>2, FS_Subset
    <2>4. Cardinality(Stored) \in Nat /\ Rank(filter, s) \in Nat
        BY FS_CardinalityType, MatchingIsFinite DEF Rows
    <2> QED  BY <2>2, <2>3, <2>4 DEF Rank
<1>2. ListSessions(filter, Cardinality(Stored), 0) =
          {s \in Matching(filter) : Rank(filter, s) \in 0 .. 0 + Cardinality(Stored) - 1}
    BY PageByRank, Zenon
<1> QED  BY <1>1, <1>2

\* A session is on the list of its router, of its source and of all.
LEMMA ActiveLists ==
    ASSUME Rows
    PROVE  /\ ActiveSessions(None, None, None, Cardinality(Stored)) = Active
           /\ \A router \in Router :
                 ActiveSessions(router, None, None, Cardinality(Stored)) =
                     {s \in Active : sessions[s].source.router = router}
           /\ \A source \in Source :
                 ActiveSessions(source.router, source.name, None, Cardinality(Stored)) =
                     {s \in Active : sessions[s].source = source}
<1>1. ASSUME NEW router, NEW name
      PROVE  ActiveSessions(router, name, None, Cardinality(Stored)) =
                 {s \in Active : /\ Given(router, sessions[s].source.router)
                                 /\ Given(name, sessions[s].source.name)}
    <2> DEFINE filter == [NoFilter EXCEPT !.state = "ACTIVE", !.router = router,
                                          !.source = name, !.user = None]
    <2>1. /\ filter.state = "ACTIVE" /\ filter.router = router
          /\ filter.source = name /\ filter.user = None
          /\ filter.since = None /\ filter.until = None
        BY DEF NoFilter
    <2>2. ActiveSessions(router, name, None, Cardinality(Stored)) = Matching(filter)
        BY WholeList, Zenon DEF ActiveSessions
    <2> HIDE DEF filter
    <2>3. Matching(filter) = {s \in Active : /\ Given(router, sessions[s].source.router)
                                             /\ Given(name, sessions[s].source.name)}
        BY <2>1, NullAssumption DEF Matching, Active, Given
    <2> QED  BY <2>2, <2>3
<1>2. \A s \in Active : sessions[s].source \in Source
    BY StoredRows DEF Active, Row
<1>3. {s \in Active : Given(None, sessions[s].source.router)
                          /\ Given(None, sessions[s].source.name)} = Active
    BY DEF Given
<1>4. ASSUME NEW router \in Router
      PROVE  {s \in Active : Given(router, sessions[s].source.router)
                                 /\ Given(None, sessions[s].source.name)} =
                 {s \in Active : sessions[s].source.router = router}
    BY NullAssumption DEF Given
<1>5. ASSUME NEW source \in Source
      PROVE  {s \in Active : Given(source.router, sessions[s].source.router)
                                 /\ Given(source.name, sessions[s].source.name)} =
                 {s \in Active : sessions[s].source = source}
    <2>1. source.router # None /\ source.name # None
        BY NullAssumption, QueriesAssumption
    <2>2. \A s \in Active :
              sessions[s].source.router = source.router
                  /\ sessions[s].source.name = source.name =>
              sessions[s].source = source
        BY <1>2, QueriesAssumption
    <2> QED  BY <2>1, <2>2 DEF Given
<1>6. ActiveSessions(None, None, None, Cardinality(Stored)) = Active
    BY <1>1, <1>3
<1>7. ASSUME NEW router \in Router
      PROVE  ActiveSessions(router, None, None, Cardinality(Stored)) =
                 {s \in Active : sessions[s].source.router = router}
    BY <1>1, <1>4
<1>8. ASSUME NEW source \in Source
      PROVE  ActiveSessions(source.router, source.name, None, Cardinality(Stored)) =
                 {s \in Active : sessions[s].source = source}
    BY <1>1, <1>5
<1> QED  BY <1>6, <1>7, <1>8

\* COUNT over a LEFT JOIN.
LEMMA CountJoined ==
    ASSUME Rows, NEW on, on \subseteq Active
    PROVE  /\ Count(LeftJoin(on)) = Cardinality(on)
           /\ Count({IF s = None THEN None ELSE sessions[s].user : s \in LeftJoin(on)}) =
                  Cardinality({sessions[s].user : s \in on})
<1>1. \A s \in on : s # None /\ sessions[s].user # None
    BY StoredRows, NullAssumption DEF Active
<1>2. LeftJoin(on) \ {None} = on
    BY <1>1 DEF LeftJoin
<1>3. {IF s = None THEN None ELSE sessions[s].user : s \in LeftJoin(on)} \ {None} =
          {sessions[s].user : s \in on}
    BY <1>1 DEF LeftJoin
<1> QED  BY <1>2, <1>3, Zenon DEF Count

\* No user is left out of a list with room for all.
LEMMA AllUsersListed ==
    ASSUME Rows
    PROVE  /\ IsFiniteSet(Known)
           /\ Known = {sessions[s].user : s \in Stored}
           /\ ListUsers(Cardinality(Known)) = Known
<1>1. Known = {sessions[s].user : s \in Stored}
    BY StoredRows DEF Known, Of
<1>2. IsFiniteSet(Known)
    <2> DEFINE user == [s \in Stored |-> sessions[s].user]
    <2>1. IsFiniteSet({user[s] : s \in Stored})
        <3> HIDE DEF user
        <3> QED  BY ImageIsFinite DEF Rows
    <2>2. {user[s] : s \in Stored} = Known
        BY <1>1
    <2> QED  BY <2>1, <2>2
<1>3. ASSUME NEW user \in Known
      PROVE  OnPage({u \in Known : LatestFirst(u, user)}, Cardinality(Known), 0)
    <2> DEFINE earlier == {u \in Known : LatestFirst(u, user)}
    <2>1. ~ LatestFirst(user, user)
        <3>1. user \in Int
            BY QueriesAssumption DEF Known
        <3>2. UserItem(user).last = Max(Times(user)) /\ Max(Times(user)) \in Int
            BY KnownUsers DEF UserItem, UserFigures, Times
        <3>3. UserItem(user).last \in Int
            BY <3>2
        <3> QED  BY <3>1, <3>3 DEF LatestFirst
    <2>2. earlier \subseteq Known \ {user}
        BY <2>1
    <2>3. /\ IsFiniteSet(Known \ {user})
          /\ Cardinality(Known \ {user}) = Cardinality(Known) - 1
        BY <1>2, FS_RemoveElement
    <2> HIDE DEF earlier
    <2>4. IsFiniteSet(earlier) /\ Cardinality(earlier) <= Cardinality(Known \ {user})
        BY <2>2, <2>3, FS_Subset
    <2>5. Cardinality(Known) \in Nat /\ Cardinality(earlier) \in Nat
        BY <1>2, <2>4, FS_CardinalityType
    <2>6. Cardinality(earlier) \in 0 .. 0 + Cardinality(Known) - 1
        BY <2>3, <2>4, <2>5
    <2> QED  BY <2>6, Zenon DEF OnPage, earlier
<1> QED  BY <1>1, <1>2, <1>3, Zenon DEF ListUsers

\* Each active session counts for one user: the sum, which takes the users one by
\* one, is of whatever users the number of sessions that are theirs.
LEMMA UsersAddUp ==
    ASSUME Rows
    PROVE  MapThenSumSet(LAMBDA user : UserItem(user).active, Known) =
               Cardinality(Active)
<1> DEFINE first(U) == CHOOSE u \in U : TRUE
           Body(g) == [U \in SUBSET Known |->
               IF U = {} THEN 0
               ELSE UserItem(first(U)).active + g[U \ {first(U)}]]
           theirs(U) == {s \in Active : sessions[s].user \in U}
           count == [U \in SUBSET Known |-> Cardinality(theirs(U))]
           sum == CHOOSE g : g = Body(g)
<1>1. MapThenSumSet(LAMBDA user : UserItem(user).active, Known) = sum[Known]
    BY DEF MapThenSumSet, MapThenFoldSet
<1>2. ASSUME NEW U \in SUBSET Known, U # {}
      PROVE  /\ first(U) \in U
             /\ Cardinality(theirs(U)) =
                    UserItem(first(U)).active + Cardinality(theirs(U \ {first(U)}))
    <2> DEFINE u == first(U)
               his == Of(u) \cap Active
               rest == theirs(U \ {u})
    <2>1. u \in U
        BY <1>2
    <2> HIDE DEF u
    <2>2. his \cup rest = theirs(U) /\ his \cap rest = {}
        BY <2>1 DEF Of, Active
    <2>3. IsFiniteSet(his) /\ IsFiniteSet(rest)
        <3>1. his \subseteq Stored /\ rest \subseteq Stored
            BY DEF Active
        <3> QED  BY <3>1, FS_Subset DEF Rows
    <2>4. /\ Cardinality(his \cup rest) =
                Cardinality(his) + Cardinality(rest) - Cardinality(his \cap rest)
          /\ Cardinality(his) \in Nat /\ Cardinality(rest) \in Nat
        <3> HIDE DEF his, rest
        <3> QED  BY <2>3, FS_Union, FS_CardinalityType
    <2>5. /\ Cardinality(his \cup rest) = Cardinality(theirs(U))
          /\ Cardinality(his \cap rest) = 0
        <3> HIDE DEF his, rest, theirs
        <3> QED  BY <2>2, FS_EmptySet, Zenon
    <2>6. UserItem(u).active = Cardinality(his)
        BY DEF UserItem
    <2>7. Cardinality(theirs(U)) = UserItem(u).active + Cardinality(rest)
        <3> HIDE DEF his, rest, theirs
        <3> QED  BY <2>4, <2>5, <2>6
    <2> QED  BY <2>1, <2>7 DEF u
<1>3. Cardinality(theirs({})) = 0
    <2>1. theirs({}) = {}
        OBVIOUS
    <2> HIDE DEF theirs
    <2> QED  BY <2>1, FS_EmptySet, Zenon
<1>4. count = Body(count)
    <2>1. ASSUME NEW U \in SUBSET Known
          PROVE  count[U] = Body(count)[U]
        <3>1. CASE U = {}
            BY <3>1, <1>3
        <3>2. CASE U # {}
            <4> HIDE DEF theirs, first
            <4>1. U \ {first(U)} \in SUBSET Known
                OBVIOUS
            <4> QED  BY <3>2, <1>2, <4>1
        <3> QED  BY <3>1, <3>2
    <2> HIDE DEF theirs, first
    <2> QED  BY <2>1
<1>5. sum = Body(sum)
    BY <1>4
<1>6. sum = count
    <2> HIDE DEF theirs, first, sum
    <2> DEFINE Differ == {U \in SUBSET Known : sum[U] # count[U]}
    <2>1. ASSUME Differ # {}
          PROVE  FALSE
        <3>1. \A U \in Differ : IsFiniteSet(U)
            BY AllUsersListed, FS_Subset
        <3>2. PICK U \in Differ : \A V \in Differ : V \subseteq U => V = U
            <4> HIDE DEF Differ
            <4> QED  BY <2>1, <3>1, SmallestMember
        <3>3. U \in SUBSET Known
            OBVIOUS
        <3>4. U # {}
            <4>1. sum[{}] = 0 /\ count[{}] = 0
                BY <1>3, <1>5
            <4> QED  BY <4>1
        <3>5. first(U) \in U
            BY <1>2, <3>3, <3>4
        <3>6. U \ {first(U)} \in SUBSET Known /\ U \ {first(U)} \notin Differ
            <4>1. U \ {first(U)} \in SUBSET Known
                BY <3>3
            <4> HIDE DEF Differ
            <4> QED  BY <3>2, <3>5, <4>1
        <3>7. sum[U \ {first(U)}] = count[U \ {first(U)}]
            BY <3>6
        <3>8. sum[U] = count[U]
            <4>1. sum[U] = UserItem(first(U)).active + sum[U \ {first(U)}]
                BY <1>5, <3>3, <3>4
            <4>2. count[U] = UserItem(first(U)).active + count[U \ {first(U)}]
                BY <1>4, <3>3, <3>4
            <4> QED  BY <3>7, <4>1, <4>2
        <3> QED  BY <3>8
    <2>2. \A U \in SUBSET Known : sum[U] = count[U]
        BY <2>1
    <2>3. sum = [U \in SUBSET Known |-> sum[U]]
        BY <1>5
    <2> QED  BY <2>2, <2>3
<1>7. theirs(Known) = Active
    BY AllUsersListed DEF Active
<1> QED  BY <1>1, <1>6, <1>7

\* The counts beside each router and each source, zero included, are those of the
\* listings the API gives for it (queries.py:118-217): a left join that counts a
\* column loses no row and counts none for a NULL, a name and a router single out a
\* source, and the users' counts add up to the whole list.
THEOREM CountsAgree == Spec => []CountsMatchListings
<1>1. ASSUME Rows
      PROVE  CountsMatchListings
    <2> DEFINE Listed(router, source) ==
                   ActiveSessions(router, source, None, Cardinality(Stored))
    <2>1. ASSUME NEW router \in Router
          PROVE  RouterItem(router) =
                     [active |-> Cardinality(Listed(router, None)),
                      users |-> Cardinality({sessions[s].user : s \in Listed(router, None)})]
        <3> DEFINE on == {s \in Active : sessions[s].source.router = router}
        <3>1. Listed(router, None) = on
            BY <1>1, ActiveLists
        <3>2. RouterItem(router) = [active |-> Cardinality(on),
                                    users |-> Cardinality({sessions[s].user : s \in on})]
            BY <1>1, CountJoined DEF RouterItem
        <3> HIDE DEF on, Listed
        <3> QED  BY <3>1, <3>2, Zenon
    <2>2. ASSUME NEW source \in Source
          PROVE  SourceItem(source).active =
                     Cardinality(Listed(source.router, source.name))
        <3> DEFINE on == {s \in Active : sessions[s].source = source}
        <3>1. Listed(source.router, source.name) = on
            BY <1>1, ActiveLists
        <3>2. SourceItem(source).active = Cardinality(on)
            BY <1>1, CountJoined DEF SourceItem
        <3> HIDE DEF on, Listed
        <3> QED  BY <3>1, <3>2, Zenon
    <2>3. MapThenSumSet(LAMBDA user : UserItem(user).active, ListUsers(Cardinality(Known)))
              = Cardinality(Listed(None, None))
        <3>1. Listed(None, None) = Active /\ ListUsers(Cardinality(Known)) = Known
            BY <1>1, ActiveLists, AllUsersListed
        <3>2. MapThenSumSet(LAMBDA user : UserItem(user).active, Known) = Cardinality(Active)
            BY <1>1, UsersAddUp
        <3> QED  BY <3>1, <3>2
    <2> QED  BY <2>1, <2>2, <2>3 DEF CountsMatchListings
<1> QED  BY <1>1, QueriesInvariance, PTL DEF QInv
=============================================================================
