---------------------------- MODULE SystemProofs ----------------------------
(***************************************************************************)
(* What holds of a router and the API together, for any sessions, clock,   *)
(* delays and faults: the theorems about System and their proofs.          *)
(***************************************************************************)
EXTENDS System, EffectsProofs
-----------------------------------------------------------------------------
(* What the items of a listing make of the rows of the source.             *)

Ids(items) == {i.rsid : i \in items}

\* What the snapshot script sends.
IsListing(p) ==
    /\ p.source = OwnSource /\ p.boot = None /\ p.observed \in Int
    /\ p.items \subseteq Item /\ IsFiniteSet(p.items)
    /\ \A i, j \in p.items : i.rsid = j.rsid => i = j

\* The active rows that carry an identifier.
Identified(table) == {s \in ActiveIn(table) : table[s].rsid # None}

OneEach(table) ==
    \A s, t \in Identified(table) : table[s].rsid = table[t].rsid => s = t

IsTable(table) ==
    /\ table \in [SessionId -> Opt(Row)]
    /\ \A s \in SessionId : table[s] # None => table[s].source = OwnSource
    /\ \A s \in ActiveIn(table) : table[s].reason = None
    /\ OneEach(table)

\* A listing of this instant reaches all that are identified.
Within(table, at) == \A s \in Identified(table) : table[s].connected <= at

\* The row of a session that one of the items was matched with or inserted as.
Listed(p, done, row) ==
    /\ row \in Row
    /\ row.source = OwnSource /\ row.state = "ACTIVE" /\ row.reason = None
    /\ row.rsid \in Ids(done) /\ row.connected <= p.observed

Worked(p, table, done, x) ==
    /\ x \in [flushed : [SessionId -> Opt(Row)], objects : [SessionId -> Opt(Row)],
              matched : SUBSET SessionId]
    /\ \A s \in SessionId \ x.matched : x.flushed[s] = table[s] /\ x.objects[s] = table[s]
    /\ \A s \in x.matched :
          /\ Listed(p, done, x.objects[s])
          /\ x.flushed[s] # None /\ x.flushed[s].state = "ACTIVE"
          /\ x.flushed[s].rsid \in Ids(done) \cup {None}
    /\ \A s \in Identified(table) : table[s].rsid \in Ids(done) <=> s \in x.matched
    /\ OneEach(x.objects)

LEMMA NullRow == None \notin Row /\ None \notin RouterSessionId /\ None \notin Reason
BY NoneAssumption

\* What an item is matched with: the row that carries its identifier, if there
\* is one, and else one that carries none.
MatchFits(p, table, x, i) ==
    /\ \A t \in Identified(table) :
          table[t].rsid = i.rsid => /\ MatchedWith(p, x.flushed, x.objects, i) = {t}
                                    /\ t \notin x.matched
    /\ \A s \in MatchedWith(p, x.flushed, x.objects, i) :
          /\ s \in SessionId
          /\ x.flushed[s] # None /\ x.flushed[s].state = "ACTIVE"
          /\ x.flushed[s].rsid \in {i.rsid, None}
          /\ x.objects[s] \in Row /\ x.objects[s].source = OwnSource
          /\ x.objects[s].state = "ACTIVE" /\ x.objects[s].reason = None
          /\ x.objects[s].connected <= p.observed

LEMMA MatchIsUnique ==
    ASSUME NEW p, IsListing(p), NEW table, IsTable(table), Within(table, p.observed),
           NEW done \in SUBSET p.items, NEW x, Worked(p, table, done, x),
           NEW i \in p.items, i.rsid \notin Ids(done)
    PROVE  MatchFits(p, table, x, i)
<1> DEFINE byId == WithRouterSessionId(x.flushed, p, i)
           found == MatchedWith(p, x.flushed, x.objects, i)
<1>0. i.rsid \in RouterSessionId /\ i.rsid # None
    BY NullRow DEF IsListing, Item
<1>1. ASSUME NEW s \in byId
      PROVE  s \in SessionId \ x.matched /\ s \in Identified(table) /\ table[s].rsid = i.rsid
    <2>1. /\ s \in SessionId /\ x.flushed[s] # None /\ x.flushed[s].state = "ACTIVE"
          /\ x.flushed[s].rsid = i.rsid
        BY <1>1 DEF WithRouterSessionId, Coverable, ActiveIn
    <2>2. s \notin x.matched
        BY <2>1, <1>0 DEF Worked
    <2>3. x.flushed[s] = table[s]
        BY <2>1, <2>2 DEF Worked
    <2> QED  BY <2>1, <2>2, <2>3, <1>0 DEF Identified, ActiveIn
<1>2. ASSUME NEW t \in Identified(table), table[t].rsid = i.rsid
      PROVE  found = {t} /\ t \notin x.matched
    <2>1. /\ t \in SessionId /\ table[t] # None /\ table[t].state = "ACTIVE"
          /\ table[t] \in Row /\ table[t].source = OwnSource
          /\ table[t].connected <= p.observed
        BY <1>2 DEF Identified, ActiveIn, IsTable, Opt, Within
    <2>2. t \notin x.matched
        BY <1>2 DEF Worked
    <2>3. x.flushed[t] = table[t]
        BY <2>1, <2>2 DEF Worked
    <2>4. t \in byId
        BY <1>2, <2>1, <2>3 DEF WithRouterSessionId, Coverable, ActiveIn, IsListing
    <2>5. \A s \in byId : s = t
        BY <1>1, <1>2 DEF IsTable, OneEach
    <2>6. byId = {t}
        BY <2>4, <2>5
    <2>7. Latest(x.flushed, byId) = {t}
        <3>1. x.flushed[t].connected \in Int
            BY <2>1, <2>3 DEF Row
        <3> QED  BY <2>6, <3>1 DEF Latest
    <2>8. found = Latest(x.flushed, byId)
        BY <2>6, Zenon DEF MatchedWith
    <2> QED  BY <2>2, <2>7, <2>8
<1>3. ASSUME NEW s \in found
      PROVE  /\ s \in SessionId
             /\ x.flushed[s] # None /\ x.flushed[s].state = "ACTIVE"
             /\ x.flushed[s].connected <= p.observed
             /\ x.flushed[s].source = OwnSource
             /\ x.flushed[s].rsid \in {i.rsid, None}
    <2>1. s \in byId \/ s \in FallbackCandidates(x.flushed, p, i)
        BY <1>3 DEF MatchedWith, Latest
    <2> QED  BY <2>1 DEF WithRouterSessionId, FallbackCandidates, Coverable, ActiveIn, IsListing
<1>4. ASSUME NEW s \in found
      PROVE  /\ x.objects[s] \in Row /\ x.objects[s].source = OwnSource
             /\ x.objects[s].state = "ACTIVE" /\ x.objects[s].reason = None
             /\ x.objects[s].connected <= p.observed
    <2>1. CASE s \in x.matched
        BY <2>1 DEF Worked, Listed
    <2>2. CASE s \notin x.matched
        <3>1. x.flushed[s] = table[s] /\ x.objects[s] = table[s]
            BY <1>3, <2>2 DEF Worked
        <3>2. table[s] \in Row
            BY <1>3, <3>1 DEF IsTable, Opt
        <3>3. table[s].reason = None
            BY <1>3, <3>1 DEF IsTable, ActiveIn
        <3> QED  BY <1>3, <3>1, <3>2, <3>3
    <2> QED  BY <2>1, <2>2
<1> QED  BY <1>2, <1>3, <1>4 DEF MatchFits

LEMMA RowEdits ==
    ASSUME NEW p, IsListing(p), NEW i \in p.items,
           NEW row \in Row, row.source = OwnSource, row.state = "ACTIVE", row.reason = None,
           row.connected <= p.observed
    PROVE  \A done : i \in done => Listed(p, done, RefreshRow(row, p, i))
<1> DEFINE r == RefreshRow(row, p, i)
           attrs == [c \in Column |-> IF i.attrs[c] = None THEN row.attrs[c] ELSE i.attrs[c]]
<1>1. i.rsid \in RouterSessionId /\ i.attrs \in Attributes /\ row.attrs \in Attributes
    BY DEF IsListing, Item, Row
<1>2. attrs \in Attributes
    BY <1>1 DEF Attributes
<1>3. r = [row EXCEPT !.rsid = i.rsid, !.attrs = attrs, !.boot = row.boot,
                      !.observed = p.observed]
    BY DEF RefreshRow, IsListing
<1>4. /\ r \in Row /\ r.source = row.source /\ r.state = row.state
      /\ r.reason = row.reason /\ r.rsid = i.rsid /\ r.connected = row.connected
    <2> HIDE DEF attrs, r
    <2> QED  BY <1>1, <1>2, <1>3 DEF Row, Opt, IsListing
<1> HIDE DEF r
<1> QED  BY <1>4 DEF Listed, Ids, r

LEMMA NewListed ==
    ASSUME NEW p, IsListing(p), NEW i \in p.items
    PROVE  \A done : i \in done => Listed(p, done, ReconciledRow(p, i))
<1> DEFINE r == ReconciledRow(p, i)
           connected == IF i.uptime = None THEN p.observed ELSE p.observed - i.uptime
<1>1. /\ i.rsid \in RouterSessionId /\ i.attrs \in Attributes /\ i.who \in Identity
      /\ i.uptime \in Opt(Nat) /\ p.observed \in Int /\ p.boot = None /\ p.source = OwnSource
      /\ OwnSource \in Source
    BY OwnAssumption DEF IsListing, Item
<1>2. connected \in Int /\ connected <= p.observed
    BY <1>1 DEF Opt
<1>3. /\ r \in Row /\ r.source = OwnSource /\ r.state = "ACTIVE"
      /\ r.reason = None /\ r.rsid = i.rsid /\ r.connected = connected
    <2> HIDE DEF connected
    <2> QED  BY <1>1, <1>2 DEF ReconciledRow, Row, Opt, connected
<1> HIDE DEF r, connected
<1> QED  BY <1>2, <1>3 DEF Listed, Ids, r

LEMMA IdsOfOneMore ==
    ASSUME NEW p, IsListing(p), NEW done \in SUBSET p.items, NEW i \in done
    PROVE  /\ i.rsid \notin Ids(done \ {i})
           /\ Ids(done) = Ids(done \ {i}) \cup {i.rsid}
BY DEF Ids, IsListing

\* An item that is matched refreshes one row.
LEMMA RefreshWorks ==
    ASSUME NEW p, IsListing(p), NEW table, IsTable(table), Within(table, p.observed),
           NEW done \in SUBSET p.items, NEW i \in done,
           NEW x, Worked(p, table, done \ {i}, x),
           NEW s \in MatchedWith(p, x.flushed, x.objects, i),
           NEW y, y = [flushed |-> x.flushed,
                       objects |-> [x.objects EXCEPT ![s] = RefreshRow(x.objects[s], p, i)],
                       matched |-> x.matched \cup {s}]
    PROVE  Worked(p, table, done, y)
<1> DEFINE rest == done \ {i}
           new == RefreshRow(x.objects[s], p, i)
<1>1. i.rsid \notin Ids(rest) /\ Ids(done) = Ids(rest) \cup {i.rsid}
    BY IdsOfOneMore
<1>2. i \in p.items /\ rest \in SUBSET p.items /\ Worked(p, table, rest, x)
    OBVIOUS
<1> HIDE DEF rest
<1>3. /\ \A t \in Identified(table) :
            table[t].rsid = i.rsid => /\ MatchedWith(p, x.flushed, x.objects, i) = {t}
                                      /\ t \notin x.matched
      /\ s \in SessionId
      /\ x.flushed[s] # None /\ x.flushed[s].state = "ACTIVE"
      /\ x.flushed[s].rsid \in {i.rsid, None}
      /\ x.objects[s] \in Row /\ x.objects[s].source = OwnSource
      /\ x.objects[s].state = "ACTIVE" /\ x.objects[s].reason = None
      /\ x.objects[s].connected <= p.observed
    <2> HIDE DEF new
    <2>1. MatchFits(p, table, x, i)
        BY <1>1, <1>2, MatchIsUnique
    <2> QED  BY <2>1, Zenon DEF MatchFits
<1>4. Listed(p, done, new)
    BY <1>2, <1>3, RowEdits
<1>5. new \in Row /\ new # None /\ new.state = "ACTIVE" /\ new.rsid = i.rsid
    BY <1>3, <1>4, NullRow DEF Listed, RefreshRow, Row
<1> HIDE DEF new
<1>6. /\ x \in [flushed : [SessionId -> Opt(Row)], objects : [SessionId -> Opt(Row)],
                matched : SUBSET SessionId]
      /\ \A t \in SessionId \ x.matched : x.flushed[t] = table[t] /\ x.objects[t] = table[t]
      /\ \A t \in x.matched :
            /\ Listed(p, rest, x.objects[t])
            /\ x.flushed[t] # None /\ x.flushed[t].state = "ACTIVE"
            /\ x.flushed[t].rsid \in Ids(rest) \cup {None}
      /\ \A t \in Identified(table) : table[t].rsid \in Ids(rest) <=> t \in x.matched
      /\ OneEach(x.objects)
    BY <1>2 DEF Worked
<1>7. /\ y \in [flushed : [SessionId -> Opt(Row)], objects : [SessionId -> Opt(Row)],
                matched : SUBSET SessionId]
      /\ y.flushed = x.flushed /\ y.matched = x.matched \cup {s}
      /\ y.objects = [x.objects EXCEPT ![s] = new]
    <2>1. [x.objects EXCEPT ![s] = new] \in [SessionId -> Opt(Row)]
        BY <1>3, <1>5, <1>6 DEF Opt
    <2> QED  BY <1>3, <1>6, <2>1 DEF new
<1>8. ASSUME NEW t \in SessionId \ y.matched
      PROVE  y.flushed[t] = table[t] /\ y.objects[t] = table[t]
    BY <1>6, <1>7, <1>8
<1>9. ASSUME NEW t \in y.matched
      PROVE  /\ Listed(p, done, y.objects[t])
             /\ y.flushed[t] # None /\ y.flushed[t].state = "ACTIVE"
             /\ y.flushed[t].rsid \in Ids(done) \cup {None}
    <2>1. CASE t = s
        BY <1>1, <1>3, <1>4, <1>6, <1>7, <2>1
    <2>2. CASE t # s
        <3>1. t \in x.matched /\ t \in SessionId /\ y.objects[t] = x.objects[t]
            BY <1>6, <1>7, <1>9, <2>2
        <3> QED  BY <1>1, <1>6, <1>7, <3>1 DEF Listed
    <2> QED  BY <2>1, <2>2
<1>10. ASSUME NEW t \in Identified(table)
       PROVE  table[t].rsid \in Ids(done) <=> t \in y.matched
    <2>1. CASE table[t].rsid = i.rsid
        BY <1>1, <1>3, <1>7, <2>1
    <2>2. CASE table[t].rsid # i.rsid
        <3>1. t = s => t \in x.matched
            <4>1. ASSUME t = s, t \notin x.matched
                  PROVE  FALSE
                <5>1. table[t].rsid \in {i.rsid, None}
                    BY <1>3, <1>6, <4>1
                <5> QED  BY <5>1, <2>2 DEF Identified
            <4> QED  BY <4>1
        <3> QED  BY <1>1, <1>6, <1>7, <2>2, <3>1
    <2> QED  BY <2>1, <2>2
<1>11. ASSUME NEW t \in Identified(y.objects), t # s
       PROVE  t \in Identified(x.objects) /\ y.objects[t] = x.objects[t]
                /\ y.objects[t].rsid # i.rsid
    <2>1. /\ t \in SessionId /\ y.objects[t] = x.objects[t]
          /\ t \in Identified(x.objects)
        BY <1>3, <1>6, <1>7, <1>11 DEF Identified, ActiveIn
    <2>2. CASE t \in x.matched
        BY <1>1, <1>6, <2>1, <2>2 DEF Listed
    <2>3. CASE t \notin x.matched
        <3>1. t \in Identified(table) /\ x.objects[t] = table[t]
            BY <1>6, <2>1, <2>3 DEF Identified, ActiveIn
        <3> QED  BY <1>3, <1>11, <2>1, <3>1
    <2> QED  BY <2>1, <2>2, <2>3
<1>12. OneEach(y.objects)
    <2>1. y.objects[s].rsid = i.rsid
        BY <1>3, <1>5, <1>6, <1>7
    <2> QED  BY <1>6, <1>11, <2>1 DEF OneEach
<1> QED  BY <1>7, <1>8, <1>9, <1>10, <1>12 DEF Worked

\* One that is not is inserted, which flushes the rows.
InsertionOf(p, x, item) ==
    {[flushed |-> inserted, objects |-> inserted,
      matched |-> x.matched \cup {s \in SessionId : inserted[s] # x.objects[s]}] :
        inserted \in Inserted(x.objects, ReconciledRow(p, item), KeyOrder)}

LEMMA InsertWorks ==
    ASSUME NEW p, IsListing(p), NEW table, IsTable(table), Within(table, p.observed),
           NEW done \in SUBSET p.items, NEW i \in done,
           NEW x, Worked(p, table, done \ {i}, x),
           MatchedWith(p, x.flushed, x.objects, i) = {},
           NEW y \in InsertionOf(p, x, i)
    PROVE  Worked(p, table, done, y)
<1> DEFINE rest == done \ {i}
           new == ReconciledRow(p, i)
<1>1. i.rsid \notin Ids(rest) /\ Ids(done) = Ids(rest) \cup {i.rsid}
    BY IdsOfOneMore
<1>2. i \in p.items /\ rest \in SUBSET p.items /\ Worked(p, table, rest, x)
    OBVIOUS
<1> HIDE DEF rest
<1>3. \A t \in Identified(table) : table[t].rsid # i.rsid
    <2>1. MatchFits(p, table, x, i)
        BY <1>1, <1>2, MatchIsUnique
    <2> QED  BY <2>1 DEF MatchFits
<1>4. Listed(p, done, new)
    BY <1>2, NewListed
<1>5. new \in Row /\ new # None /\ new.state = "ACTIVE" /\ new.rsid = i.rsid
    BY <1>4, NullRow DEF Listed, ReconciledRow
<1>6. /\ x \in [flushed : [SessionId -> Opt(Row)], objects : [SessionId -> Opt(Row)],
                matched : SUBSET SessionId]
      /\ \A t \in SessionId \ x.matched : x.flushed[t] = table[t] /\ x.objects[t] = table[t]
      /\ \A t \in x.matched :
            /\ Listed(p, rest, x.objects[t])
            /\ x.flushed[t] # None /\ x.flushed[t].state = "ACTIVE"
            /\ x.flushed[t].rsid \in Ids(rest) \cup {None}
      /\ \A t \in Identified(table) : table[t].rsid \in Ids(rest) <=> t \in x.matched
      /\ OneEach(x.objects)
    BY <1>2 DEF Worked
<1>7. PICK s \in SessionId :
          /\ x.objects[s] = None
          /\ y = [flushed |-> [x.objects EXCEPT ![s] = new],
                  objects |-> [x.objects EXCEPT ![s] = new],
                  matched |-> x.matched \cup {t \in SessionId :
                                  [x.objects EXCEPT ![s] = new][t] # x.objects[t]}]
    <2>1. PICK inserted \in Inserted(x.objects, new, KeyOrder) :
              y = [flushed |-> inserted, objects |-> inserted,
                   matched |-> x.matched \cup {t \in SessionId : inserted[t] # x.objects[t]}]
        BY Zenon DEF InsertionOf, new
    <2>2. PICK s \in SessionId : x.objects[s] = None /\ inserted = [x.objects EXCEPT ![s] = new]
        BY Zenon DEF Inserted, NewKeys, Unused
    <2> QED  BY <2>1, <2>2, Zenon
<1> HIDE DEF new
<1>8. {t \in SessionId : [x.objects EXCEPT ![s] = new][t] # x.objects[t]} = {s}
    BY <1>5, <1>6, <1>7
<1>9. /\ y \in [flushed : [SessionId -> Opt(Row)], objects : [SessionId -> Opt(Row)],
                matched : SUBSET SessionId]
      /\ y.flushed = y.objects /\ y.matched = x.matched \cup {s}
      /\ y.objects = [x.objects EXCEPT ![s] = new]
    <2>1. [x.objects EXCEPT ![s] = new] \in [SessionId -> Opt(Row)]
        BY <1>5, <1>6 DEF Opt
    <2> QED  BY <1>6, <1>7, <1>8, <2>1
<1>10. s \notin x.matched /\ table[s] = None
    BY <1>6, <1>7, NullRow DEF Listed
<1>11. ASSUME NEW t \in SessionId \ y.matched
       PROVE  y.flushed[t] = table[t] /\ y.objects[t] = table[t]
    BY <1>6, <1>9, <1>11
<1>12. ASSUME NEW t \in y.matched
       PROVE  /\ Listed(p, done, y.objects[t])
              /\ y.flushed[t] # None /\ y.flushed[t].state = "ACTIVE"
              /\ y.flushed[t].rsid \in Ids(done) \cup {None}
    <2>1. Listed(p, done, y.objects[t])
        <3>1. CASE t = s
            BY <1>4, <1>6, <1>9, <3>1
        <3>2. CASE t # s
            BY <1>1, <1>6, <1>9, <1>12, <3>2 DEF Listed
        <3> QED  BY <3>1, <3>2
    <2> QED  BY <1>9, <2>1, NullRow DEF Listed
<1>13. ASSUME NEW t \in Identified(table)
       PROVE  table[t].rsid \in Ids(done) <=> t \in y.matched
    <2>1. t # s
        BY <1>10 DEF Identified, ActiveIn
    <2> QED  BY <1>1, <1>3, <1>6, <1>9, <2>1
<1>14. ASSUME NEW t \in Identified(y.objects), t # s
       PROVE  t \in Identified(x.objects) /\ y.objects[t] = x.objects[t]
                /\ y.objects[t].rsid # i.rsid
    <2>1. /\ t \in SessionId /\ y.objects[t] = x.objects[t]
          /\ t \in Identified(x.objects)
        BY <1>6, <1>9, <1>14 DEF Identified, ActiveIn
    <2>2. CASE t \in x.matched
        BY <1>1, <1>6, <2>1, <2>2 DEF Listed
    <2>3. CASE t \notin x.matched
        <3>1. t \in Identified(table) /\ x.objects[t] = table[t]
            BY <1>6, <2>1, <2>3 DEF Identified, ActiveIn
        <3> QED  BY <1>3, <2>1, <3>1
    <2> QED  BY <2>1, <2>2, <2>3
<1>15. OneEach(y.objects)
    <2>1. y.objects[s].rsid = i.rsid
        BY <1>5, <1>6, <1>9
    <2> QED  BY <1>6, <1>14, <2>1 DEF OneEach
<1> QED  BY <1>9, <1>11, <1>12, <1>13, <1>15 DEF Worked

LEMMA AfterItemWorks ==
    ASSUME NEW p, IsListing(p), NEW table, IsTable(table), Within(table, p.observed),
           NEW done \in SUBSET p.items, NEW i \in done,
           NEW x, Worked(p, table, done \ {i}, x),
           NEW y \in AfterItem(p, x, i, KeyOrder)
    PROVE  Worked(p, table, done, y)
<1> DEFINE found == MatchedWith(p, x.flushed, x.objects, i)
<1>1. CASE found = {}
    <2>1. y \in InsertionOf(p, x, i)
        BY <1>1, Zenon DEF AfterItem, InsertionOf
    <2> QED  BY <1>1, <2>1, InsertWorks
<1>2. CASE found # {}
    <2>1. PICK s \in found :
              y = [x EXCEPT !.objects[s] = RefreshRow(@, p, i), !.matched = @ \cup {s}]
        BY <1>2, Zenon DEF AfterItem
    <2>2. x \in [flushed : [SessionId -> Opt(Row)], objects : [SessionId -> Opt(Row)],
                 matched : SUBSET SessionId]
        BY DEF Worked
    <2>3. y = [flushed |-> x.flushed,
               objects |-> [x.objects EXCEPT ![s] = RefreshRow(x.objects[s], p, i)],
               matched |-> x.matched \cup {s}]
        <3> HIDE DEF found
        <3> QED  BY <2>1, <2>2
    <2> QED  BY <2>3, RefreshWorks
<1> QED  BY <1>1, <1>2

\* All the items, in any order.
LEMMA AfterItemsWork ==
    ASSUME NEW p, IsListing(p), NEW table, IsTable(table), Within(table, p.observed),
           NEW x \in AfterItems(p, table, p.items, KeyOrder)
    PROVE  Worked(p, table, p.items, x)
<1>1. PICK g : /\ Unfolds(p, table, KeyOrder, p.items, g)
               /\ AfterItems(p, table, p.items, KeyOrder) = g[p.items]
    BY AfterItemsUnfold DEF IsListing
<1> DEFINE Wrong == {d \in SUBSET p.items : \E y \in g[d] : ~ Worked(p, table, d, y)}
<1>2. ASSUME Wrong # {}
      PROVE  FALSE
    <2>1. \A d \in Wrong : IsFiniteSet(d)
        BY FS_Subset DEF IsListing
    <2>2. PICK d \in Wrong : \A c \in Wrong : c \subseteq d => c = d
        <3> HIDE DEF Wrong
        <3> QED  BY <1>2, <2>1, SmallestMember
    <2>3. PICK y \in g[d] : ~ Worked(p, table, d, y)
        OBVIOUS
    <2>4. CASE d = {}
        <3>1. y = [flushed |-> table, objects |-> table, matched |-> {}]
            BY <1>1, <2>3, <2>4, UnfoldsAt DEF Start
        <3>2. Ids(d) = {}
            BY <2>4 DEF Ids
        <3>3. table \in [SessionId -> Opt(Row)] /\ OneEach(table)
            BY DEF IsTable
        <3> HIDE DEF Wrong
        <3>4. Worked(p, table, d, y)
            BY <3>1, <3>2, <3>3 DEF Worked
        <3> QED  BY <2>3, <3>4
    <2>5. CASE d # {}
        <3>1. g[d] = Last(p, KeyOrder, g, d)
            BY <1>1, <2>5, UnfoldsAt
        <3>2. PICK i \in d : \E z \in g[d \ {i}] : y \in AfterItem(p, z, i, KeyOrder)
            <4> HIDE DEF Wrong
            <4> QED  BY <2>3, <3>1, InLast
        <3>3. PICK z \in g[d \ {i}] : y \in AfterItem(p, z, i, KeyOrder)
            BY <3>2
        <3>4. d \ {i} \in SUBSET p.items /\ d \ {i} \notin Wrong
            BY <2>2
        <3>5. Worked(p, table, d \ {i}, z)
            BY <3>3, <3>4
        <3>6. d \in SUBSET p.items
            OBVIOUS
        <3> QED  BY <2>3, <3>3, <3>5, <3>6, AfterItemWorks
    <2> QED  BY <2>4, <2>5
<1>3. p.items \notin Wrong
    BY <1>2
<1> QED  BY <1>1, <1>3

\* What one listing makes of the rows.
Reconciled(p, table, later) ==
    /\ IsTable(later) /\ Within(later, p.observed)
    /\ \A s \in SessionId :
          later[s] # None /\ later[s].rsid # None =>
              \/ later[s].rsid \in Ids(p.items) /\ later[s].reason = None
              \/ /\ table[s] # None /\ table[s].rsid = later[s].rsid
                 /\ later[s].reason = "RECONCILIATION" =>
                       \/ table[s].reason = "RECONCILIATION"
                       \/ later[s].rsid \notin Ids(p.items)

LEMMA RowsClosed ==
    ASSUME NEW row \in Row, NEW at \in Int, NEW why \in Reason
    PROVE  /\ CloseRow(row, at, why) \in Row
           /\ CloseRow(row, at, why).state = "CLOSED"
           /\ CloseRow(row, at, why).reason = why
           /\ CloseRow(row, at, why).rsid = row.rsid
           /\ CloseRow(row, at, why).source = row.source
           /\ CloseRow(row, at, why).connected = row.connected
<1>1. Max0(at - row.connected) \in Nat
    BY DEF Row, Max0
<1> QED  BY <1>1 DEF CloseRow, Row, Opt

LEMMA ListingReconciles ==
    ASSUME NEW p, IsListing(p), NEW table, IsTable(table), Within(table, p.observed),
           NEW x \in AfterItems(p, table, p.items, KeyOrder)
    PROVE  Reconciled(p, table, CloseEach(x.objects, Missing(p, x), p, "RECONCILIATION"))
<1> DEFINE missing == Missing(p, x)
           later == CloseEach(x.objects, missing, p, "RECONCILIATION")
<1>1. Worked(p, table, p.items, x)
    BY AfterItemsWork
<1>2. p.observed \in Int /\ "RECONCILIATION" \in Reason
    BY DEF IsListing, Reason
<1>3. /\ x \in [flushed : [SessionId -> Opt(Row)], objects : [SessionId -> Opt(Row)],
                matched : SUBSET SessionId]
      /\ \A s \in SessionId \ x.matched : x.flushed[s] = table[s] /\ x.objects[s] = table[s]
      /\ \A s \in x.matched : Listed(p, p.items, x.objects[s])
      /\ \A s \in Identified(table) : table[s].rsid \in Ids(p.items) <=> s \in x.matched
      /\ OneEach(x.objects)
    BY <1>1 DEF Worked
<1>4. ASSUME NEW s \in missing
      PROVE  /\ s \in SessionId \ x.matched
             /\ x.objects[s] = table[s] /\ table[s] # None /\ table[s] \in Row
             /\ table[s].state = "ACTIVE"
    <2>1. s \in SessionId \ x.matched /\ x.flushed[s] # None /\ x.flushed[s].state = "ACTIVE"
        BY DEF Missing, Coverable, ActiveIn
    <2>2. table[s] \in Opt(Row)
        BY <2>1 DEF IsTable
    <2> QED  BY <1>3, <2>1, <2>2 DEF Opt
<1>5. ASSUME NEW s \in SessionId
      PROVE  later[s] = IF s \in missing THEN CloseRow(x.objects[s], p.observed, "RECONCILIATION")
                        ELSE x.objects[s]
    BY DEF CloseEach
<1>6. later = [s \in SessionId |-> later[s]]
    BY DEF CloseEach
<1> HIDE DEF missing, later
<1>7. ASSUME NEW s \in missing
      PROVE  /\ later[s] \in Row /\ later[s].state = "CLOSED"
             /\ later[s].reason = "RECONCILIATION" /\ later[s].rsid = table[s].rsid
             /\ later[s].source = OwnSource
    <2>1. later[s] = CloseRow(table[s], p.observed, "RECONCILIATION")
        BY <1>4, <1>5
    <2>2. table[s].source = OwnSource
        BY <1>4 DEF IsTable
    <2> QED  BY <1>2, <1>4, <2>1, <2>2, RowsClosed
<1>8. ASSUME NEW s \in SessionId
      PROVE  /\ later[s] \in Opt(Row)
             /\ later[s] # None => later[s].source = OwnSource
             /\ later[s] # None /\ later[s].state = "ACTIVE" => later[s].reason = None
    <2>1. CASE s \in missing
        BY <1>7, <2>1 DEF Opt
    <2>2. CASE s \notin missing /\ s \in x.matched
        BY <1>3, <1>5, <2>2 DEF Opt, Listed
    <2>3. CASE s \notin missing /\ s \notin x.matched
        <3>1. later[s] = table[s]
            BY <1>3, <1>5, <2>3
        <3> QED  BY <3>1 DEF IsTable, ActiveIn
    <2> QED  BY <2>1, <2>2, <2>3
<1>9. ASSUME NEW s \in Identified(later)
      PROVE  s \in Identified(x.objects) /\ later[s] = x.objects[s]
    <2>1. s \in SessionId /\ s \notin missing
        BY <1>7 DEF Identified, ActiveIn
    <2> QED  BY <1>5, <2>1 DEF Identified, ActiveIn
<1>10. IsTable(later)
    <2>1. OneEach(later)
        BY <1>3, <1>9 DEF OneEach
    <2>2. later \in [SessionId -> Opt(Row)]
        BY <1>6, <1>8
    <2> QED  BY <1>8, <2>1, <2>2 DEF IsTable, ActiveIn
<1>11. Within(later, p.observed)
    <2>1. ASSUME NEW s \in Identified(later)
          PROVE  later[s].connected <= p.observed
        <3>1. CASE s \in x.matched
            BY <1>3, <1>9, <3>1 DEF Listed
        <3>2. CASE s \notin x.matched
            <4>1. later[s] = table[s] /\ s \in Identified(table)
                BY <1>3, <1>9, <3>2 DEF Identified, ActiveIn
            <4> QED  BY <4>1 DEF Within
        <3> QED  BY <3>1, <3>2
    <2> QED  BY <2>1 DEF Within
<1>12. ASSUME NEW s \in SessionId, later[s] # None, later[s].rsid # None
       PROVE  \/ later[s].rsid \in Ids(p.items) /\ later[s].reason = None
              \/ /\ table[s] # None /\ table[s].rsid = later[s].rsid
                 /\ later[s].reason = "RECONCILIATION" =>
                       \/ table[s].reason = "RECONCILIATION"
                       \/ later[s].rsid \notin Ids(p.items)
    <2>1. CASE s \in missing
        <3>1. s \in Identified(table) /\ s \notin x.matched
            BY <1>4, <1>7, <1>12, <2>1 DEF Identified, ActiveIn
        <3> QED  BY <1>3, <1>4, <1>7, <2>1, <3>1
    <2>2. CASE s \notin missing /\ s \in x.matched
        BY <1>3, <1>5, <2>2 DEF Listed
    <2>3. CASE s \notin missing /\ s \notin x.matched
        BY <1>3, <1>5, <1>12, <2>3
    <2> QED  BY <2>1, <2>2, <2>3
<1>13. Reconciled(p, table, later)
    BY <1>10, <1>11, <1>12 DEF Reconciled
<1> QED  BY <1>13 DEF later, missing

-----------------------------------------------------------------------------
(* What an event makes of them.                                            *)

\* What the profile hooks send.
IsHook(e) ==
    /\ e.source = OwnSource /\ e.who \in Identity
    /\ e.attrs \in Attributes /\ e.occurred \in Int

\* No event identifies a row, or ends one as missing.
Reported(table, later) ==
    /\ IsTable(later)
    /\ \A s \in SessionId :
          later[s] # None /\ later[s].rsid # None =>
              /\ table[s] # None /\ table[s].rsid = later[s].rsid
              /\ table[s].connected = later[s].connected
              /\ later[s].state = "ACTIVE" => table[s].state = "ACTIVE"
              /\ later[s].reason = "RECONCILIATION" => table[s].reason = "RECONCILIATION"

\* One row is replaced by one with as much of an identifier.
LEMMA RowReplaced ==
    ASSUME NEW table, IsTable(table), NEW s \in SessionId, NEW row \in Row,
           row.source = OwnSource,
           row.state = "ACTIVE" => row.reason = None,
           row.reason # "RECONCILIATION",
           row.rsid # None => /\ table[s] # None /\ table[s].rsid = row.rsid
                              /\ table[s].connected = row.connected
                              /\ row.state = "ACTIVE" => table[s].state = "ACTIVE"
    PROVE  Reported(table, [table EXCEPT ![s] = row])
<1> DEFINE later == [table EXCEPT ![s] = row]
<1>1. table \in [SessionId -> Opt(Row)]
    BY DEF IsTable
<1>2. later \in [SessionId -> Opt(Row)] /\ later[s] = row
    BY <1>1 DEF Opt
<1>3. \A t \in SessionId : t # s => later[t] = table[t]
    BY <1>1
<1> HIDE DEF later
<1>4. \A t \in SessionId : later[t] # None /\ later[t].rsid # None =>
              /\ table[t] # None /\ table[t].rsid = later[t].rsid
              /\ table[t].connected = later[t].connected
              /\ later[t].state = "ACTIVE" => table[t].state = "ACTIVE"
              /\ later[t].reason = "RECONCILIATION" => table[t].reason = "RECONCILIATION"
    BY <1>2, <1>3
<1>5. \A t \in Identified(later) : t \in Identified(table) /\ table[t].rsid = later[t].rsid
    BY <1>4 DEF Identified, ActiveIn
<1>6. OneEach(later)
    BY <1>5 DEF OneEach, IsTable
<1>7. \A t \in SessionId : /\ later[t] # None => later[t].source = OwnSource
                           /\ t \in ActiveIn(later) => later[t].reason = None
    BY <1>2, <1>3 DEF IsTable, ActiveIn
<1>8. IsTable(later)
    BY <1>2, <1>6, <1>7 DEF IsTable, ActiveIn
<1> QED  BY <1>4, <1>8 DEF Reported, later

LEMMA EventReports ==
    ASSUME NEW e, IsHook(e), NEW table, IsTable(table), NEW order,
           NEW later, later \in Connected(table, e, order) \/ later \in Disconnected(table, e)
    PROVE  Reported(table, later)
<1> DEFINE fitting == ActiveFor(table, e)
<1>1. Reported(table, table)
    BY DEF Reported, IsTable
<1>2. \A s \in Latest(table, fitting) :
          /\ s \in SessionId /\ table[s] \in Row /\ table[s] # None
          /\ table[s].state = "ACTIVE" /\ table[s].source = OwnSource /\ table[s].reason = None
    BY DEF Latest, ActiveFor, ActiveIn, IsTable, Opt
<1> HIDE DEF fitting
<1>3. CASE \E s \in Latest(table, fitting) : later = [table EXCEPT ![s] = ReconnectRow(@, e)]
    <2>1. PICK s \in Latest(table, fitting) :
              later = [table EXCEPT ![s] = ReconnectRow(table[s], e)]
        BY <1>3
    <2> DEFINE attrs == [table[s].attrs EXCEPT !["caller"] = e.attrs["caller"],
                                               !["addr"] = e.attrs["addr"]]
    <2>2. attrs \in Attributes /\ e.occurred \in Int
        BY <1>2 DEF Row, Attributes, Column, IsHook
    <2>3. ReconnectRow(table[s], e) = [table[s] EXCEPT !.attrs = attrs, !.observed = e.occurred]
        BY DEF ReconnectRow
    <2> HIDE DEF attrs
    <2>4. /\ ReconnectRow(table[s], e) \in Row
          /\ ReconnectRow(table[s], e).source = table[s].source
          /\ ReconnectRow(table[s], e).state = table[s].state
          /\ ReconnectRow(table[s], e).reason = table[s].reason
          /\ ReconnectRow(table[s], e).rsid = table[s].rsid
          /\ ReconnectRow(table[s], e).connected = table[s].connected
        BY <1>2, <2>2, <2>3 DEF Row
    <2>5. None # "RECONCILIATION"
        BY NullRow DEF Reason
    <2> QED  BY <1>2, <2>1, <2>4, <2>5, RowReplaced
<1>4. CASE \E s \in Latest(table, fitting) :
               later = [table EXCEPT ![s] = CloseRow(@, e.occurred, "DISCONNECT")]
    <2>1. PICK s \in Latest(table, fitting) :
              later = [table EXCEPT ![s] = CloseRow(table[s], e.occurred, "DISCONNECT")]
        BY <1>4
    <2>2. e.occurred \in Int /\ "DISCONNECT" \in Reason
        BY DEF IsHook, Reason
    <2>3. /\ CloseRow(table[s], e.occurred, "DISCONNECT") \in Row
          /\ CloseRow(table[s], e.occurred, "DISCONNECT").state = "CLOSED"
          /\ CloseRow(table[s], e.occurred, "DISCONNECT").reason = "DISCONNECT"
          /\ CloseRow(table[s], e.occurred, "DISCONNECT").rsid = table[s].rsid
          /\ CloseRow(table[s], e.occurred, "DISCONNECT").source = table[s].source
          /\ CloseRow(table[s], e.occurred, "DISCONNECT").connected = table[s].connected
        BY <1>2, <2>2, RowsClosed
    <2> DEFINE closed == CloseRow(table[s], e.occurred, "DISCONNECT")
    <2>4. later = [table EXCEPT ![s] = closed]
        BY <2>1
    <2>5. /\ closed \in Row /\ closed.state = "CLOSED" /\ closed.reason = "DISCONNECT"
          /\ closed.rsid = table[s].rsid /\ closed.source = table[s].source
          /\ closed.connected = table[s].connected
        BY <2>3
    <2> HIDE DEF closed
    <2> QED  BY <1>2, <2>4, <2>5, RowReplaced
<1>5. CASE \E s \in Unused(table) : later = [table EXCEPT ![s] = EventRow(e)]
    <2>1. PICK s \in SessionId : later = [table EXCEPT ![s] = EventRow(e)]
        BY <1>5 DEF Unused
    <2>2. /\ EventRow(e) \in Row /\ EventRow(e).source = OwnSource
          /\ EventRow(e).reason = None /\ EventRow(e).rsid = None
        BY OwnAssumption DEF EventRow, Row, Opt, IsHook
    <2>3. None # "RECONCILIATION"
        BY NullRow DEF Reason
    <2> QED  BY <2>1, <2>2, <2>3, RowReplaced
<1>6. \/ later = table
      \/ \E s \in Latest(table, fitting) : later = [table EXCEPT ![s] = ReconnectRow(@, e)]
      \/ \E s \in Latest(table, fitting) :
               later = [table EXCEPT ![s] = CloseRow(@, e.occurred, "DISCONNECT")]
      \/ \E s \in Unused(table) : later = [table EXCEPT ![s] = EventRow(e)]
    <2>1. CASE later \in Connected(table, e, order)
        BY <2>1, Zenon DEF Connected, Inserted, NewKeys, fitting
    <2>2. CASE later \in Disconnected(table, e)
        BY <2>2, Zenon DEF Disconnected, fitting
    <2> QED  BY <2>1, <2>2
<1> QED  BY <1>1, <1>3, <1>4, <1>5, <1>6

-----------------------------------------------------------------------------
(* The inductive invariant.                                                *)

\* The types, and what the scripts send.
Sends ==
    /\ endpoint \in Endpoints
    /\ now \in Nat /\ skew \in {0, MaxSkew} /\ due \in BOOLEAN
    /\ phase \in [RouterSessionId -> {"new", "up", "down"}]
    /\ began \in [RouterSessionId -> Opt(Nat)]
    /\ \A k \in Up : began[k] \in Nat /\ began[k] <= now
    /\ IsFiniteSet(Up)
    /\ script \in Opt([observed : Int, since : Nat])
    /\ \A m \in hooks : IsHook(m.content)
    /\ \A m \in reports :
          /\ IsListing(m.content)
          /\ \A k \in Ids(m.content.items) : k \in RouterSessionId /\ phase[k] # "new"

\* The clock that may be read next second, at best.
Soonest == now + MaxSkew - (IF due THEN 1 ELSE 0)

\* A listing is as recent as its date: one printed later, with a session that
\* one printed earlier has not got, is not dated earlier.
Dates ==
    /\ script # None => script.observed <= Soonest
    /\ \A m \in reports : m.content.observed <= Soonest
    /\ MaxSkew - skew <= 1 =>
          /\ script # None => \A m \in reports : m.content.observed <= script.observed
          /\ \A m, n \in reports : \A k \in Up :
                k \in Ids(n.content.items) /\ k \notin Ids(m.content.items) =>
                    m.content.observed <= n.content.observed

\* Of a row that carries an identifier: the session has come up, the last
\* snapshot accepted is no older than the row, and what is still on its way
\* without a session that is up is stale already.
Rows ==
    /\ IsTable(vpnSessions)
    /\ sourceSnapshotAt \in [Source -> Opt(Int)]
    /\ \A s \in SessionId :
          LET row == vpnSessions[s]
              mark == sourceSnapshotAt[OwnSource]
          IN
          row # None /\ row.rsid # None =>
              /\ phase[row.rsid] # "new"
              /\ mark # None
              /\ row.state = "ACTIVE" => row.connected <= mark
              /\ MaxSkew - skew <= 1 =>
                    /\ phase[row.rsid] = "up" =>
                          \A m \in reports :
                              row.rsid \notin Ids(m.content.items) => m.content.observed <= mark
                    /\ row.reason = "RECONCILIATION" => phase[row.rsid] = "down"

\* The slow request is an event, or none.
Alone ==
    /\ DOMAIN pc = {Slow} /\ DOMAIN job = {Slow}
    /\ pc[Slow] \in {"idle", "authenticate", "lookup", "insert", "replied"}
    /\ pc[Slow] = "idle" => job[Slow] = Handler!NoJob
    /\ pc[Slow] \in {"authenticate", "lookup", "insert"} =>
          /\ job[Slow].request \notin Snapshots
          /\ IsHook(job[Slow].request)

SysInv == Sends /\ Dates /\ (apart => Rows /\ Alone)

Sending == <<endpoint, now, skew, phase, began, script, due>>

\* Messages only leave: what is said of all of them goes on.
LEMMA SendsFewer ==
    Sends /\ hooks' \subseteq hooks /\ reports' \subseteq reports /\ UNCHANGED Sending => Sends'
BY DEF Sends, Sending, Up

LEMMA DatesFewer ==
    Dates /\ reports' \subseteq reports /\ UNCHANGED Sending => Dates'
BY DEF Dates, Sending, Up, Soonest

\* A step that leaves the slow request alone.
LEMMA AloneKept == SysInv /\ UNCHANGED handler => apart' = apart /\ (apart => Alone')
BY DEF SysInv, handler, Alone

LEMMA SnapshotHandled ==
    ASSUME Sends, Dates, Rows, NEW m \in reports, HandleSnapshot(m.content),
           reports' \subseteq reports, UNCHANGED Sending
    PROVE  Rows'
<1> DEFINE p == m.content
           mark == sourceSnapshotAt[OwnSource]
<1>0. OwnSource \in Source
    BY OwnAssumption
<1>1. CASE Outdated(p, sourceSnapshotAt[p.source]) /\ UNCHANGED tables
    BY <1>1 DEF Rows, tables, Sending
<1>2. CASE AppliesSnapshot(p)
    <2>1. IsListing(p) /\ p.source = OwnSource /\ p.observed \in Int /\ p.boot = None
        BY DEF Sends, IsListing
    <2>2. mark # None => p.observed > mark
        BY <1>0, <1>2, <2>1 DEF AppliesSnapshot, Outdated, Rows, Opt
    <2>3. /\ sourceSnapshotAt' \in [Source -> Opt(Int)]
          /\ sourceSnapshotAt'[OwnSource] = p.observed
          /\ p.observed # None
        BY <1>0, <1>2, <2>1, NoneAssumption DEF AppliesSnapshot, Rows, Opt
    <2>4. Within(vpnSessions, p.observed)
        <3>1. ASSUME NEW s \in Identified(vpnSessions)
              PROVE  vpnSessions[s].connected <= p.observed
            <4>1. /\ s \in SessionId /\ vpnSessions[s] # None /\ vpnSessions[s].rsid # None
                  /\ vpnSessions[s].state = "ACTIVE" /\ vpnSessions[s] \in Row
                BY DEF Identified, ActiveIn, Rows, IsTable, Opt
            <4>2. mark \in Int /\ vpnSessions[s].connected <= mark
                BY <4>1, <1>0 DEF Rows, Opt
            <4>3. vpnSessions[s].connected \in Int
                BY <4>1 DEF Row
            <4>4. mark # None
                BY <4>1 DEF Rows
            <4> HIDE DEF mark, p
            <4> QED  BY <2>1, <2>2, <4>2, <4>3, <4>4
        <3> QED  BY <3>1 DEF Within
    <2>5. Reconciled(p, vpnSessions, vpnSessions')
        <3>1. AfterReboot(p, vpnSessions, routerBootId) = vpnSessions
            BY <2>1 DEF AfterReboot, OtherBoot
        <3>2. PICK x \in AfterItems(p, vpnSessions, p.items, KeyOrder) :
                  vpnSessions' = CloseEach(x.objects, Missing(p, x), p, "RECONCILIATION")
            BY <1>2, <3>1 DEF AppliesSnapshot
        <3>3. IsTable(vpnSessions)
            BY DEF Rows
        <3> QED  BY <2>1, <2>4, <3>2, <3>3, ListingReconciles
    <2>6. ASSUME NEW s \in SessionId, vpnSessions'[s] # None, vpnSessions'[s].rsid # None,
                 vpnSessions'[s].state = "ACTIVE"
          PROVE  vpnSessions'[s].connected <= p.observed
        BY <2>5, <2>6 DEF Reconciled, Within, Identified, ActiveIn
    <2>7. ASSUME NEW s \in SessionId, vpnSessions'[s] # None, vpnSessions'[s].rsid # None
          PROVE  LET k == vpnSessions'[s].rsid
                 IN  /\ phase[k] # "new"
                     /\ MaxSkew - skew <= 1 =>
                           /\ phase[k] = "up" =>
                                 \A n \in reports : k \notin Ids(n.content.items) =>
                                                        n.content.observed <= p.observed
                           /\ vpnSessions'[s].reason = "RECONCILIATION" => phase[k] = "down"
        <3> DEFINE k == vpnSessions'[s].rsid
        <3>1. CASE k \in Ids(p.items) /\ vpnSessions'[s].reason = None
            <4>1. k \in RouterSessionId /\ phase[k] # "new"
                BY <3>1 DEF Sends
            <4>2. None # "RECONCILIATION"
                BY NullRow DEF Reason
            <4>3. MaxSkew - skew <= 1 /\ phase[k] = "up" =>
                      \A n \in reports : k \notin Ids(n.content.items) =>
                                             n.content.observed <= p.observed
                BY <3>1, <4>1 DEF Dates, Up
            <4> QED  BY <3>1, <4>1, <4>2, <4>3
        <3>2. CASE /\ vpnSessions[s] # None /\ vpnSessions[s].rsid = k
                   /\ vpnSessions'[s].reason = "RECONCILIATION" =>
                         \/ vpnSessions[s].reason = "RECONCILIATION"
                         \/ k \notin Ids(p.items)
            <4>1. /\ phase[k] # "new" /\ mark # None
                  /\ MaxSkew - skew <= 1 =>
                        /\ phase[k] = "up" =>
                              \A n \in reports : k \notin Ids(n.content.items) =>
                                                     n.content.observed <= mark
                        /\ vpnSessions[s].reason = "RECONCILIATION" => phase[k] = "down"
                BY <2>7, <3>2 DEF Rows
            <4>2. mark \in Int /\ p.observed > mark
                BY <1>0, <2>2, <4>1 DEF Rows, Opt
            <4>3. k \in RouterSessionId
                <5>1. vpnSessions[s] \in Row
                    BY <3>2 DEF Rows, IsTable, Opt
                <5> QED  BY <2>7, <3>2, <5>1 DEF Row, Opt
            <4>4. phase[k] \in {"new", "up", "down"}
                BY <4>3 DEF Sends
            <4>5. \A n \in reports : n.content.observed \in Int
                BY DEF Sends, IsListing
            <4> HIDE DEF k, mark
            <4>6. MaxSkew - skew <= 1 /\ phase[k] = "up" =>
                      \A n \in reports : k \notin Ids(n.content.items) =>
                                             n.content.observed <= p.observed
                BY <2>1, <4>1, <4>2, <4>5
            <4>7. MaxSkew - skew <= 1 /\ phase[k] = "up" => k \in Ids(p.items)
                BY <2>1, <4>1, <4>2
            <4> QED  BY <3>2, <4>1, <4>4, <4>6, <4>7 DEF k
        <3> QED  BY <2>5, <2>7, <3>1, <3>2 DEF Reconciled
    <2>8. IsTable(vpnSessions')
        BY <2>5 DEF Reconciled
    <2>9. phase' = phase /\ skew' = skew
        BY DEF Sending
    <2> HIDE DEF p
    <2> QED  BY <2>3, <2>6, <2>7, <2>8, <2>9 DEF Rows
<1> QED  BY <1>1, <1>2 DEF HandleSnapshot

LEMMA EventHandled ==
    ASSUME Sends, Rows, NEW m \in hooks, HandleEvent(m.content),
           reports' = reports, UNCHANGED Sending
    PROVE  Rows'
<1> DEFINE e == m.content
<1>1. CASE UNCHANGED tables
    BY <1>1 DEF Rows, tables, Sending
<1>2. CASE StoresEvent(e)
    <2>1. IsHook(e) /\ IsTable(vpnSessions)
        BY DEF Sends, Rows
    <2>2. \/ vpnSessions' \in Connected(vpnSessions, e, KeyOrder)
          \/ vpnSessions' \in Disconnected(vpnSessions, e)
        BY <1>2 DEF StoresEvent
    <2>3. Reported(vpnSessions, vpnSessions')
        BY <2>1, <2>2, EventReports
    <2>4. sourceSnapshotAt' = sourceSnapshotAt /\ phase' = phase /\ skew' = skew
        BY <1>2 DEF StoresEvent, Sending
    <2> QED  BY <2>3, <2>4 DEF Reported, Rows
<1> QED  BY <1>1, <1>2 DEF HandleEvent

LEMMA DeliveryStep ==
    SysInv /\ (Deliver \/ LoseAnswer \/ GiveUp) => SysInv'
<1> SUFFICES ASSUME SysInv, Deliver \/ LoseAnswer \/ GiveUp
             PROVE  SysInv'
    OBVIOUS
<1>1. /\ hooks' \subseteq hooks /\ reports' \subseteq reports /\ UNCHANGED Sending
      /\ \/ reports' = reports /\ \E m \in hooks : HandleEvent(m.content)
         \/ \E m \in reports : HandleSnapshot(m.content)
         \/ UNCHANGED tables
    BY DEF Deliver, LoseAnswer, GiveUp, Sending, clock, sessions, scripts
<1>2. Sends' /\ Dates'
    BY <1>1, SendsFewer, DatesFewer DEF SysInv
<1>3. ASSUME apart
      PROVE  Rows'
    <2>1. CASE \E m \in hooks : HandleEvent(m.content) /\ reports' = reports
        BY <1>1, <1>3, <2>1, EventHandled DEF SysInv
    <2>2. CASE \E m \in reports : HandleSnapshot(m.content)
        BY <1>1, <1>3, <2>2, SnapshotHandled DEF SysInv
    <2>3. CASE UNCHANGED tables
        BY <1>1, <1>3, <2>3 DEF SysInv, Rows, Sending, tables
    <2> QED  BY <1>1, <2>1, <2>2, <2>3
<1>4. apart' = apart /\ (apart => Alone')
    BY DEF SysInv, Alone, Deliver, LoseAnswer, GiveUp, Meanwhile, handler
<1> QED  BY <1>2, <1>3, <1>4 DEF SysInv

-----------------------------------------------------------------------------
(* The router's steps.                                                     *)

LEMMA Bounds == /\ MaxSkew \in Nat /\ Horizon \in Nat /\ Horizon > 0
                /\ ActiveUntil \in Nat /\ MaxDelay \in Nat
BY ClockAssumption

LEMMA InitSystem == SystemInit => SysInv
<1> SUFFICES ASSUME SystemInit
             PROVE  SysInv
    OBVIOUS
<1>1. Up = {}
    BY DEF SystemInit, Up
<1>2. Sends
    <2>1. IsFiniteSet(Up)
        BY <1>1, FS_EmptySet
    <2> QED  BY <1>1, <2>1 DEF SystemInit, Sends, Opt
<1>3. Dates
    BY DEF SystemInit, Dates
<1>4. Rows
    BY DEF SystemInit, Handler!Init, Handler!Nothing, Rows, IsTable, OneEach, Identified,
           ActiveIn, Opt
<1>5. Alone
    BY DEF SystemInit, Handler!Init, Alone
<1> QED  BY <1>2, <1>3, <1>4, <1>5 DEF SysInv

LEMMA TickStep == SysInv /\ Tick => SysInv'
<1> SUFFICES ASSUME SysInv, Tick
             PROVE  SysInv'
    OBVIOUS
<1>1. /\ now' = now + 1 /\ due' = TRUE /\ Up' = Up
      /\ UNCHANGED <<tables, skew, endpoint, phase, began, hooks, reports, script>>
    BY DEF Tick, sessions, Up
<1>2. Sends'
    BY <1>1 DEF SysInv, Sends
<1>3. Dates'
    <2>1. now \in Nat /\ due \in BOOLEAN /\ MaxSkew \in Nat
        BY Bounds DEF SysInv, Sends
    <2>2. Soonest <= Soonest' /\ Soonest \in Int /\ Soonest' \in Int
        BY <1>1, <2>1 DEF Soonest
    <2>3. script # None => script.observed \in Int
        BY DEF SysInv, Sends, Opt
    <2>4. \A m \in reports : m.content.observed \in Int
        BY DEF SysInv, Sends, IsListing
    <2> QED  BY <1>1, <2>2, <2>3, <2>4 DEF SysInv, Dates
<1>4. apart => Rows'
    BY <1>1 DEF SysInv, Rows, tables
<1>5. apart' = apart /\ (apart => Alone')
    BY AloneKept DEF Tick
<1> QED  BY <1>2, <1>3, <1>4, <1>5 DEF SysInv

LEMMA SetClockStep == SysInv /\ SetClock => SysInv'
<1> SUFFICES ASSUME SysInv, SetClock
             PROVE  SysInv'
    OBVIOUS
<1>1. /\ skew' = 0 /\ Up' = Up
      /\ UNCHANGED <<tables, now, endpoint, phase, began, hooks, reports, script, due>>
    BY DEF SetClock, sessions, scripts, Up
<1>2. MaxSkew \in Nat /\ skew = MaxSkew
    BY Bounds DEF SetClock, SysInv, Sends
<1>3. MaxSkew - skew <= 1
    BY <1>2
<1>4. Sends'
    BY <1>1 DEF SysInv, Sends
<1>5. Dates'
    BY <1>1, <1>3 DEF SysInv, Dates, Soonest
<1>6. apart => Rows'
    BY <1>1, <1>3 DEF SysInv, Rows, tables
<1>7. apart' = apart /\ (apart => Alone')
    BY AloneKept DEF SetClock
<1> QED  BY <1>4, <1>5, <1>6, <1>7 DEF SysInv

LEMMA HooksAreEvents ==
    ASSUME Sends, NEW k \in RouterSessionId, NEW type
    PROVE  IsHook(Hook(k, endpoint[k], type, Clock))
<1>1. endpoint[k] \in [user : User, addr : Text, iface : Text]
    BY OwnAssumption DEF Sends
<1>2. Clock \in Int
    BY Bounds DEF Sends, Clock
<1>3. <<endpoint[k].user, OwnService>> \in Identity
    BY <1>1, OwnAssumption DEF Identity
<1>4. [addr |-> endpoint[k].addr, caller |-> None, iface |-> endpoint[k].iface] \in Attributes
    BY <1>1 DEF Attributes, Column
<1> QED  BY <1>2, <1>3, <1>4 DEF IsHook, Hook

LEMMA ComesUpStep ==
    ASSUME SysInv, NEW k \in RouterSessionId, ComesUp(k)
    PROVE  SysInv'
<1>1. /\ phase[k] = "new" /\ phase' = [phase EXCEPT ![k] = "up"]
      /\ began' = [began EXCEPT ![k] = now]
      /\ hooks' = hooks \cup {Message(Hook(k, endpoint[k], "CONNECT", Clock))}
      /\ UNCHANGED <<tables, now, skew, endpoint, reports, script, due>>
    BY DEF ComesUp, clock
<1>2. phase \in [RouterSessionId -> {"new", "up", "down"}] /\ began \in [RouterSessionId -> Opt(Nat)]
      /\ now \in Nat
    BY DEF SysInv, Sends
<1>3. Up' = Up \cup {k} /\ k \notin Up
    BY <1>1, <1>2 DEF Up
<1>4. Sends'
    <2>1. IsFiniteSet(Up')
        BY <1>3, FS_AddElement DEF SysInv, Sends
    <2>2. \A m \in hooks' : IsHook(m.content)
        <3>1. IsHook(Hook(k, endpoint[k], "CONNECT", Clock))
            BY HooksAreEvents DEF SysInv
        <3> QED  BY <1>1, <3>1 DEF SysInv, Sends, Message
    <2>3. \A j \in Up' : began'[j] \in Nat /\ began'[j] <= now'
        BY <1>1, <1>2, <1>3 DEF SysInv, Sends, Up
    <2>4. began' \in [RouterSessionId -> Opt(Nat)]
        BY <1>1, <1>2 DEF Opt
    <2>5. phase' \in [RouterSessionId -> {"new", "up", "down"}]
        BY <1>1, <1>2
    <2>6. \A m \in reports' :
              /\ IsListing(m.content)
              /\ \A j \in Ids(m.content.items) : j \in RouterSessionId /\ phase'[j] # "new"
        BY <1>1, <1>2 DEF SysInv, Sends
    <2> QED  BY <1>1, <2>1, <2>2, <2>3, <2>4, <2>5, <2>6 DEF SysInv, Sends
<1>5. Dates'
    <2>1. \A m \in reports : k \notin Ids(m.content.items)
        BY <1>1 DEF SysInv, Sends
    <2> QED  BY <1>1, <1>3, <2>1 DEF SysInv, Dates, Soonest
<1>6. ASSUME apart
      PROVE  Rows'
    <2>1. \A s \in SessionId : vpnSessions[s] # None /\ vpnSessions[s].rsid # None =>
              vpnSessions[s].rsid # k /\ phase'[vpnSessions[s].rsid] = phase[vpnSessions[s].rsid]
        BY <1>1, <1>2, <1>6 DEF SysInv, Rows
    <2> QED  BY <1>1, <1>6, <2>1 DEF SysInv, Rows, tables
<1>7. apart' = apart /\ (apart => Alone')
    BY AloneKept DEF ComesUp
<1> QED  BY <1>4, <1>5, <1>6, <1>7 DEF SysInv

LEMMA GoesDownStep ==
    ASSUME SysInv, NEW k \in RouterSessionId, GoesDown(k)
    PROVE  SysInv'
<1>1. /\ phase[k] = "up" /\ phase' = [phase EXCEPT ![k] = "down"]
      /\ hooks' = hooks \cup {Message(Hook(k, endpoint[k], "DISCONNECT", Clock))}
      /\ UNCHANGED <<tables, now, skew, endpoint, began, reports, script, due>>
    BY DEF GoesDown, clock
<1>2. phase \in [RouterSessionId -> {"new", "up", "down"}]
    BY DEF SysInv, Sends
<1>3. Up' \subseteq Up
    BY <1>1, <1>2 DEF Up
<1>4. Sends'
    <2>1. IsFiniteSet(Up')
        BY <1>3, FS_Subset DEF SysInv, Sends
    <2>2. \A m \in hooks' : IsHook(m.content)
        <3>1. IsHook(Hook(k, endpoint[k], "DISCONNECT", Clock))
            BY HooksAreEvents DEF SysInv
        <3> QED  BY <1>1, <3>1 DEF SysInv, Sends, Message
    <2>3. \A j \in Up' : began'[j] \in Nat /\ began'[j] <= now'
        BY <1>1, <1>3 DEF SysInv, Sends
    <2>4. phase' \in [RouterSessionId -> {"new", "up", "down"}]
        BY <1>1, <1>2
    <2>5. \A m \in reports' :
              /\ IsListing(m.content)
              /\ \A j \in Ids(m.content.items) : j \in RouterSessionId /\ phase'[j] # "new"
        BY <1>1, <1>2 DEF SysInv, Sends
    <2> QED  BY <1>1, <2>1, <2>2, <2>3, <2>4, <2>5 DEF SysInv, Sends
<1>5. Dates'
    BY <1>1, <1>3 DEF SysInv, Dates, Soonest
<1>6. ASSUME apart
      PROVE  Rows'
    <2>1. ASSUME NEW s \in SessionId, vpnSessions[s] # None, vpnSessions[s].rsid # None
          PROVE  LET j == vpnSessions[s].rsid
                 IN  /\ phase[j] # "new" => phase'[j] # "new"
                     /\ phase'[j] = "up" => phase[j] = "up"
                     /\ phase[j] = "down" => phase'[j] = "down"
        BY <1>1, <1>2
    <2> QED  BY <1>1, <1>6, <2>1 DEF SysInv, Rows, tables
<1>7. apart' = apart /\ (apart => Alone')
    BY AloneKept DEF GoesDown
<1> QED  BY <1>4, <1>5, <1>6, <1>7 DEF SysInv

LEMMA StartScriptStep == SysInv /\ StartScript => SysInv'
<1> SUFFICES ASSUME SysInv, StartScript
             PROVE  SysInv'
    OBVIOUS
<1>1. /\ due \/ reports = {}
      /\ script' = [observed |-> Clock, since |-> now] /\ due' = FALSE /\ Up' = Up
      /\ UNCHANGED <<tables, now, skew, endpoint, phase, began, hooks, reports>>
    BY DEF StartScript, clock, sessions, Up
<1>2. now \in Nat /\ skew \in {0, MaxSkew} /\ MaxSkew \in Nat /\ due \in BOOLEAN
    BY Bounds DEF SysInv, Sends
<1>3. Clock \in Int /\ Clock <= now + MaxSkew /\ Clock = now + skew
    BY <1>2 DEF Clock
<1>4. Sends'
    <2>1. script' \in Opt([observed : Int, since : Nat])
        BY <1>1, <1>2, <1>3 DEF Opt
    <2> QED  BY <1>1, <2>1 DEF SysInv, Sends
<1>5. Dates'
    <2>1. Soonest' = now + MaxSkew /\ Soonest = now + MaxSkew - (IF due THEN 1 ELSE 0)
        BY <1>1, <1>2 DEF Soonest
    <2>2. ASSUME NEW m \in reports
          PROVE  /\ m.content.observed <= Soonest'
                 /\ MaxSkew - skew <= 1 => m.content.observed <= Clock
        <3>1. m.content.observed \in Int /\ m.content.observed <= Soonest /\ due = TRUE
            BY <1>1, <1>2 DEF SysInv, Sends, Dates, IsListing
        <3> QED  BY <1>2, <1>3, <2>1, <3>1
    <2>3. script'.observed = Clock
        BY <1>1
    <2> QED  BY <1>1, <1>3, <2>1, <2>2, <2>3 DEF SysInv, Dates
<1>6. apart => Rows'
    BY <1>1 DEF SysInv, Rows, tables
<1>7. apart' = apart /\ (apart => Alone')
    BY AloneKept DEF StartScript
<1> QED  BY <1>4, <1>5, <1>6, <1>7 DEF SysInv

Printed == Listing(script.observed, {Entry(k, endpoint[k], now - began[k]) : k \in Up})

LEMMA PrintedIsListing ==
    ASSUME Sends, script # None
    PROVE  /\ IsListing(Printed) /\ Printed.observed = script.observed
           /\ Ids(Printed.items) = Up
<1> DEFINE entry == [k \in Up |-> Entry(k, endpoint[k], now - began[k])]
           items == {entry[k] : k \in Up}
<1>1. Printed = [source |-> OwnSource, observed |-> script.observed, boot |-> None,
                 items |-> items]
    BY DEF Printed, Listing
<1>2. ASSUME NEW k \in Up
      PROVE  entry[k] \in Item /\ entry[k].rsid = k
    <2>1. k \in RouterSessionId
        BY DEF Up
    <2>2. endpoint[k] \in [user : User, addr : Text, iface : Text]
        BY <2>1, OwnAssumption DEF Sends
    <2>3. <<endpoint[k].user, OwnService>> \in Identity
        BY <2>2, OwnAssumption DEF Identity
    <2>4. [addr |-> endpoint[k].addr, caller |-> None, iface |-> None] \in Attributes
        BY <2>2 DEF Attributes, Column
    <2>5. now - began[k] \in Nat
        BY DEF Sends
    <2> QED  BY <2>1, <2>3, <2>4, <2>5 DEF Entry, Item, Opt
<1>3. IsFiniteSet(items)
    <2>1. entry \in Surjection(Up, items)
        BY DEF Surjection
    <2>2. IsFiniteSet(Up)
        BY DEF Sends
    <2> HIDE DEF entry, items
    <2> QED  BY <2>1, <2>2, FS_Surjection
<1> HIDE DEF entry
<1>4. \A i, j \in items : i.rsid = j.rsid => i = j
    BY <1>2
<1>5. Ids(items) = Up
    BY <1>2 DEF Ids
<1>6. script.observed \in Int
    BY DEF Sends, Opt
<1> HIDE DEF items
<1>7. items \subseteq Item
    BY <1>2 DEF items
<1> QED  BY <1>1, <1>3, <1>4, <1>5, <1>6, <1>7 DEF IsListing

LEMMA PrintActiveStep == SysInv /\ PrintActive => SysInv'
<1> SUFFICES ASSUME SysInv, PrintActive
             PROVE  SysInv'
    OBVIOUS
<1>1. /\ script # None /\ script' = None /\ Up' = Up
      /\ reports' = reports \cup {Message(Printed)}
      /\ UNCHANGED <<tables, now, skew, endpoint, phase, began, hooks, due>>
    BY DEF PrintActive, Printed, clock, sessions, Up
<1>2. /\ IsListing(Printed) /\ Printed.observed = script.observed
      /\ Ids(Printed.items) = Up
    BY <1>1, PrintedIsListing DEF SysInv
<1>3. Message(Printed).content = Printed
    BY DEF Message
<1>4. \A k \in Up : k \in RouterSessionId /\ phase[k] = "up"
    BY DEF Up
<1> HIDE DEF Printed
<1>5. Sends'
    <2>1. \A m \in reports' :
              /\ IsListing(m.content)
              /\ \A k \in Ids(m.content.items) : k \in RouterSessionId /\ phase[k] # "new"
        BY <1>1, <1>2, <1>3, <1>4 DEF SysInv, Sends
    <2>2. script' \in Opt([observed : Int, since : Nat])
        BY <1>1 DEF Opt
    <2> QED  BY <1>1, <2>1, <2>2 DEF SysInv, Sends
<1>6. Dates'
    <2>1. ASSUME NEW m \in reports', NEW n \in reports', NEW k \in Up,
                 MaxSkew - skew <= 1,
                 k \in Ids(n.content.items), k \notin Ids(m.content.items)
          PROVE  m.content.observed <= n.content.observed
        <3>1. m \in reports
            BY <1>1, <1>2, <1>3, <2>1
        <3>2. CASE n \in reports
            BY <2>1, <3>1, <3>2 DEF SysInv, Dates
        <3>3. CASE n = Message(Printed)
            BY <1>1, <1>2, <1>3, <2>1, <3>1, <3>3 DEF SysInv, Dates
        <3> QED  BY <1>1, <3>2, <3>3
    <2>2. \A m \in reports' : m.content.observed <= Soonest
        BY <1>1, <1>2, <1>3 DEF SysInv, Dates
    <2> QED  BY <1>1, <2>1, <2>2 DEF SysInv, Dates, Soonest
<1>7. ASSUME apart
      PROVE  Rows'
    <2>1. \A s \in SessionId : vpnSessions[s] # None /\ vpnSessions[s].rsid # None
                               /\ phase[vpnSessions[s].rsid] = "up" =>
              vpnSessions[s].rsid \in Up
        <3>1. ASSUME NEW s \in SessionId, vpnSessions[s] # None, vpnSessions[s].rsid # None
              PROVE  vpnSessions[s].rsid \in RouterSessionId
            <4>1. vpnSessions[s] \in Row
                BY <1>7, <3>1 DEF SysInv, Rows, IsTable, Opt
            <4> QED  BY <3>1, <4>1 DEF Row, Opt
        <3> QED  BY <3>1 DEF Up
    <2> QED  BY <1>1, <1>2, <1>3, <1>7, <2>1 DEF SysInv, Rows, tables
<1>8. apart' = apart /\ (apart => Alone')
    BY AloneKept DEF PrintActive
<1> QED  BY <1>5, <1>6, <1>7, <1>8 DEF SysInv

-----------------------------------------------------------------------------
(* The steps of the slow request.                                          *)

LEMMA TakeUpEventStep == SysInv /\ TakeUpEvent => SysInv'
<1> SUFFICES ASSUME SysInv, TakeUpEvent
             PROVE  SysInv'
    OBVIOUS
<1>1. PICK m \in hooks : m.content \in Events /\ TakeUp(m) /\ UNCHANGED apart
    BY DEF TakeUpEvent
<1>2. UNCHANGED <<tables, hooks, reports>> /\ UNCHANGED Sending
    BY <1>1 DEF TakeUp, Handler!Accept, Handler!database, tables, clock, sessions, scripts,
                Sending
<1>3. Sends' /\ Dates'
    BY <1>2, SendsFewer, DatesFewer DEF SysInv
<1>4. apart => Rows'
    BY <1>2 DEF SysInv, Rows, Sending, tables
<1>5. ASSUME apart
      PROVE  Alone'
    <2>1. m.content \notin Snapshots /\ IsHook(m.content)
        BY <1>1, RequestAssumption DEF SysInv, Sends
    <2>2. /\ job' = [job EXCEPT ![Slow].request = m.content]
          /\ pc' = [pc EXCEPT ![Slow] = "authenticate"] /\ pc[Slow] = "idle"
        BY <1>1, <2>1 DEF TakeUp, Handler!Accept, Handler!Goto
    <2>3. DOMAIN pc = {Slow} /\ DOMAIN job = {Slow} /\ job[Slow] = Handler!NoJob
        BY <1>5, <2>2 DEF SysInv, Alone
    <2>4. job'[Slow].request = m.content
        BY <2>2, <2>3 DEF Handler!NoJob
    <2>5. DOMAIN pc' = {Slow} /\ DOMAIN job' = {Slow} /\ pc'[Slow] = "authenticate"
        BY <2>2, <2>3
    <2> QED  BY <2>1, <2>4, <2>5 DEF Alone
<1> QED  BY <1>1, <1>3, <1>4, <1>5 DEF SysInv

LEMMA TakeUpSnapshotStep == SysInv /\ TakeUpSnapshot => SysInv'
<1> SUFFICES ASSUME SysInv, TakeUpSnapshot
             PROVE  SysInv'
    OBVIOUS
<1>1. UNCHANGED <<tables, hooks, reports>> /\ UNCHANGED Sending /\ apart' = FALSE
    BY DEF TakeUpSnapshot, TakeUp, Handler!Accept, Handler!database, tables, clock, sessions,
           scripts, Sending
<1>2. Sends' /\ Dates'
    BY <1>1, SendsFewer, DatesFewer DEF SysInv
<1> QED  BY <1>1, <1>2 DEF SysInv

\* The handler's operators on rows are those of the other requests.
LEMMA SameOperators ==
    ASSUME NEW table, NEW e
    PROVE  /\ Handler!Blank(e.attrs["iface"]) <=> Blank(e.attrs["iface"])
           /\ Handler!Latest(table, Handler!ActiveFor(table, e)) = Latest(table, ActiveFor(table, e))
           /\ Handler!EventRow(e) = EventRow(e)
           /\ \A row : Handler!ReconnectRow(row, e) = ReconnectRow(row, e)
           /\ \A row, at, why : Handler!CloseRow(row, at, why) = CloseRow(row, at, why)
<1>1. Handler!ActiveIn(table) = ActiveIn(table)
    BY DEF Handler!ActiveIn, ActiveIn
<1>2. Handler!ActiveFor(table, e) = ActiveFor(table, e)
    BY <1>1 DEF Handler!ActiveFor, ActiveFor, Handler!Blank, Blank
<1>3. Handler!Latest(table, ActiveFor(table, e)) = Latest(table, ActiveFor(table, e))
    BY DEF Handler!Latest, Latest
<1>4. Handler!Blank(e.attrs["iface"]) <=> Blank(e.attrs["iface"])
    BY DEF Handler!Blank, Blank
<1>5. Handler!EventRow(e) = EventRow(e)
    BY DEF Handler!EventRow, EventRow
<1>6. \A row : Handler!ReconnectRow(row, e) = ReconnectRow(row, e)
    BY DEF Handler!ReconnectRow, ReconnectRow
<1>7. \A row, at, why : Handler!CloseRow(row, at, why) = CloseRow(row, at, why)
    <2>1. \A n : Handler!Max0(n) = Max0(n)
        BY DEF Handler!Max0, Max0
    <2> QED  BY <2>1 DEF Handler!CloseRow, CloseRow
<1> QED  BY <1>2, <1>3, <1>4, <1>5, <1>6, <1>7

\* What the transaction of a slow event makes of the rows that are there when
\* it is committed, whatever the lookup before it has seen.
LEMMA SlowEventStored ==
    ASSUME Handler!StoreEvent(Slow)
    PROVE  LET e == job[Slow].request IN
           /\ \/ vpnSessions' = vpnSessions
              \/ vpnSessions' \in Connected(vpnSessions, e, {})
              \/ vpnSessions' \in Disconnected(vpnSessions, e)
           /\ sourceSnapshotAt' = sourceSnapshotAt
<1> DEFINE e == job[Slow].request
<1>1. CASE Handler!AnswerUnchanged(Slow, "duplicate")
    BY <1>1 DEF Handler!AnswerUnchanged, Handler!database
<1>2. CASE Handler!ApplyConnect(Slow, e)
    <2> DEFINE same == IF Blank(e.attrs["iface"]) THEN {}
                       ELSE Latest(vpnSessions, ActiveFor(vpnSessions, e))
    <2>1. CASE \E s \in same : Handler!CommitEvent(Slow,
                  [vpnSessions EXCEPT ![s] = ReconnectRow(@, e)], "ALREADY_ACTIVE")
        <3>1. \E s \in same : vpnSessions' = [vpnSessions EXCEPT ![s] = ReconnectRow(@, e)]
              /\ sourceSnapshotAt' = sourceSnapshotAt
            BY <2>1 DEF Handler!CommitEvent
        <3>2. vpnSessions' \in {[vpnSessions EXCEPT ![s] = ReconnectRow(@, e)] : s \in same}
            BY <3>1
        <3>3. same # {}
            BY <3>1
        <3> QED  BY <3>1, <3>2, <3>3, Zenon DEF Connected
    <2>2. CASE same = {} /\ \E s \in SessionId :
                  /\ vpnSessions[s] = None
                  /\ Handler!CommitEvent(Slow, [vpnSessions EXCEPT ![s] = EventRow(e)], "CREATED")
        <3>1. PICK s \in SessionId :
                  /\ vpnSessions[s] = None
                  /\ vpnSessions' = [vpnSessions EXCEPT ![s] = EventRow(e)]
                  /\ sourceSnapshotAt' = sourceSnapshotAt
            BY <2>2 DEF Handler!CommitEvent
        <3>2. s \in NewKeys(vpnSessions, {})
            BY <3>1 DEF NewKeys, Unused
        <3>3. vpnSessions' \in Inserted(vpnSessions, EventRow(e), {})
            BY <3>1, <3>2, Zenon DEF Inserted
        <3> QED  BY <2>2, <3>1, <3>3, Zenon DEF Connected
    <2> QED  BY <1>2, <2>1, <2>2, SameOperators DEF Handler!ApplyConnect
<1>3. CASE Handler!ApplyDisconnect(Slow, e)
    <2> DEFINE fitting == Latest(vpnSessions, ActiveFor(vpnSessions, e))
    <2>1. CASE \E s \in fitting : Handler!CommitEvent(Slow,
                  [vpnSessions EXCEPT ![s] = CloseRow(@, e.occurred, "DISCONNECT")], "CLOSED")
        <3>1. \E s \in fitting :
                  vpnSessions' = [vpnSessions EXCEPT ![s] = CloseRow(@, e.occurred, "DISCONNECT")]
              /\ sourceSnapshotAt' = sourceSnapshotAt
            BY <2>1 DEF Handler!CommitEvent
        <3>2. vpnSessions' \in
                  {[vpnSessions EXCEPT ![s] = CloseRow(@, e.occurred, "DISCONNECT")] : s \in fitting}
            BY <3>1
        <3>3. fitting # {}
            BY <3>1
        <3> QED  BY <3>1, <3>2, <3>3, Zenon DEF Disconnected
    <2>2. CASE Handler!CommitEvent(Slow, vpnSessions, "NO_ACTIVE_SESSION")
        BY <2>2 DEF Handler!CommitEvent
    <2> QED  BY <1>3, <2>1, <2>2, SameOperators DEF Handler!ApplyDisconnect
<1> QED  BY <1>1, <1>2, <1>3 DEF Handler!StoreEvent

LEMMA HandleStep == SysInv /\ Handle => SysInv'
<1> SUFFICES ASSUME SysInv, Handle
             PROVE  SysInv'
    OBVIOUS
<1>1. UNCHANGED <<hooks, reports, apart>> /\ UNCHANGED Sending
    BY DEF Handle, clock, sessions, scripts, Sending
<1>2. Sends' /\ Dates'
    BY <1>1, SendsFewer, DatesFewer DEF SysInv
<1>3. ASSUME apart
      PROVE  Rows' /\ Alone'
    <2> DEFINE e == job[Slow].request
    <2>1. Rows /\ Alone
        BY <1>3 DEF SysInv
    <2>2. ~Handler!SnapshotStep(Slow)
        BY <2>1 DEF Alone, Handler!SnapshotStep, Handler!ResolveSnapshot,
                    Handler!CloseForReboot, Handler!FlushReboot,
                    Handler!FindByRouterSessionId, Handler!FindEventFallback,
                    Handler!CreateReconciled, Handler!CloseMissing, Handler!CommitSnapshot
    <2>3. CASE Handler!Authenticate(Slow)
        <3>1. /\ pc[Slow] = "authenticate" /\ e \notin Snapshots /\ IsHook(e)
            BY <2>1, <2>3 DEF Alone, Handler!Authenticate
        <3>2. /\ pc' = [pc EXCEPT ![Slow] = "lookup"] /\ job' = job /\ UNCHANGED tables
            BY <2>3, <3>1 DEF Handler!Authenticate, Handler!Goto, Handler!database, tables
        <3>3. Rows'
            BY <1>1, <2>1, <3>2 DEF Rows, tables, Sending
        <3>4. Alone'
            BY <2>1, <3>1, <3>2 DEF Alone
        <3> QED  BY <3>3, <3>4
    <2>4. CASE Handler!LookupEvent(Slow)
        <3>1. /\ pc[Slow] = "lookup" /\ e \notin Snapshots /\ IsHook(e)
            BY <2>1, <2>4 DEF Alone, Handler!LookupEvent
        <3>2. UNCHANGED tables /\ DOMAIN job' = DOMAIN job
              /\ \/ pc' = [pc EXCEPT ![Slow] = "insert"] /\ job' = job
                 \/ pc' = [pc EXCEPT ![Slow] = "replied"]
            BY <2>4 DEF Handler!LookupEvent, Handler!AnswerUnchanged, Handler!Answer,
                        Handler!Goto, Handler!database, tables
        <3>3. Rows'
            BY <1>1, <2>1, <3>2 DEF Rows, tables, Sending
        <3>4. Alone'
            BY <2>1, <3>1, <3>2 DEF Alone
        <3> QED  BY <3>3, <3>4
    <2>5. CASE Handler!StoreEvent(Slow)
        <3>1. IsHook(e)
            BY <2>1, <2>5 DEF Alone, Handler!StoreEvent
        <3>2. /\ \/ vpnSessions' = vpnSessions
                 \/ vpnSessions' \in Connected(vpnSessions, e, {})
                 \/ vpnSessions' \in Disconnected(vpnSessions, e)
              /\ sourceSnapshotAt' = sourceSnapshotAt
            BY <2>5, SlowEventStored
        <3>3. Rows'
            <4>1. CASE vpnSessions' = vpnSessions
                BY <1>1, <2>1, <3>2, <4>1 DEF Rows, Sending
            <4>2. CASE \/ vpnSessions' \in Connected(vpnSessions, e, {})
                       \/ vpnSessions' \in Disconnected(vpnSessions, e)
                <5>1. Reported(vpnSessions, vpnSessions')
                    BY <2>1, <3>1, <4>2, EventReports DEF Rows
                <5> QED  BY <1>1, <2>1, <3>2, <5>1 DEF Reported, Rows, Sending
            <4> QED  BY <3>2, <4>1, <4>2
        <3>4. pc' = [pc EXCEPT ![Slow] = "replied"] /\ DOMAIN job' = DOMAIN job
            BY <2>5 DEF Handler!StoreEvent, Handler!ApplyConnect, Handler!ApplyDisconnect,
                        Handler!CommitEvent, Handler!AnswerUnchanged, Handler!Answer, Handler!Goto
        <3>5. Alone'
            BY <2>1, <3>4 DEF Alone
        <3> QED  BY <3>3, <3>5
    <2> QED  BY <2>2, <2>3, <2>4, <2>5 DEF Handle, Handler!EventStep
<1> QED  BY <1>1, <1>2, <1>3 DEF SysInv

LEMMA HandlerEnds == SysInv /\ (Answered \/ Fails) => SysInv'
<1> SUFFICES ASSUME SysInv, Answered \/ Fails
             PROVE  SysInv'
    OBVIOUS
<1>1. /\ UNCHANGED tables /\ hooks' \subseteq hooks /\ reports' \subseteq reports
      /\ UNCHANGED Sending /\ apart' = apart
      /\ pc' = [pc EXCEPT ![Slow] = "idle"]
      /\ job' = [job EXCEPT ![Slow] = Handler!NoJob]
    BY DEF Answered, Fails, Handler!Respond, Handler!Abort, Handler!Goto, Handler!database,
           tables, clock, sessions, scripts, Sending
<1>2. Sends' /\ Dates'
    BY <1>1, SendsFewer, DatesFewer DEF SysInv
<1>3. ASSUME apart
      PROVE  Rows' /\ Alone'
    <2>1. Rows'
        BY <1>1, <1>3 DEF SysInv, Rows, Sending, tables
    <2>2. Alone'
        BY <1>1, <1>3 DEF SysInv, Alone
    <2> QED  BY <2>1, <2>2
<1> QED  BY <1>1, <1>2, <1>3 DEF SysInv

LEMMA StutterStep == SysInv /\ UNCHANGED system => SysInv'
<1> SUFFICES ASSUME SysInv, UNCHANGED system
             PROVE  SysInv'
    OBVIOUS
<1>1. /\ UNCHANGED Sending /\ hooks' \subseteq hooks /\ reports' \subseteq reports
      /\ UNCHANGED tables /\ Up' = Up
    BY DEF system, Sending, clock, sessions, scripts, Up
<1>2. Sends' /\ Dates'
    BY <1>1, SendsFewer, DatesFewer DEF SysInv
<1>3. apart => Rows'
    BY <1>1 DEF SysInv, Rows, Sending, tables
<1>4. apart' = apart /\ (apart => Alone')
    BY AloneKept DEF system
<1> QED  BY <1>2, <1>3, <1>4 DEF SysInv

-----------------------------------------------------------------------------

\* Whatever is lost, repeated or overtaken, on any number of sessions, and though
\* events be handled while other requests commit: a row that carries the
\* identifier of a session is ended as missing (snapshots.py:264-285) only when
\* that session is down, as long as no other request commits while a snapshot is
\* handled and the clock has not been set back by more than a second.
THEOREM RealEnds == SystemSpec => []IdentifiedEndIsReal
<1>1. SystemInit => SysInv
    BY InitSystem
<1>2. SysInv /\ [SystemNext]_system => SysInv'
    <2> SUFFICES ASSUME SysInv, [SystemNext]_system
                 PROVE  SysInv'
        OBVIOUS
    <2>1. CASE Tick \/ SetClock \/ StartScript \/ PrintActive
        BY <2>1, TickStep, SetClockStep, StartScriptStep, PrintActiveStep
    <2>2. CASE \E k \in RouterSessionId : ComesUp(k) \/ GoesDown(k)
        BY <2>2, ComesUpStep, GoesDownStep
    <2>3. CASE Deliver \/ LoseAnswer \/ GiveUp
        BY <2>3, DeliveryStep
    <2>4. CASE TakeUpEvent \/ TakeUpSnapshot \/ Handle \/ Answered \/ Fails
        BY <2>4, TakeUpEventStep, TakeUpSnapshotStep, HandleStep, HandlerEnds
    <2>5. CASE UNCHANGED system
        BY <2>5, StutterStep
    <2> QED  BY <2>1, <2>2, <2>3, <2>4, <2>5 DEF SystemNext, Progress
<1>3. SysInv => IdentifiedEndIsReal
    BY DEF SysInv, Rows, IdentifiedEndIsReal
<1> QED  BY <1>1, <1>2, <1>3, PTL DEF SystemSpec
=============================================================================
