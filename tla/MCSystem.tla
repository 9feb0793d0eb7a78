------------------------------ MODULE MCSystem ------------------------------
(***************************************************************************)
(* Small instances of System: the PPP sessions of one user or two, and all *)
(* the messages the scripts can send about them.                           *)
(***************************************************************************)
EXTENDS System, Sequences, TLC

CONSTANTS vpn, ann, bob, ppp, a1, a2, f1, f2

\* Rows are numbered in the order they are inserted in, to tell no states apart
\* that differ in the choice of a key.
MCKeyOrder == {k \in SessionId \X SessionId : k[1] < k[2]}

MCSourceServices == [s \in Source |-> {ppp}]

End(user, addr, iface) == [user |-> user, addr |-> addr, iface |-> iface]

\* ann reconnects.
Reconnects == {<<End(ann, a1, f1), End(ann, a1, f1)>>}

\* ann reconnects, or is connected twice, or bob connects after her and gets
\* the same interface and address.
MCEndpoints ==
    Reconnects \cup
    {<<End(ann, a1, f1), End(ann, a2, f2)>>,
     <<End(ann, a1, f1), End(bob, a1, f1)>>}

Instants == 0 .. Horizon + MaxSkew

MCEventId == RouterSessionId \X {"CONNECT", "DISCONNECT"}

MCEvents ==
    {Hook(k, ends[k], type, at) : k \in RouterSessionId, ends \in MCEndpoints,
                                  type \in {"CONNECT", "DISCONNECT"}, at \in Instants}

MCItems == UNION {{Entry(k, ends[k], up) : k \in RouterSessionId, up \in 0 .. Horizon} : ends \in MCEndpoints}

MCSnapshots ==
    {p \in [source : {vpn}, observed : Instants, boot : {None}, items : SUBSET MCItems] :
        \A i, j \in p.items : i.rsid = j.rsid => i = j}

\* States that differ only in what nothing reads any more are not told apart.
\* Of the rows those count that are active or held by the slow request, in the
\* order of their keys; of an active one the columns of the guards; of the
\* closed ones how many there are, and which sessions they end falsely so far.
\* Of a stored event what is left is that it is being sent; of the instants,
\* those of sessions that are up.
LiveRow(row) ==
    IF row = None THEN None
    ELSE IF row.state = "ACTIVE" THEN <<row.rsid, row.who, row.attrs, row.connected>>
    ELSE "CLOSED"

LiveObject(object) ==
    IF object = None THEN None ELSE <<LiveRow(object.old), LiveRow(object.new)>>

Live(row) == row # None /\ row.state = "ACTIVE"

Keys == [s \in SessionId |-> s]

LiveRows ==
    IF slow = None THEN
        LET Counts(s) == Live(vpnSessions[s])
            keys == SelectSeq(Keys, Counts)
        IN  [n \in DOMAIN keys |-> LiveRow(vpnSessions[keys[n]])]
    ELSE
        LET Held(s) == dirty[Slow][s] # None \/ s \in job[Slow].matched
            Counts(s) == Live(vpnSessions[s]) \/ Live(work[s]) \/ Held(s)
            keys == SelectSeq(Keys, Counts)
            Seen(s) == <<LiveRow(vpnSessions[s]), LiveRow(work[s]),
                         LiveObject(dirty[Slow][s]), s \in job[Slow].matched>>
        IN  [n \in DOMAIN keys |-> Seen(keys[n])]

FalselyEnded ==
    {s \in SessionId :
        LET row == vpnSessions[s]
        IN  /\ row # None /\ row.reason = "RECONCILIATION" /\ row.rsid # None
            /\ phase[row.rsid] # "down"}

LiveHandler ==
    IF slow = None THEN <<apart>>
    ELSE <<apart, slow, slow.content \in vpnEvents, lock, Cardinality(Unused(work)), pc,
           [job[Slow] EXCEPT !.request = None, !.mark = None, !.matched = None]>>

LiveHook(m) ==
    IF m.content \in vpnEvents THEN <<"stored", m.content.id, m.since>> ELSE <<"new", m>>

LiveState ==
    <<LiveRows, Cardinality(Unused(vpnSessions)), {vpnSessions[s].rsid : s \in FalselyEnded}, LiveHandler,
      {LiveHook(m) : m \in hooks}, reports, script, due,
      sourceSnapshotAt, clock, endpoint, phase, [k \in Up |-> began[k]], faults>>
=============================================================================
