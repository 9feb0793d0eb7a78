--------------------------- MODULE SerialInvariant ---------------------------
(***************************************************************************)
(* The inductive invariant behind the properties of requests handled one   *)
(* at a time: what process_snapshot has done so far, at each statement of  *)
(* its loop, to the rows as they will be written (Rows) and to the rows    *)
(* its SELECTs run on (View), which differ until the next flush.           *)
(***************************************************************************)
EXTENDS Ingestion, RequestEffects

OneAtATime == \A v, w \in Worker : v = w

-----------------------------------------------------------------------------

\* The table with the pending objects in place.
Rows(w) == [s \in SessionId |-> IF dirty[w][s] = None THEN View(w)[s] ELSE dirty[w][s].new]

Looping == {"items", "fallback", "create"}
Reconciling == Looping \cup {"commit"}
Handling == {"reboot", "flush"} \cup Reconciling

\* The watermarks as the commit of this snapshot will leave them.
SourceMarks(p) == [sourceSnapshotAt EXCEPT ![p.source] = p.observed]

BootAfter(p) == IF p.boot = None THEN routerBootId ELSE p.boot

MarkAfter(p) == IF Outdated(p, routerSnapshotAt) THEN routerSnapshotAt ELSE p.observed

-----------------------------------------------------------------------------
(* Tables.                                                                 *)

\* An identifier was given by a snapshot not older than the session.
Identified(table, marks) ==
    \A s \in ActiveIn(table) : table[s].rsid # None =>
        /\ marks[table[s].source] # None
        /\ table[s].connected <= marks[table[s].source]

\* So was a boot, and it is the one on record.
OfBoot(table, mark, boot) ==
    \A s \in ActiveIn(table) : table[s].boot # None =>
        /\ table[s].boot = boot
        /\ mark # None
        /\ table[s].connected <= mark

OneEach(table) ==
    \A s, t \in ActiveIn(table) :
        /\ table[s].source = table[t].source
        /\ table[s].rsid # None
        /\ table[s].rsid = table[t].rsid
        => s = t

-----------------------------------------------------------------------------
(* A request.                                                              *)

\* What it has read and not yet written.
Pending(w) ==
    /\ lock \in {None, w}
    /\ lock = w => pc[w] \in Reconciling
    /\ pc[w] \notin {"flush"} \cup Reconciling => dirty[w] = Nothing
    /\ pc[w] \notin Reconciling => job[w].matched = {}
    /\ \A s \in SessionId : dirty[w][s] # None => dirty[w][s].old = View(w)[s]

\* The Router it was authenticated with is the Router as it is.
RouterIsCurrent(w) ==
    job[w].request \in Snapshots /\ pc[w] # "replied" =>
        job[w].boot = routerBootId /\ job[w].mark = routerSnapshotAt

NotStale(w) ==
    /\ pc[w] \in Handling => ~Stale(w)
    /\ pc[w] \in {"reboot", "flush"} => BootChanged(w)

\* After the reboot: nothing the snapshot covers is left, the rest is as it was.
Rebooted(w) ==
    pc[w] = "flush" =>
        \A s \in ActiveIn(Rows(w)) :
            Rows(w)[s] = View(w)[s] /\ View(w)[s].connected > job[w].request.observed

\* The items that are still to come, among them the one in hand, which no
\* row that the SELECT can find has the identifier of.
ToCome(w) ==
    LET p == job[w].request IN
    /\ pc[w] \in {"reboot", "flush"} => job[w].todo = p.items
    /\ pc[w] \in Looping => job[w].todo \subseteq p.items
    /\ pc[w] \in {"fallback", "create"} =>
          job[w].item \in job[w].todo /\ WithRouterSessionId(View(w), p, job[w].item) = {}
    /\ pc[w] = "commit" => job[w].todo = {}

Done(w) == job[w].request.items \ job[w].todo

\* The row has taken over what the item says of the session.
Carries(row, item) ==
    /\ row.rsid = item.rsid
    /\ row.who = item.who
    /\ \A c \in Column : ~Blank(item.attrs[c]) => row.attrs[c] = item.attrs[c]

\* While items are matched, an object only differs from its row as one of the
\* snapshot's sessions, identified by an item if it was not before.
Edited(w) ==
    pc[w] \in Looping =>
        \A s \in SessionId : dirty[w][s] # None =>
            LET p == job[w].request
                seen == View(w)[s]
                row == Rows(w)[s]
            IN
            /\ seen.source = p.source
            /\ seen.connected <= p.observed
            /\ row.state = seen.state
            /\ row.rsid # seen.rsid =>
                  seen.rsid = None /\ \E j \in Done(w) : Carries(row, j)

\* What has been matched is active, of the source and identified by an item.
Matched(w) ==
    pc[w] \in Reconciling =>
        LET p == job[w].request IN
        /\ \A s \in job[w].matched :
              /\ s \in Coverable(Rows(w), p.observed)
              /\ Rows(w)[s].source = p.source
              /\ \E j \in Done(w) : Rows(w)[s].rsid = j.rsid
        /\ Distinguishable(p) =>
              \A j \in Done(w) : \E s \in job[w].matched : Rows(w)[s].rsid = j.rsid
        /\ pc[w] = "commit" =>
              \A s \in Coverable(Rows(w), p.observed) :
                  Rows(w)[s].source = p.source => s \in job[w].matched

\* Both tables keep to what the watermarks will be.
TablesKeep(w) ==
    pc[w] \in Reconciling =>
        LET p == job[w].request IN
        /\ \A table \in {View(w), Rows(w)} :
              Identified(table, SourceMarks(p)) /\ OneEach(table)
        /\ OfBoot(Rows(w), MarkAfter(p), BootAfter(p))

\* A session closed for its readers is not written.
HistoryKept(w) ==
    \A s \in SessionId :
        vpnSessions[s] # None /\ vpnSessions[s].state = "CLOSED" =>
            Rows(w)[s] = vpnSessions[s] /\ View(w)[s] = vpnSessions[s]

\* After an accepted snapshot, without counting.
Exact(p) ==
    LET open == {s \in Coverable(vpnSessions, p.observed) : vpnSessions[s].source = p.source}
    IN
    /\ \A s \in open : \E i \in p.items : vpnSessions[s].rsid = i.rsid
    /\ \A i \in p.items : \E s \in open : vpnSessions[s].rsid = i.rsid

AcceptedIsExact(w) ==
    \A p \in Snapshots : Accepted(w, p) /\ Distinguishable(p) => Exact(p)

\* The committed tables and watermarks.
AtRest ==
    /\ RouterMarkIsNewest
    /\ Identified(vpnSessions, sourceSnapshotAt)
    /\ OfBoot(vpnSessions, routerSnapshotAt, routerBootId)
    /\ OneEach(vpnSessions)

\* A request between two statements.
InHand(w) ==
    /\ Pending(w) /\ RouterIsCurrent(w) /\ NotStale(w) /\ Rebooted(w)
    /\ ToCome(w) /\ Edited(w) /\ Matched(w) /\ TablesKeep(w)
    /\ HistoryKept(w) /\ AcceptedIsExact(w)

\* The invariant of requests handled one at a time.
SInv == AtRest /\ \A w \in Worker : InHand(w)

-----------------------------------------------------------------------------
(* What a request has done is one of the effects of a request.             *)

\* The rows as last flushed, the objects, and which were matched.
Progress(w) == [flushed |-> View(w), objects |-> Rows(w), matched |-> job[w].matched]

\* What the items of a snapshot start from.
Before(p) == AfterReboot(p, vpnSessions, routerBootId)

UnderWay(w) ==
    LET p == job[w].request IN
    /\ pc[w] = "insert" => EventInScope(p)
    /\ pc[w] \in Handling => SnapshotInScope(p)
    /\ pc[w] = "flush" => Rows(w) = Before(p)
    /\ pc[w] \in Looping => Progress(w) \in AfterItems(p, Before(p), Done(w), {})
    /\ pc[w] = "create" => MatchedWith(p, View(w), Rows(w), job[w].item) = {}
    /\ pc[w] = "commit" =>
          \E x \in AfterItems(p, Before(p), p.items, {}) :
             Rows(w) = CloseEach(x.objects, Missing(p, x), p, "RECONCILIATION")

EachUnderWay == \A w \in Worker : UnderWay(w)
=============================================================================
