-------------------------- MODULE SchemaMigration --------------------------
(***************************************************************************)
(* The schema and the service: every start of the systemd unit upgrades    *)
(* the database to the head of the installed release before the API runs   *)
(* (deploy/*.service.in, alembic/), and an administrator may run the same  *)
(* upgrade by hand.  SQLite executes each DDL statement on its own, so an  *)
(* upgrade that is cut off leaves the statements it has executed; the      *)
(* version is recorded after the last statement of a revision.             *)
(***************************************************************************)
EXTENDS Integers, Sequences

CONSTANTS
    Upgrader,   \* processes that run "alembic upgrade head"
    Unit,       \* the one of the systemd unit
    MaxTrouble, \* bound on upgrades cut off, crashes, updates and upgrades
                \* by hand
    Idle

ASSUME UnitAssumption == Unit \in Upgrader
ASSUME TroubleAssumption == MaxTrouble \in Nat

Release == {1, 2}

\* Where an upgrade is: on its way to a release's head, before which statement
\* of which revision.
Place == [head : Release, revision : 1 .. 3, next : 0 .. 7]

ASSUME IdleAssumption == Idle \notin Place

VARIABLES
    schema,     \* the tables and columns there are
    stamp,      \* the revision recorded in alembic_version, 0 for none
    release,    \* what is installed: the revision its code knows as the head
    service,    \* of the unit
    loaded,     \* the release the running API was started from, or 0
    upgrade,    \* of each upgrader: where it is, or Idle
    trouble     \* what went wrong so far

schemaVars == <<schema, stamp, release, service, loaded, upgrade, trouble>>

-----------------------------------------------------------------------------

\* The statements of the revisions, in their order.  A table and its indexes
\* count as one.
Creates(revision, what) == [revision |-> revision, creates |-> what]

Statements ==
    <<Creates(1, "routers"), Creates(1, "router_credentials"), Creates(1, "sources"),
      Creates(1, "vpn_events"), Creates(1, "vpn_sessions"),
      Creates(2, "sources.last_snapshot_at")>>

\* What the code of a release needs, and an upgrade to it creates.
Needs(revision) ==
    {Statements[i].creates : i \in {j \in DOMAIN Statements : Statements[j].revision <= revision}}

\* Where the migration of a revision begins.
FirstOf == <<1, 6>>
\* Whether statement i is still one of this revision.
Within(i, revision) == i \in DOMAIN Statements /\ Statements[i].revision = revision

-----------------------------------------------------------------------------

SchemaInit ==
    /\ schema = {}
    /\ stamp = 0
    /\ release \in Release
    /\ service = "off"
    /\ loaded = 0
    /\ upgrade = [u \in Upgrader |-> Idle]
    /\ trouble = 0

\* A problem, one of those MaxTrouble bounds.
Trouble == trouble < MaxTrouble /\ trouble' = trouble + 1

\* The revisions to run are determined once, from the recorded one.
UpgradingAnew == [head |-> release, revision |-> 1, next |-> 1]
Upgrading == [head |-> release, revision |-> stamp + 1,
              next |-> IF stamp + 1 \in Release THEN FirstOf[stamp + 1] ELSE 0]

\* The upgrade command fails: with it the start of the unit, which is retried.
Fail(u) ==
    /\ upgrade' = [upgrade EXCEPT ![u] = Idle]
    /\ service' = IF u = Unit THEN "failed" ELSE service
    /\ UNCHANGED <<schema, stamp, release, loaded>>

\* systemctl enable --now, or the restart after a failure.  A database that is
\* ahead of the installed code has a revision Alembic does not find.
Start ==
    /\ service \in {"off", "failed"}
    /\ \/ /\ stamp <= release
          /\ service' = "starting"
          /\ upgrade' = [upgrade EXCEPT ![Unit] = Upgrading]
       \/ /\ stamp > release
          /\ service' = "failed"
          /\ UNCHANGED upgrade
    /\ UNCHANGED <<schema, stamp, release, loaded, trouble>>

\* alembic upgrade head, on the command line.
ByHand(u) ==
    /\ u # Unit /\ upgrade[u] = Idle
    /\ stamp <= release
    /\ Trouble
    /\ upgrade' = [upgrade EXCEPT ![u] = Upgrading]
    /\ UNCHANGED <<schema, stamp, release, service, loaded>>

\* One statement of the revision's upgrade().
Execute(u) ==
    /\ upgrade[u] # Idle
    /\ upgrade[u].revision <= upgrade[u].head
    /\ Within(upgrade[u].next, upgrade[u].revision)
    /\ LET what == Statements[upgrade[u].next].creates IN
       \/ /\ what \notin schema
          /\ schema' = schema \cup {what}
          /\ upgrade' = [upgrade EXCEPT ![u].next = @ + 1]
          /\ UNCHANGED <<stamp, release, service, loaded>>
       \/ what \in schema /\ Fail(u)
    /\ UNCHANGED trouble

\* Alembic runs a revision's upgrade() and then records it.
RecordableAtOnce(at) == Within(at.next, at.revision)
Recordable(at) == ~Within(at.next, at.revision)

Record(u) ==
    /\ upgrade[u] # Idle
    /\ upgrade[u].revision <= upgrade[u].head
    /\ Recordable(upgrade[u])
    /\ \/ /\ stamp = upgrade[u].revision - 1
          /\ stamp' = upgrade[u].revision
          /\ upgrade' = [upgrade EXCEPT ![u].revision = @ + 1]
          /\ UNCHANGED <<schema, release, service, loaded>>
       \/ stamp # upgrade[u].revision - 1 /\ Fail(u)
    /\ UNCHANGED trouble

\* The command succeeds; the unit goes on to start the API.
Finish(u) ==
    /\ upgrade[u] # Idle
    /\ upgrade[u].revision > upgrade[u].head
    /\ upgrade' = [upgrade EXCEPT ![u] = Idle]
    /\ IF u = Unit THEN service' = "up" /\ loaded' = release
                   ELSE UNCHANGED <<service, loaded>>
    /\ UNCHANGED <<schema, stamp, release, trouble>>

\* The start timeout, a signal or the end of the machine.
CutOff(u) ==
    /\ upgrade[u] # Idle
    /\ Trouble
    /\ Fail(u)

\* The API ends, or is restarted for what was installed.
Down ==
    /\ service = "up"
    /\ Trouble \/ (release # loaded /\ UNCHANGED trouble)
    /\ service' = "failed"
    /\ loaded' = 0
    /\ UNCHANGED <<schema, stamp, release, upgrade>>

\* Another commit is checked out and installed, in the order of the update
\* instructions: not while the unit is starting.
Install(r) ==
    /\ r # release
    /\ service # "starting"
    /\ Trouble
    /\ release' = r
    /\ UNCHANGED <<schema, stamp, service, loaded, upgrade>>

Upgrades(u) == Execute(u) \/ Record(u) \/ Finish(u)

SchemaStep ==
    \/ Start \/ Down
    \/ \E u \in Upgrader : ByHand(u) \/ Upgrades(u) \/ CutOff(u)
    \/ \E r \in Release : Install(r)

-----------------------------------------------------------------------------

SchemaTypeOK ==
    /\ schema \subseteq Needs(2)
    /\ stamp \in {0} \cup Release
    /\ release \in Release
    /\ service \in {"off", "starting", "up", "failed"}
    /\ loaded \in {0} \cup Release
    /\ upgrade \in [Upgrader -> Place \cup {Idle}]
    /\ trouble \in 0 .. MaxTrouble

\* The version in the database is never ahead of its tables.
StampIsTrue == stamp \in Release => Needs(stamp) \subseteq schema

\* The API only runs on a schema that has all its code needs, however many
\* upgrades were cut off or ran at the same time, and whatever was installed
\* meanwhile.
ServesKnownSchema == service = "up" => stamp >= loaded /\ Needs(loaded) \subseteq schema

\* An upgrade has executed the statements before the next one of its revision,
\* and others only add to what it has found.
UpgradesKeepPlace ==
    \A u \in Upgrader : upgrade[u] # Idle =>
        LET at == upgrade[u] IN
        /\ at.revision <= stamp + 1
        /\ at.revision = 1 => at.next \in 1 .. 6
        /\ at.revision = 2 => at.next \in 6 .. 7
        /\ \A i \in DOMAIN Statements :
              Statements[i].revision = at.revision /\ i < at.next =>
                  Statements[i].creates \in schema

\* The unit starts the release its upgrade is one to.
UnitIsStarting ==
    /\ service = "starting" <=> upgrade[Unit] # Idle
    /\ upgrade[Unit] # Idle => upgrade[Unit].head = release
    /\ service = "up" => loaded \in Release

SchemaInv ==
    SchemaTypeOK /\ StampIsTrue /\ ServesKnownSchema /\ UpgradesKeepPlace /\ UnitIsStarting

\* An upgrade was cut off in the middle of a revision: no later one succeeds.
Torn ==
    /\ \A u \in Upgrader : upgrade[u] = Idle
    /\ schema # (IF stamp = 0 THEN {} ELSE Needs(stamp))

\* Otherwise the unit gets the API running, also when upgrades by hand are in
\* its way, except on a database ahead of the release.
EventuallyServes == []<>(service \in {"off", "up"} \/ Torn \/ stamp > release)
=============================================================================
