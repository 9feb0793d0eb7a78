-------------------------- MODULE DeploymentProofs --------------------------
(***************************************************************************)
(* Machine-checked proofs about Deployment, for any number of upgrades,    *)
(* scripts and requests that overlap, and any routers, sources, secrets.   *)
(***************************************************************************)
EXTENDS Deployment, TLAPS

-----------------------------------------------------------------------------
(* The statements of the revisions.                                        *)

LEMMA StatementFacts ==
  /\ DOMAIN Statements = 1 .. 6
  /\ \A i \in 1 .. 5 : Statements[i].revision = 1
  /\ Statements[6].revision = 2
  /\ FirstOf[1] = 1 /\ FirstOf[2] = 6
  BY DEF Statements, Creates, FirstOf

LEMMA WithinFacts ==
  \A i \in Int :
     /\ Within(i, 1) <=> i \in 1 .. 5
     /\ Within(i, 2) <=> i = 6
  BY StatementFacts DEF Within

LEMMA NeedsFacts ==
  /\ \A i \in 1 .. 6 : Statements[i].creates \in Needs(2)
  /\ \A what : what \in Needs(1) => \E i \in 1 .. 5 : what = Statements[i].creates
  /\ \A what : what \in Needs(2) => what \in Needs(1) \/ what = Statements[6].creates
  /\ Needs(1) \subseteq Needs(2)
  BY StatementFacts DEF Needs

-----------------------------------------------------------------------------
(* Schema and service.                                                     *)

LEMMA InitSchemaInv == SchemaInit => SchemaInv
  BY UnitAssumption, TroubleAssumption
  DEF SchemaInit, SchemaInv, SchemaTypeOK, Release, StampIsTrue, ServesKnownSchema,
      UpgradesKeepPlace, UnitIsStarting

\* Where an upgrade begins.
LEMMA UpgradingFacts ==
  ASSUME SchemaInv, stamp <= release
  PROVE  /\ Upgrading \in Place
         /\ Upgrading.head = release /\ Upgrading.revision = stamp + 1
         /\ Upgrading.revision = 1 => Upgrading.next = 1
         /\ Upgrading.revision = 2 => Upgrading.next = 6
         /\ \A i \in DOMAIN Statements :
               Statements[i].revision = Upgrading.revision => ~(i < Upgrading.next)
<1>1. stamp \in 0 .. 2 /\ release \in {1, 2}
  BY DEF SchemaInv, SchemaTypeOK, Release
<1>2. CASE stamp = 0
  BY <1>1, <1>2, StatementFacts DEF Upgrading, Place, Release
<1>3. CASE stamp = 1
  BY <1>1, <1>3, StatementFacts DEF Upgrading, Place, Release
<1>4. CASE stamp = 2
  BY <1>1, <1>4, StatementFacts DEF Upgrading, Place, Release
<1> QED
  BY <1>1, <1>2, <1>3, <1>4

LEMMA BeginsAt ==
  ASSUME SchemaInv, stamp <= release, NEW u \in Upgrader,
         upgrade' = [upgrade EXCEPT ![u] = Upgrading],
         UNCHANGED <<schema, stamp>>
  PROVE  /\ upgrade' \in [Upgrader -> Place \cup {Idle}]
         /\ UpgradesKeepPlace'
<1>1. upgrade' \in [Upgrader -> Place \cup {Idle}]
  BY UpgradingFacts DEF SchemaInv, SchemaTypeOK
<1>2. ASSUME NEW v \in Upgrader, upgrade'[v] # Idle
      PROVE  LET at == upgrade'[v] IN
             /\ at.revision <= stamp + 1
             /\ at.revision = 1 => at.next \in 1 .. 6
             /\ at.revision = 2 => at.next \in 6 .. 7
             /\ \A i \in DOMAIN Statements :
                   Statements[i].revision = at.revision /\ i < at.next =>
                       Statements[i].creates \in schema
  <2>1. CASE v = u
    <3>1. upgrade'[v] = Upgrading
      BY <2>1 DEF SchemaInv, SchemaTypeOK
    <3>2. stamp \in 0 .. 2
      BY DEF SchemaInv, SchemaTypeOK, Release
    <3> QED
      BY <3>1, <3>2, UpgradingFacts
  <2>2. CASE v # u
    <3>1. upgrade'[v] = upgrade[v]
      BY <2>2 DEF SchemaInv, SchemaTypeOK
    <3> QED
      BY <1>2, <3>1 DEF SchemaInv, UpgradesKeepPlace
  <2> QED
    BY <2>1, <2>2
<1> QED
  BY <1>1, <1>2 DEF UpgradesKeepPlace

LEMMA StartKeeps == SchemaInv /\ Start => SchemaInv'
<1> SUFFICES ASSUME SchemaInv, Start PROVE SchemaInv'
  OBVIOUS
<1> USE UnitAssumption, IdleAssumption
<1>1. StampIsTrue' /\ ServesKnownSchema'
  BY DEF Start, SchemaInv, StampIsTrue, ServesKnownSchema
<1>2. CASE stamp <= release /\ service' = "starting"
           /\ upgrade' = [upgrade EXCEPT ![Unit] = Upgrading]
  <2>1. upgrade' \in [Upgrader -> Place \cup {Idle}] /\ UpgradesKeepPlace'
    BY <1>2, BeginsAt DEF Start
  <2>2. SchemaTypeOK'
    BY <1>2, <2>1 DEF Start, SchemaInv, SchemaTypeOK
  <2>3. upgrade'[Unit] = Upgrading
    BY <1>2 DEF SchemaInv, SchemaTypeOK
  <2>4. UnitIsStarting'
    BY <1>2, <2>3, UpgradingFacts DEF Start, UnitIsStarting
  <2> QED
    BY <1>1, <2>1, <2>2, <2>4 DEF SchemaInv
<1>3. CASE service' = "failed" /\ UNCHANGED upgrade
  BY <1>1, <1>3
  DEF Start, SchemaInv, SchemaTypeOK, UpgradesKeepPlace, UnitIsStarting
<1> QED
  BY <1>2, <1>3 DEF Start

LEMMA ByHandKeeps ==
  ASSUME SchemaInv, NEW u \in Upgrader, ByHand(u)
  PROVE  SchemaInv'
<1>1. upgrade' \in [Upgrader -> Place \cup {Idle}] /\ UpgradesKeepPlace'
  BY BeginsAt DEF ByHand
<1>2. SchemaTypeOK'
  BY <1>1, TroubleAssumption DEF ByHand, Trouble, SchemaInv, SchemaTypeOK
<1>3. upgrade'[Unit] = upgrade[Unit]
  BY UnitAssumption DEF ByHand, SchemaInv, SchemaTypeOK
<1> QED
  BY <1>1, <1>2, <1>3
  DEF ByHand, SchemaInv, StampIsTrue, ServesKnownSchema, UnitIsStarting

\* A failed upgrade leaves the schema as it is.
LEMMA FailKeeps ==
  ASSUME SchemaInv, NEW u \in Upgrader, upgrade[u] # Idle, Fail(u), trouble' \in 0 .. MaxTrouble
  PROVE  SchemaInv'
<1> USE UnitAssumption DEF Fail
<1>1. /\ upgrade' \in [Upgrader -> Place \cup {Idle}]
      /\ \A v \in Upgrader : upgrade'[v] = IF v = u THEN Idle ELSE upgrade[v]
  BY DEF SchemaInv, SchemaTypeOK
<1>2. SchemaTypeOK'
  BY <1>1 DEF SchemaInv, SchemaTypeOK
<1>3. StampIsTrue' /\ ServesKnownSchema'
  BY DEF SchemaInv, StampIsTrue, ServesKnownSchema
<1>4. UpgradesKeepPlace'
  BY <1>1 DEF SchemaInv, UpgradesKeepPlace
<1>5. UnitIsStarting'
  BY <1>1 DEF SchemaInv, UnitIsStarting
<1> QED
  BY <1>2, <1>3, <1>4, <1>5 DEF SchemaInv

\* A statement is executed once, by whoever finds it undone.
LEMMA ExecuteKeeps ==
  ASSUME SchemaInv, NEW u \in Upgrader, Execute(u)
  PROVE  SchemaInv'
<1> DEFINE at == upgrade[u]
           what == Statements[at.next].creates
<1>1. at \in Place /\ at.revision \in 1 .. 2 /\ stamp \in 0 .. 2
  BY DEF Execute, SchemaInv, SchemaTypeOK, Place, Release
<1>2. CASE what \notin schema
  <2>1. /\ schema' = schema \cup {what}
        /\ upgrade' = [upgrade EXCEPT ![u].next = @ + 1]
        /\ UNCHANGED <<stamp, release, service, loaded, trouble>>
    BY <1>2 DEF Execute
  <2>2. /\ at.revision = 1 => at.next \in 1 .. 5
        /\ at.revision = 2 => at.next = 6
        /\ at.next \in 1 .. 6
    BY <1>1, WithinFacts DEF Execute, Place
  <2>3. \A v \in Upgrader : upgrade'[v] = IF v = u THEN [at EXCEPT !.next = at.next + 1]
                                                  ELSE upgrade[v]
    BY <2>1 DEF SchemaInv, SchemaTypeOK
  <2>4. [at EXCEPT !.next = at.next + 1] \in Place
    BY <1>1, <2>2 DEF Place
  <2>5. schema' \subseteq Needs(2) /\ schema \subseteq schema'
    BY <2>1, <2>2, NeedsFacts DEF SchemaInv, SchemaTypeOK
  <2>6. SchemaTypeOK'
    BY <2>1, <2>3, <2>4, <2>5 DEF SchemaInv, SchemaTypeOK
  <2>7. StampIsTrue' /\ ServesKnownSchema'
    BY <2>1, <2>5 DEF SchemaInv, StampIsTrue, ServesKnownSchema
  <2>8. UpgradesKeepPlace'
    <3> SUFFICES ASSUME NEW v \in Upgrader, upgrade'[v] # Idle
                 PROVE  LET now == upgrade'[v] IN
                        /\ now.revision <= stamp + 1
                        /\ now.revision = 1 => now.next \in 1 .. 6
                        /\ now.revision = 2 => now.next \in 6 .. 7
                        /\ \A i \in DOMAIN Statements :
                              Statements[i].revision = now.revision /\ i < now.next =>
                                  Statements[i].creates \in schema'
      BY <2>1 DEF UpgradesKeepPlace
    <3>1. CASE v # u
      BY <2>3, <2>5, <3>1 DEF SchemaInv, UpgradesKeepPlace
    <3>2. CASE v = u
      <4>1. /\ upgrade'[v].revision = at.revision
            /\ upgrade'[v].next = at.next + 1
        BY <1>1, <2>3, <3>2 DEF Place
      <4>2. /\ at.revision <= stamp + 1
            /\ \A i \in DOMAIN Statements :
                  Statements[i].revision = at.revision /\ i < at.next =>
                      Statements[i].creates \in schema
        BY DEF Execute, SchemaInv, UpgradesKeepPlace
      <4>3. ASSUME NEW i \in DOMAIN Statements, Statements[i].revision = at.revision,
                   i < at.next + 1
            PROVE  Statements[i].creates \in schema'
        <5>1. i \in 1 .. 6
          BY StatementFacts
        <5>2. CASE i = at.next
          BY <2>1, <5>2
        <5>3. CASE i < at.next
          BY <2>5, <4>2, <4>3, <5>3
        <5> QED
          BY <2>2, <4>3, <5>1, <5>2, <5>3
      <4> QED
        BY <2>2, <4>1, <4>2, <4>3
    <3> QED
      BY <3>1, <3>2
  <2>9. UnitIsStarting'
    BY <1>1, <2>1, <2>3, <2>4, UnitAssumption, IdleAssumption
    DEF SchemaInv, UnitIsStarting, Execute, Place
  <2> QED
    BY <2>6, <2>7, <2>8, <2>9 DEF SchemaInv
<1>3. CASE what \in schema
  <2>1. Fail(u) /\ UNCHANGED trouble /\ upgrade[u] # Idle
    BY <1>3 DEF Execute
  <2>2. trouble' \in 0 .. MaxTrouble
    BY <2>1 DEF SchemaInv, SchemaTypeOK
  <2> QED
    BY <2>1, <2>2, FailKeeps
<1> QED
  BY <1>2, <1>3

\* A revision is recorded by an upgrade that has executed all of it.
LEMMA RecordKeeps ==
  ASSUME SchemaInv, NEW u \in Upgrader, Record(u)
  PROVE  SchemaInv'
<1> DEFINE at == upgrade[u]
<1>1. at \in Place /\ at.revision \in 1 .. 2 /\ stamp \in 0 .. 2
  BY DEF Record, SchemaInv, SchemaTypeOK, Place, Release
<1>2. CASE stamp = at.revision - 1
  <2>1. /\ stamp' = at.revision
        /\ upgrade' = [upgrade EXCEPT ![u].revision = @ + 1]
        /\ UNCHANGED <<schema, release, service, loaded, trouble>>
    BY <1>1, <1>2 DEF Record
  <2>2. /\ at.revision = 1 => at.next = 6
        /\ at.revision = 2 => at.next = 7
        /\ \A i \in DOMAIN Statements :
              Statements[i].revision = at.revision /\ i < at.next =>
                  Statements[i].creates \in schema
    BY <1>1, WithinFacts DEF Record, Recordable, SchemaInv, UpgradesKeepPlace, Place
  <2>3. \A v \in Upgrader : upgrade'[v] = IF v = u THEN [at EXCEPT !.revision = at.revision + 1]
                                                  ELSE upgrade[v]
    BY <2>1 DEF SchemaInv, SchemaTypeOK
  <2>4. [at EXCEPT !.revision = at.revision + 1] \in Place
    BY <1>1 DEF Place
  <2>5. SchemaTypeOK'
    BY <1>1, <2>1, <2>3, <2>4 DEF SchemaInv, SchemaTypeOK, Release
  <2>6. Needs(at.revision) \subseteq schema
    <3>1. CASE at.revision = 1
      BY <2>2, <3>1, StatementFacts, NeedsFacts
    <3>2. CASE at.revision = 2
      <4>1. Needs(1) \subseteq schema
        BY <1>2, <3>2 DEF SchemaInv, StampIsTrue, Release
      <4>2. Statements[6].creates \in schema
        BY <2>2, <3>2, StatementFacts
      <4> QED
        BY <3>2, <4>1, <4>2, NeedsFacts
    <3> QED
      BY <1>1, <3>1, <3>2
  <2>7. StampIsTrue'
    BY <2>1, <2>6 DEF StampIsTrue
  <2>8. ServesKnownSchema'
    <3>1. service = "up" => loaded \in {1, 2}
      BY DEF SchemaInv, UnitIsStarting, Release
    <3> QED
      BY <1>1, <1>2, <2>1, <3>1 DEF SchemaInv, ServesKnownSchema
  <2>9. UpgradesKeepPlace'
    <3> SUFFICES ASSUME NEW v \in Upgrader, upgrade'[v] # Idle
                 PROVE  LET now == upgrade'[v] IN
                        /\ now.revision <= stamp' + 1
                        /\ now.revision = 1 => now.next \in 1 .. 6
                        /\ now.revision = 2 => now.next \in 6 .. 7
                        /\ \A i \in DOMAIN Statements :
                              Statements[i].revision = now.revision /\ i < now.next =>
                                  Statements[i].creates \in schema
      BY <2>1 DEF UpgradesKeepPlace
    <3>1. CASE v # u
      <4>1. upgrade'[v] = upgrade[v] /\ upgrade[v] \in Place
        BY <2>3, <3>1 DEF SchemaInv, SchemaTypeOK
      <4> QED
        BY <1>1, <1>2, <2>1, <4>1 DEF SchemaInv, UpgradesKeepPlace, Place
    <3>2. CASE v = u
      <4>1. upgrade'[v].revision = at.revision + 1 /\ upgrade'[v].next = at.next
        BY <1>1, <2>3, <3>2 DEF Place
      <4> QED
        BY <1>1, <2>1, <2>2, <4>1, StatementFacts
    <3> QED
      BY <3>1, <3>2
  <2>10. UnitIsStarting'
    BY <1>1, <2>1, <2>3, <2>4, UnitAssumption, IdleAssumption
    DEF SchemaInv, UnitIsStarting, Record, Place
  <2> QED
    BY <2>5, <2>7, <2>8, <2>9, <2>10 DEF SchemaInv
<1>3. CASE stamp # at.revision - 1
  <2>1. Fail(u) /\ UNCHANGED trouble /\ upgrade[u] # Idle
    BY <1>3 DEF Record
  <2>2. trouble' \in 0 .. MaxTrouble
    BY <2>1 DEF SchemaInv, SchemaTypeOK
  <2> QED
    BY <2>1, <2>2, FailKeeps
<1> QED
  BY <1>2, <1>3

\* Past the head, everything up to it is recorded.
LEMMA FinishKeeps ==
  ASSUME SchemaInv, NEW u \in Upgrader, Finish(u)
  PROVE  SchemaInv'
<1> USE UnitAssumption
<1>1. \A v \in Upgrader : upgrade'[v] = IF v = u THEN Idle ELSE upgrade[v]
  BY DEF Finish, SchemaInv, SchemaTypeOK
<1>2. UpgradesKeepPlace'
  BY <1>1 DEF Finish, SchemaInv, UpgradesKeepPlace
<1>3. StampIsTrue'
  BY DEF Finish, SchemaInv, StampIsTrue
<1>4. SchemaTypeOK'
  BY <1>1 DEF Finish, SchemaInv, SchemaTypeOK
<1>5. CASE u = Unit
  <2>1. upgrade[u] \in Place /\ upgrade[u].head = release /\ stamp \in 0 .. 2
    BY <1>5 DEF Finish, SchemaInv, SchemaTypeOK, UnitIsStarting, Release
  <2>2. release <= stamp /\ release \in {1, 2}
    BY <2>1 DEF Finish, SchemaInv, SchemaTypeOK, UpgradesKeepPlace, Place, Release
  <2>3. Needs(stamp) \subseteq schema
    BY <2>1, <2>2 DEF SchemaInv, StampIsTrue, Release
  <2>4. Needs(release) \subseteq schema
    BY <2>1, <2>2, <2>3, NeedsFacts
  <2> QED
    BY <1>1, <1>2, <1>3, <1>4, <1>5, <2>2, <2>4
    DEF Finish, SchemaInv, ServesKnownSchema, UnitIsStarting, Release
<1>6. CASE u # Unit
  BY <1>1, <1>2, <1>3, <1>4, <1>6
  DEF Finish, SchemaInv, ServesKnownSchema, UnitIsStarting
<1> QED
  BY <1>5, <1>6

LEMMA SchemaStepKeeps == SchemaInv /\ SchemaStep => SchemaInv'
<1> SUFFICES ASSUME SchemaInv, SchemaStep PROVE SchemaInv'
  OBVIOUS
<1>1. ASSUME NEW u \in Upgrader, CutOff(u) PROVE SchemaInv'
  <2>1. trouble' \in 0 .. MaxTrouble
    BY <1>1, TroubleAssumption DEF CutOff, Trouble, SchemaInv, SchemaTypeOK
  <2> QED
    BY <1>1, <2>1, FailKeeps DEF CutOff
<1>2. CASE Down
  BY <1>2, TroubleAssumption
  DEF Down, Trouble, SchemaInv, SchemaTypeOK, StampIsTrue, ServesKnownSchema,
      UpgradesKeepPlace, UnitIsStarting
<1>3. ASSUME NEW r \in Release, Install(r) PROVE SchemaInv'
  BY <1>3, TroubleAssumption
  DEF Install, Trouble, SchemaInv, SchemaTypeOK, StampIsTrue, ServesKnownSchema,
      UpgradesKeepPlace, UnitIsStarting
<1> QED
  BY <1>1, <1>2, <1>3, StartKeeps, ByHandKeeps, ExecuteKeeps, RecordKeeps, FinishKeeps
  DEF SchemaStep, Upgrades

-----------------------------------------------------------------------------
(* Scripts.                                                                *)

LEMMA FreshIsUnused == \A table : \A k \in Fresh(table) : k \in DOMAIN table /\ table[k] = None
  BY DEF Fresh

LEMMA NewCredentialFacts ==
  ASSUME NEW r \in RouterId
  PROVE  /\ NewCredential(r) \in [router : RouterId, revoked : BOOLEAN]
         /\ NewCredential(r) # None
         /\ NewCredential(r).router = r /\ ~NewCredential(r).revoked
<1>1. NewCredential(r) \in [router : RouterId, revoked : BOOLEAN]
  BY DEF NewCredential
<1>2. NewCredential(r) # None
  BY <1>1, NoneAssumption
<1>3. NewCredential(r).router = r /\ ~NewCredential(r).revoked
  BY Zenon DEF NewCredential
<1> QED
  BY <1>1, <1>2, <1>3

LEMMA InitProvisioningInv == ProvisioningInit => ProvisioningInv
  BY DEF ProvisioningInit, ProvisioningInv, ProvisioningTypeOK, UniqueSourceNames, NoLockout,
         RotationRevokes, RevokedStaysOut, SourcesHaveRouters, ScriptsFoundRight,
         RequestsAreBehind, Registered

\* The properties of rows alone, and those of what scripts and requests know.
TablesKept == UNCHANGED <<routers, sources, credentials>>

LEMMA TablePartKept ==
  ASSUME ProvisioningInv, TablesKept
  PROVE  (UniqueSourceNames /\ NoLockout /\ SourcesHaveRouters)'
  BY DEF ProvisioningInv, TablesKept, UniqueSourceNames, NoLockout, SourcesHaveRouters,
         Registered, ActiveOf, Issued, Revoked

\* What scripts know stays true as long as no credential is lost or restored.
LEMMA ScriptPartKept ==
  ASSUME ProvisioningInv, NEW p \in Script, NEW job, Goes(p, job),
         Issued \subseteq Issued', Revoked \subseteq Revoked', Registered \subseteq Registered',
         \A c \in Issued : credentials'[c].router = credentials[c].router,
         job # None =>
             /\ job.step = "rotate" => job.before \subseteq job.found /\ job.found \subseteq Issued'
             /\ job.step = "rotate" => \A c \in job.found : credentials'[c].router = job.router
             /\ job.step = "add" => job.router \in Registered'
             /\ job.step = "print" => job.before \subseteq Revoked'
  PROVE  (RotationRevokes /\ ScriptsFoundRight)'
<1>1. \A q \in Script : script'[q] = IF q = p THEN job ELSE script[q]
  BY DEF Goes, ProvisioningInv, ProvisioningTypeOK
<1> QED
  BY <1>1 DEF ProvisioningInv, RotationRevokes, ScriptsFoundRight

LEMMA RequestPartKept ==
  ASSUME ProvisioningInv, UNCHANGED request,
         Issued \subseteq Issued', Revoked \subseteq Revoked'
  PROVE  (RevokedStaysOut /\ RequestsAreBehind)'
  BY DEF ProvisioningInv, RevokedStaysOut, RequestsAreBehind

LEMMA JobTyped ==
  ASSUME ProvisioningInv, NEW p \in Script, NEW job \in Job \cup {None}, Goes(p, job)
  PROVE  script' \in [Script -> Job \cup {None}]
  BY DEF ProvisioningInv, ProvisioningTypeOK, Goes

\* A script that only reads, or ends.
LEMMA ScriptReads ==
  ASSUME ProvisioningInv, NEW p \in Script, NEW job \in Job \cup {None}, Goes(p, job),
         TablesKept, UNCHANGED request,
         job # None => /\ job.step # "print"
                       /\ job.step = "rotate" => job.before \subseteq job.found /\ job.found \subseteq Issued
                       /\ job.step = "rotate" =>
                             \A c \in job.found : credentials[c].router = job.router
                       /\ job.step = "add" => job.router \in Registered
  PROVE  ProvisioningInv'
<1>1. Issued' = Issued /\ Revoked' = Revoked /\ Registered' = Registered
  BY DEF TablesKept, Issued, Revoked, Registered
<1>2. (RotationRevokes /\ ScriptsFoundRight)'
  BY <1>1, ScriptPartKept DEF TablesKept
<1>3. (UniqueSourceNames /\ NoLockout /\ SourcesHaveRouters)'
  BY TablePartKept
<1>4. (RevokedStaysOut /\ RequestsAreBehind)'
  BY <1>1, RequestPartKept
<1>5. ProvisioningTypeOK'
  BY JobTyped DEF ProvisioningInv, ProvisioningTypeOK, TablesKept
<1> QED
  BY <1>2, <1>3, <1>4, <1>5 DEF ProvisioningInv

LEMMA CheckNameKeeps ==
  ASSUME ProvisioningInv, NEW p \in Script, NEW name \in RouterName, NEW source \in SourceName,
         CheckName(p, name, source)
  PROVE  ProvisioningInv'
<1> DEFINE job == [step |-> "register", name |-> name, source |-> source]
<1>1. job \in Job /\ job.step = "register"
  BY DEF Job
<1>2. Goes(p, job) /\ TablesKept /\ UNCHANGED request
  BY DEF CheckName, TablesKept
<1> HIDE DEF job
<1> QED
  BY <1>1, <1>2, ScriptReads

LEMMA CheckSourceKeeps ==
  ASSUME ProvisioningInv, NEW p \in Script, NEW r \in RouterId, NEW name \in SourceName,
         CheckSource(p, r, name)
  PROVE  ProvisioningInv'
<1> DEFINE job == [step |-> "add", router |-> r, name |-> name]
<1>1. job \in Job /\ job.step = "add" /\ job.router \in Registered
  BY DEF Job, CheckSource
<1>2. Goes(p, job) /\ TablesKept /\ UNCHANGED request
  BY DEF CheckSource, TablesKept
<1> HIDE DEF job
<1> QED
  BY <1>1, <1>2, ScriptReads

LEMMA FindCredentialsKeeps ==
  ASSUME ProvisioningInv, NEW p \in Script, NEW r \in RouterId, FindCredentials(p, r)
  PROVE  ProvisioningInv'
<1> DEFINE job == [step |-> "rotate", router |-> r, found |-> ToRevoke(r), before |-> ActiveOf(r)]
<1>1. ActiveOf(r) \subseteq Issued /\ Issued \subseteq Secret
  BY DEF ActiveOf, Issued
<1>2. /\ job \in Job /\ job.step = "rotate"
      /\ job.before \subseteq job.found /\ job.found \subseteq Issued
      /\ \A c \in job.found : credentials[c].router = job.router
  BY <1>1 DEF Job, ToRevoke, ActiveOf
<1>3. Goes(p, job) /\ TablesKept /\ UNCHANGED request
  BY DEF FindCredentials, TablesKept
<1> HIDE DEF job
<1> QED
  BY <1>2, <1>3, ScriptReads

LEMMA EndKeeps ==
  ASSUME ProvisioningInv, NEW p \in Script, Goes(p, None), TablesKept, UNCHANGED request
  PROVE  ProvisioningInv'
  BY ScriptReads

LEMMA RegisterKeeps ==
  ASSUME ProvisioningInv, NEW p \in Script, Register(p)
  PROVE  ProvisioningInv'
<1> DEFINE job == [step |-> "print", before |-> {}]
<1>1. PICK r \in Fresh(routers), s \in Fresh(sources), c \in Fresh(credentials) :
         /\ routers' = [routers EXCEPT ![r] = script[p].name]
         /\ sources' = [sources EXCEPT ![s] = [router |-> r, name |-> script[p].source]]
         /\ credentials' = [credentials EXCEPT ![c] = NewCredential(r)]
         /\ Goes(p, job)
  BY DEF Register
<1>2. /\ r \in RouterId /\ routers[r] = None
      /\ s \in SourceId /\ sources[s] = None
      /\ c \in Secret /\ credentials[c] = None
  BY FreshIsUnused DEF ProvisioningInv, ProvisioningTypeOK
<1>3. script[p].name \in RouterName /\ script[p].source \in SourceName
  BY DEF Register, ProvisioningInv, ProvisioningTypeOK, Job
<1>4. /\ \A q \in RouterId : routers'[q] = IF q = r THEN script[p].name ELSE routers[q]
      /\ \A t \in SourceId : sources'[t] = IF t = s THEN [router |-> r, name |-> script[p].source]
                                                    ELSE sources[t]
      /\ \A d \in Secret : credentials'[d] = IF d = c THEN NewCredential(r) ELSE credentials[d]
  BY <1>1, <1>2 DEF ProvisioningInv, ProvisioningTypeOK
<1>5. NewCredential(r) \in [router : RouterId, revoked : BOOLEAN] /\ ~NewCredential(r).revoked
      /\ NewCredential(r) # None /\ NewCredential(r).router = r
  BY <1>2, NewCredentialFacts
<1>6. Issued' = Issued \cup {c} /\ Revoked' = Revoked /\ c \notin Issued
  <2> DEFINE new == NewCredential(r)
  <2>1. new # None /\ ~new.revoked
    BY <1>5
  <2>2. \A d \in Secret : credentials'[d] = IF d = c THEN new ELSE credentials[d]
    BY <1>4
  <2> HIDE DEF new
  <2>3. Issued' = Issued \cup {c} /\ c \notin Issued
    BY <1>2, <2>1, <2>2 DEF Issued
  <2> QED
    BY <2>1, <2>2, <2>3 DEF Revoked, Issued
<1>7. Registered' = Registered \cup {r} /\ r \notin Registered
  BY <1>2, <1>3, <1>4, NoneAssumption DEF Registered
<1>8. job \in Job /\ job.step = "print" /\ job.before = {}
  BY DEF Job
<1> HIDE DEF job
<1>9. (RotationRevokes /\ ScriptsFoundRight)'
  <2>1. \A d \in Issued : credentials'[d].router = credentials[d].router
    BY <1>4, <1>6 DEF Issued
  <2> QED
    BY <1>1, <1>6, <1>7, <1>8, <2>1, ScriptPartKept
<1>10. (RevokedStaysOut /\ RequestsAreBehind)'
  BY <1>6, RequestPartKept DEF Register
<1>11. ProvisioningTypeOK'
  BY <1>1, <1>2, <1>3, <1>5, <1>8, JobTyped DEF Register, ProvisioningInv, ProvisioningTypeOK
<1>12. SourcesHaveRouters'
  BY <1>4, <1>7 DEF ProvisioningInv, SourcesHaveRouters
<1>13. UniqueSourceNames'
  BY <1>4, <1>7 DEF ProvisioningInv, SourcesHaveRouters, UniqueSourceNames
<1>14. NoLockout'
  <2>1. c \in ActiveOf(r)'
    BY <1>2, <1>4, <1>5, <1>6 DEF ActiveOf, Revoked, Issued
  <2>2. \A q \in Registered : ActiveOf(q) \subseteq ActiveOf(q)'
    BY <1>4, <1>6 DEF ActiveOf, Issued
  <2> QED
    BY <1>7, <2>1, <2>2 DEF ProvisioningInv, NoLockout
<1> QED
  BY <1>9, <1>10, <1>11, <1>12, <1>13, <1>14 DEF ProvisioningInv

LEMMA AddSourceKeeps ==
  ASSUME ProvisioningInv, NEW p \in Script, AddSource(p)
  PROVE  ProvisioningInv'
<1> DEFINE row == [router |-> script[p].router, name |-> script[p].name]
<1>1. PICK s \in Fresh(sources) : sources' = [sources EXCEPT ![s] = row]
  BY DEF AddSource
<1>2. s \in SourceId /\ sources[s] = None
  BY FreshIsUnused DEF ProvisioningInv, ProvisioningTypeOK
<1>3. row \in [router : RouterId, name : SourceName]
  BY DEF AddSource, ProvisioningInv, ProvisioningTypeOK, Job
<1>4. \A t \in SourceId : sources'[t] = IF t = s THEN row ELSE sources[t]
  BY <1>1, <1>2 DEF ProvisioningInv, ProvisioningTypeOK
<1>5. \A t \in SourceId : sources[t] # row
  BY DEF AddSource, Taken, HasSource
<1>6. Goes(p, None) /\ UNCHANGED <<routers, credentials, request>>
  BY DEF AddSource
<1>7. Issued' = Issued /\ Revoked' = Revoked /\ Registered' = Registered
  BY <1>6 DEF Issued, Revoked, Registered
<1>8. (RotationRevokes /\ ScriptsFoundRight)'
  BY <1>6, <1>7, ScriptPartKept
<1>9. (RevokedStaysOut /\ RequestsAreBehind)'
  BY <1>6, <1>7, RequestPartKept
<1>10. ProvisioningTypeOK'
  BY <1>1, <1>2, <1>3, <1>6, JobTyped DEF ProvisioningInv, ProvisioningTypeOK
<1>11. UniqueSourceNames'
  BY <1>4, <1>5 DEF ProvisioningInv, UniqueSourceNames
<1>12. NoLockout'
  BY <1>6 DEF ProvisioningInv, NoLockout, Registered, ActiveOf, Issued, Revoked
<1>14. script[p].router \in Registered
  BY DEF ProvisioningInv, ScriptsFoundRight, AddSource
<1>13. SourcesHaveRouters'
  BY <1>4, <1>7, <1>14 DEF ProvisioningInv, SourcesHaveRouters
<1> QED
  BY <1>8, <1>9, <1>10, <1>11, <1>12, <1>13 DEF ProvisioningInv

\* The other rotation's new credential is not among those found, so it stays.
LEMMA RotateKeeps ==
  ASSUME ProvisioningInv, NEW p \in Script, Rotate(p)
  PROVE  ProvisioningInv'
<1> DEFINE found == script[p].found
           of == script[p].router
           job == [step |-> "print", before |-> script[p].before]
<1>1. PICK c \in Fresh(credentials) :
         /\ LET with == [credentials EXCEPT ![c] = NewCredential(of)] IN
            credentials' = [d \in Secret |->
                IF d \in found THEN [with[d] EXCEPT !.revoked = TRUE] ELSE with[d]]
         /\ Goes(p, job)
  BY DEF Rotate, RevokedBy
<1>2. c \in Secret /\ credentials[c] = None /\ c \notin Issued
  BY FreshIsUnused DEF ProvisioningInv, ProvisioningTypeOK, Issued
<1>3. of \in RouterId /\ script[p].before \subseteq Secret
  BY DEF Rotate, ProvisioningInv, ProvisioningTypeOK, Job
<1>4. script[p].before \subseteq found /\ found \subseteq Issued
  BY DEF Rotate, ProvisioningInv, ScriptsFoundRight
<1>5. /\ credentials'[c] = NewCredential(of)
      /\ \A d \in Secret \ (found \cup {c}) : credentials'[d] = credentials[d]
      /\ \A d \in found : credentials'[d] = [credentials[d] EXCEPT !.revoked = TRUE]
  BY <1>1, <1>2, <1>4 DEF ProvisioningInv, ProvisioningTypeOK, Issued
<1>6. \A d \in found : /\ credentials'[d] \in [router : RouterId, revoked : BOOLEAN]
                       /\ credentials'[d].router = credentials[d].router
                       /\ credentials'[d].revoked = TRUE
                       /\ credentials'[d] # None
  <2> SUFFICES ASSUME NEW d \in found
               PROVE  /\ credentials'[d] \in [router : RouterId, revoked : BOOLEAN]
                      /\ credentials'[d].router = credentials[d].router
                      /\ credentials'[d].revoked = TRUE
                      /\ credentials'[d] # None
    OBVIOUS
  <2>1. credentials[d] \in [router : RouterId, revoked : BOOLEAN]
    BY <1>4 DEF ProvisioningInv, ProvisioningTypeOK, Issued
  <2>2. credentials'[d] = [credentials[d] EXCEPT !.revoked = TRUE]
    BY <1>5
  <2>3. /\ credentials'[d] \in [router : RouterId, revoked : BOOLEAN]
        /\ credentials'[d].router = credentials[d].router
        /\ credentials'[d].revoked = TRUE
    BY <2>1, <2>2
  <2> QED
    BY <2>3, NoneAssumption
<1>7. Issued' = Issued \cup {c}
  <2>1. credentials'[c] # None
    BY <1>3, <1>5, NewCredentialFacts
  <2> QED
    BY <1>2, <1>4, <1>5, <1>6, <2>1 DEF Issued
<1>8. Revoked' = Revoked \cup found
  <2>1. ~credentials'[c].revoked
    BY <1>3, <1>5, NewCredentialFacts
  <2> QED
    BY <1>2, <1>4, <1>5, <1>6, <1>7, <2>1 DEF Revoked, Issued
<1>9. /\ UNCHANGED <<routers, sources, request>>
      /\ Registered' = Registered
  BY DEF Rotate, Registered
<1>10. job \in Job /\ job.step = "print" /\ job.before = script[p].before
  BY <1>3 DEF Job
<1>11. job.before \subseteq Revoked'
  BY <1>4, <1>8, <1>10
<1> HIDE DEF job
<1>12. (RotationRevokes /\ ScriptsFoundRight)'
  <2>1. \A d \in Issued : credentials'[d].router = credentials[d].router
    BY <1>2, <1>5, <1>6 DEF Issued
  <2> QED
    BY <1>1, <1>7, <1>8, <1>9, <1>10, <1>11, <2>1, ScriptPartKept
<1>13. (RevokedStaysOut /\ RequestsAreBehind)'
  BY <1>7, <1>8, <1>9, RequestPartKept
<1>14. credentials' \in [Secret -> [router : RouterId, revoked : BOOLEAN] \cup {None}]
  <2>1. \A d \in Secret : credentials'[d] \in [router : RouterId, revoked : BOOLEAN] \cup {None}
    BY <1>3, <1>5, <1>6, NewCredentialFacts DEF ProvisioningInv, ProvisioningTypeOK
  <2>2. credentials' = [d \in Secret |-> credentials'[d]]
    BY <1>1
  <2> QED
    BY <2>1, <2>2
<1>15. ProvisioningTypeOK'
  BY <1>1, <1>9, <1>10, <1>14, JobTyped DEF ProvisioningInv, ProvisioningTypeOK
<1>16. NoLockout'
  <2> SUFFICES ASSUME NEW r \in Registered PROVE ActiveOf(r)' # {}
    BY <1>9 DEF NoLockout
  <2>1. CASE r = of
    <3>1. c \in ActiveOf(r)'
      BY <1>2, <1>3, <1>4, <1>5, <1>7, <1>8, <2>1, NewCredentialFacts DEF ActiveOf, Revoked
    <3> QED
      BY <3>1
  <2>2. CASE r # of
    <3>1. PICK d \in Issued \ Revoked : credentials[d].router = r
      BY DEF ProvisioningInv, NoLockout, ActiveOf
    <3>2. d \notin found
      BY <2>2, <3>1 DEF Rotate, ProvisioningInv, ScriptsFoundRight
    <3>3. credentials'[d] = credentials[d] /\ d \in Issued' /\ d \notin Revoked'
      BY <1>2, <1>5, <1>7, <1>8, <3>1, <3>2 DEF Issued
    <3> QED
      BY <3>1, <3>3 DEF ActiveOf
  <2> QED
    BY <2>1, <2>2
<1>17. (UniqueSourceNames /\ SourcesHaveRouters)'
  BY <1>9 DEF ProvisioningInv, UniqueSourceNames, SourcesHaveRouters
<1> QED
  BY <1>12, <1>13, <1>15, <1>16, <1>17 DEF ProvisioningInv

LEMMA ScriptStepKeeps ==
  ASSUME ProvisioningInv, NEW p \in Script, ScriptStep(p)
  PROVE  ProvisioningInv'
<1>1. CASE PrintSecret(p) \/ Quit(p)
  BY <1>1, EndKeeps DEF PrintSecret, Quit, TablesKept
<1> QED
  BY <1>1, CheckNameKeeps, CheckSourceKeeps, FindCredentialsKeeps, RegisterKeeps,
     AddSourceKeeps, RotateKeeps
  DEF ScriptStep, Provisions, Rotates, GoesOn

-----------------------------------------------------------------------------
(* Requests.                                                               *)

RequestRecord == [step : {"match", "stamp", "admitted"}, router : RouterId,
                  secret : Secret, revoked : BOOLEAN]

\* A request that reads, or writes a row back as it is.
LEMMA RequestKeeps ==
  ASSUME ProvisioningInv, TablesKept, UNCHANGED script,
         NEW f \in [Handler -> RequestRecord \cup {None}], request' = f,
         \A h \in Handler : f[h] # None =>
             /\ f[h].revoked => f[h].secret \in Revoked
             /\ f[h].step # "match" => f[h].secret \in Issued /\ ~f[h].revoked
  PROVE  ProvisioningInv'
<1>1. Issued' = Issued /\ Revoked' = Revoked /\ Registered' = Registered
  BY DEF TablesKept, Issued, Revoked, Registered
<1>2. (UniqueSourceNames /\ NoLockout /\ SourcesHaveRouters)'
  BY TablePartKept
<1>3. (RotationRevokes /\ ScriptsFoundRight)'
  BY <1>1 DEF ProvisioningInv, TablesKept, RotationRevokes, ScriptsFoundRight
<1>4. (RevokedStaysOut /\ RequestsAreBehind)'
  BY <1>1 DEF RevokedStaysOut, RequestsAreBehind
<1>5. ProvisioningTypeOK'
  BY DEF ProvisioningInv, ProvisioningTypeOK, TablesKept, RequestRecord
<1> QED
  BY <1>2, <1>3, <1>4, <1>5 DEF ProvisioningInv

LEMMA RequestMoves ==
  ASSUME ProvisioningInv, TablesKept, UNCHANGED script,
         NEW h \in Handler, NEW req \in RequestRecord \cup {None}, Proceeds(h, req),
         req # None =>
             /\ req.revoked => req.secret \in Revoked
             /\ req.step # "match" => req.secret \in Issued /\ ~req.revoked
  PROVE  ProvisioningInv'
<1>1. request \in [Handler -> RequestRecord \cup {None}]
  BY DEF ProvisioningInv, ProvisioningTypeOK, RequestRecord
<1> DEFINE f == [request EXCEPT ![h] = req]
<1>2. f \in [Handler -> RequestRecord \cup {None}] /\ request' = f
  BY <1>1 DEF Proceeds
<1>3. \A g \in Handler : f[g] = IF g = h THEN req ELSE request[g]
  BY <1>1
<1> HIDE DEF f
<1>4. \A g \in Handler : f[g] # None =>
             /\ f[g].revoked => f[g].secret \in Revoked
             /\ f[g].step # "match" => f[g].secret \in Issued /\ ~f[g].revoked
  BY <1>3 DEF ProvisioningInv, RequestsAreBehind
<1> QED
  BY <1>2, <1>4, RequestKeeps

LEMMA RequestStepKeeps ==
  ASSUME ProvisioningInv, NEW h \in Handler, RequestStep(h)
  PROVE  ProvisioningInv'
<1>1. request[h] # None => request[h] \in RequestRecord
  BY DEF ProvisioningInv, ProvisioningTypeOK, RequestRecord
<1>2. ASSUME NEW r \in RouterId, NEW c \in Secret, LoadRouter(h, r, c)
      PROVE  ProvisioningInv'
  <2> DEFINE req == [step |-> "match", router |-> r, secret |-> c, revoked |-> c \in Revoked]
  <2>1. req \in RequestRecord
    BY DEF RequestRecord
  <2>2. req.secret = c /\ req.step = "match"
    OBVIOUS
  <2>3. req.revoked <=> c \in Revoked
    BY Zenon
  <2>4. Proceeds(h, req) /\ TablesKept /\ UNCHANGED script
    BY <1>2 DEF LoadRouter, TablesKept
  <2> HIDE DEF req
  <2> QED
    BY <2>1, <2>2, <2>3, <2>4, RequestMoves
<1>3. CASE Match(h)
  <2> DEFINE req == [request[h] EXCEPT !.step = "stamp"]
  <2>1. request[h].secret \in Issued \ Revoked
    BY <1>3 DEF Match, Usable, ActiveOf
  <2>2. ~request[h].revoked
    BY <1>3, <2>1 DEF Match, ProvisioningInv, RequestsAreBehind
  <2>3. /\ req \in RequestRecord
        /\ req.secret = request[h].secret /\ req.revoked = request[h].revoked
    BY <1>1, <1>3 DEF Match, RequestRecord
  <2>4. Proceeds(h, req) /\ TablesKept /\ UNCHANGED script
    BY <1>3 DEF Match, TablesKept
  <2> HIDE DEF req
  <2> QED
    BY <2>1, <2>2, <2>3, <2>4, RequestMoves
<1>4. CASE Stamp(h)
  <2> DEFINE req == [request[h] EXCEPT !.step = "admitted"]
  <2>1. request[h].secret \in Issued /\ ~request[h].revoked
    BY <1>4 DEF Stamp, ProvisioningInv, RequestsAreBehind
  <2>2. /\ req \in RequestRecord
        /\ req.secret = request[h].secret /\ req.revoked = request[h].revoked
    BY <1>1, <1>4 DEF Stamp, RequestRecord
  <2>3. credentials' = credentials
    BY <1>4 DEF Stamp, StampedRow, ProvisioningInv, ProvisioningTypeOK
  <2>4. Proceeds(h, req) /\ TablesKept /\ UNCHANGED script
    BY <1>4, <2>3 DEF Stamp, TablesKept
  <2> HIDE DEF req
  <2> QED
    BY <2>1, <2>2, <2>4, RequestMoves
<1>5. CASE EndRequest(h)
  <2>1. Proceeds(h, None) /\ TablesKept /\ UNCHANGED script
    BY <1>5 DEF EndRequest, TablesKept
  <2> QED
    BY <2>1, RequestMoves
<1> QED
  BY <1>2, <1>3, <1>4, <1>5 DEF RequestStep

-----------------------------------------------------------------------------
(* The composition.                                                        *)

LEMMA OperatesKeeps ==
  ASSUME DInv, Operates(SchemaStep)
  PROVE  DInv'
<1>1. SchemaInv'
  BY SchemaStepKeeps DEF DInv, Operates
<1>2. ProvisioningInv'
  <2> DEFINE f == IF service' = "up" THEN request ELSE [h \in Handler |-> None]
  <2>1. f \in [Handler -> RequestRecord \cup {None}]
    BY DEF DInv, ProvisioningInv, ProvisioningTypeOK, RequestRecord
  <2>2. \A h \in Handler : f[h] # None =>
           /\ f[h].revoked => f[h].secret \in Revoked
           /\ f[h].step # "match" => f[h].secret \in Issued /\ ~f[h].revoked
    BY DEF DInv, ProvisioningInv, RequestsAreBehind
  <2>3. request' = f /\ TablesKept /\ UNCHANGED script
    BY DEF Operates, TablesKept
  <2> HIDE DEF f
  <2> QED
    BY <2>1, <2>2, <2>3, RequestKeeps DEF DInv
<1> QED
  BY <1>1, <1>2 DEF DInv

LEMMA SchemaInvKept ==
  ASSUME SchemaInv, UNCHANGED schemaVars
  PROVE  SchemaInv'
  BY DEF schemaVars, SchemaInv, SchemaTypeOK, StampIsTrue, ServesKnownSchema,
         UpgradesKeepPlace, UnitIsStarting

LEMMA NextKeeps == DInv /\ [Next]_deploymentVars => DInv'
<1> SUFFICES ASSUME DInv, [Next]_deploymentVars PROVE DInv'
  OBVIOUS
<1>1. CASE UNCHANGED deploymentVars
  <2>1. SchemaInv'
    BY <1>1, SchemaInvKept DEF DInv, deploymentVars
  <2>2. ProvisioningInv'
    BY <1>1, RequestKeeps
    DEF DInv, deploymentVars, provisioningVars, TablesKept, ProvisioningInv,
        ProvisioningTypeOK, RequestRecord, RequestsAreBehind
  <2> QED
    BY <2>1, <2>2 DEF DInv
<1>2. CASE Administer
  BY <1>2, ScriptStepKeeps, SchemaInvKept DEF Administer, ScriptStep, DInv
<1>3. CASE Serve
  BY <1>3, RequestStepKeeps, SchemaInvKept DEF Serve, DInv
<1> QED
  BY <1>1, <1>2, <1>3, OperatesKeeps DEF Next

\* Every reachable state satisfies the invariant of both parts.
THEOREM DeploymentInvariance == Spec => []DInv
<1>1. Init => DInv
  BY InitSchemaInv, InitProvisioningInv DEF Init, DInv
<1> QED
  BY <1>1, NextKeeps, PTL DEF Spec

\* The unit never starts the API on a schema that lacks what its code needs,
\* wherever upgrades were cut off, by hand or at an earlier start.
THEOREM FailsClosed == Spec => []ServesKnownSchema
<1>1. DInv => ServesKnownSchema
  BY DEF DInv, SchemaInv
<1> QED
  BY <1>1, DeploymentInvariance, PTL

\* add_source and register_router never give a router two sources of one name.
THEOREM SourceNamesAreUnique == Spec => []UniqueSourceNames
<1>1. DInv => UniqueSourceNames
  BY DEF DInv, ProvisioningInv
<1> QED
  BY <1>1, DeploymentInvariance, PTL

\* rotate_router_secret never leaves a router without a usable credential.
THEOREM RotationKeepsACredential == Spec => []NoLockout
<1>1. DInv => NoLockout
  BY DEF DInv, ProvisioningInv
<1> QED
  BY <1>1, DeploymentInvariance, PTL

\* It revokes all that was active when it began.
THEOREM RotationIsThorough == Spec => []RotationRevokes
<1>1. DInv => RotationRevokes
  BY DEF DInv, ProvisioningInv
<1> QED
  BY <1>1, DeploymentInvariance, PTL

\* authenticate_router admits no request whose secret was revoked before.
THEOREM RevocationIsImmediate == Spec => []RevokedStaysOut
<1>1. DInv => RevokedStaysOut
  BY DEF DInv, ProvisioningInv
<1> QED
  BY <1>1, DeploymentInvariance, PTL

LEMMA RevokedStays ==
  ASSUME ProvisioningInv, NEW d \in Revoked,
         credentials' # credentials,
         \/ \E p \in Script : ScriptStep(p)
         \/ \E h \in Handler : RequestStep(h)
  PROVE  d \in Revoked'
<1>1. /\ d \in Secret /\ credentials[d] # None /\ credentials[d].revoked
      /\ credentials[d] \in [router : RouterId, revoked : BOOLEAN]
  BY DEF Revoked, Issued, ProvisioningInv, ProvisioningTypeOK
<1>2. ASSUME NEW p \in Script, Register(p) PROVE credentials'[d] = credentials[d]
  BY <1>1, <1>2, FreshIsUnused DEF Register, ProvisioningInv, ProvisioningTypeOK
<1>3. ASSUME NEW p \in Script, Rotate(p)
      PROVE  credentials'[d] = credentials[d]
             \/ credentials'[d] = [credentials[d] EXCEPT !.revoked = TRUE]
  BY <1>1, <1>3, FreshIsUnused DEF Rotate, ProvisioningInv, ProvisioningTypeOK
<1>4. ASSUME NEW h \in Handler, Stamp(h) PROVE credentials' = credentials
  BY <1>4 DEF Stamp, StampedRow, ProvisioningInv, ProvisioningTypeOK
<1>5. credentials'[d] = credentials[d]
      \/ credentials'[d] = [credentials[d] EXCEPT !.revoked = TRUE]
  BY <1>2, <1>3, <1>4
  DEF ScriptStep, Provisions, Rotates, GoesOn, RequestStep, CheckName, CheckSource, FindCredentials, AddSource,
      PrintSecret, Quit, LoadRouter, Match, EndRequest
<1>6. /\ credentials'[d] \in [router : RouterId, revoked : BOOLEAN]
      /\ credentials'[d].revoked
  BY <1>1, <1>5
<1>7. credentials'[d] # None
  BY <1>6, NoneAssumption
<1> QED
  BY <1>1, <1>6, <1>7 DEF Revoked, Issued

\* No step, and no write of a row that was loaded earlier, restores a revoked
\* credential.
THEOREM NeverRestored == Spec => RevocationIsFinal
<1>1. DInv /\ [Next]_deploymentVars => [Revoked \subseteq Revoked']_credentials
  <2> SUFFICES ASSUME DInv, [Next]_deploymentVars, credentials' # credentials
               PROVE  Revoked \subseteq Revoked'
    OBVIOUS
  <2> QED
    BY RevokedStays
    DEF DInv, Next, Operates, Administer, ScriptStep, Serve, deploymentVars, provisioningVars
<1> QED
  BY <1>1, DeploymentInvariance, PTL DEF Spec, RevocationIsFinal
=============================================================================
