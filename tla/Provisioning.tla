---------------------------- MODULE Provisioning ----------------------------
(***************************************************************************)
(* Routers, sources and credentials: the administrator's scripts           *)
(* (app/services/routers.py), several of which may run at once, and the    *)
(* authentication of requests (app/security.py).  All of them read first   *)
(* and write later, in one transaction.                                    *)
(***************************************************************************)
EXTENDS Integers, FiniteSets

CONSTANTS
    Script,     \* runs of the scripts that may overlap
    Handler,    \* threads that authenticate requests
    RouterId, RouterName,
    SourceId, SourceName,
    Secret,     \* what generate_router_secret may return: a new one each time
    NewKeys(_), \* which of these unused keys a new row may get
    None

\* None is no name, and no row.
ASSUME NoneAssumption ==
    None \notin RouterName \cup [router : RouterId, revoked : BOOLEAN]

VARIABLES
    routers,        \* routers: the name of each, or None
    sources,        \* sources: the router and name of each, or None
    credentials,    \* router_credentials, by secret: [router, revoked] or None
    script,         \* what each script has found out, or None
    request         \* and each request

provisioningVars == <<routers, sources, credentials, script, request>>

-----------------------------------------------------------------------------

ProvisioningInit ==
    /\ routers = [r \in RouterId |-> None]
    /\ sources = [s \in SourceId |-> None]
    /\ credentials = [c \in Secret |-> None]
    /\ script = [p \in Script |-> None]
    /\ request = [h \in Handler |-> None]

Registered == {r \in RouterId : routers[r] # None}
Issued == {c \in Secret : credentials[c] # None}
Revoked == {c \in Issued : credentials[c].revoked}
ActiveOf(r) == {c \in Issued \ Revoked : credentials[c].router = r}

\* The keys a new row of a table may get.
Fresh(table) == LET unused == {k \in DOMAIN table : table[k] = None} IN
                unused \cap NewKeys(unused)

HasSource(r, name) == \E s \in SourceId : sources[s] = [router |-> r, name |-> name]

\* The unique constraint on (router_id, name), which the insert meets.
NeverTaken(r, name) == FALSE
Taken(r, name) == HasSource(r, name)

NewCredential(r) == [router |-> r, revoked |-> FALSE]

Goes(p, job) == script' = [script EXCEPT ![p] = job]

-----------------------------------------------------------------------------
(* The scripts.  What they read they read outside a transaction.           *)

\* register_router: no router has this name.
CheckName(p, name, source) ==
    /\ script[p] = None
    /\ \A r \in Registered : routers[r] # name
    /\ Goes(p, [step |-> "register", name |-> name, source |-> source])
    /\ UNCHANGED <<routers, sources, credentials, request>>

\* It inserts the router, its first source and its credential.
Register(p) ==
    /\ script[p] # None /\ script[p].step = "register"
    /\ \E r \in Fresh(routers), s \in Fresh(sources), c \in Fresh(credentials) :
          /\ routers' = [routers EXCEPT ![r] = script[p].name]
          /\ sources' = [sources EXCEPT ![s] = [router |-> r, name |-> script[p].source]]
          /\ credentials' = [credentials EXCEPT ![c] = NewCredential(r)]
          /\ Goes(p, [step |-> "print", before |-> {}])
    /\ UNCHANGED request

\* add_source: the router is there, and has no such source.
CheckSource(p, r, name) ==
    /\ script[p] = None
    /\ r \in Registered
    /\ ~HasSource(r, name)
    /\ Goes(p, [step |-> "add", router |-> r, name |-> name])
    /\ UNCHANGED <<routers, sources, credentials, request>>

AddSource(p) ==
    /\ script[p] # None /\ script[p].step = "add"
    /\ ~Taken(script[p].router, script[p].name)
    /\ \E s \in Fresh(sources) :
          sources' = [sources EXCEPT
                         ![s] = [router |-> script[p].router, name |-> script[p].name]]
    /\ Goes(p, None)
    /\ UNCHANGED <<routers, credentials, request>>

\* rotate_router_secret: what it will revoke.
OneOf(r) == LET found == ActiveOf(r) IN {c \in found : c = CHOOSE d \in found : TRUE}
ToRevoke(r) == ActiveOf(r)

FindCredentials(p, r) ==
    /\ script[p] = None
    /\ r \in Registered
    /\ Goes(p, [step |-> "rotate", router |-> r, found |-> ToRevoke(r), before |-> ActiveOf(r)])
    /\ UNCHANGED <<routers, sources, credentials, request>>

RevokedWithNew(found, c) == found \cup {c}
RevokedBy(found, c) == found

Rotate(p) ==
    /\ script[p] # None /\ script[p].step = "rotate"
    /\ \E c \in Fresh(credentials) :
          /\ LET with == [credentials EXCEPT ![c] = NewCredential(script[p].router)] IN
             credentials' = [d \in Secret |->
                 IF d \in RevokedBy(script[p].found, c) THEN [with[d] EXCEPT !.revoked = TRUE]
                                                        ELSE with[d]]
          /\ Goes(p, [step |-> "print", before |-> script[p].before])
    /\ UNCHANGED <<routers, sources, request>>

\* The secret is printed after the commit.
PrintSecret(p) ==
    /\ script[p] # None /\ script[p].step = "print"
    /\ Goes(p, None)
    /\ UNCHANGED <<routers, sources, credentials, request>>

\* The insert is refused, the lock is not granted in time, a table is missing
\* or the process ends: nothing is committed.
Quit(p) ==
    /\ script[p] # None /\ script[p].step # "print"
    /\ Goes(p, None)
    /\ UNCHANGED <<routers, sources, credentials, request>>

-----------------------------------------------------------------------------
(* authenticate_router.                                                    *)

Proceeds(h, req) == request' = [request EXCEPT ![h] = req]

\* A request gives a router and a secret; the row of the router is loaded.
LoadRouter(h, r, c) ==
    /\ request[h] = None
    /\ r \in Registered
    /\ Proceeds(h, [step |-> "match", router |-> r, secret |-> c, revoked |-> c \in Revoked])
    /\ UNCHANGED <<routers, sources, credentials, script>>

\* Its unrevoked credentials are loaded, and one is the secret's.
AnyOf(r) == {c \in Issued : credentials[c].router = r}
Usable(r) == ActiveOf(r)

Match(h) ==
    /\ request[h] # None /\ request[h].step = "match"
    /\ request[h].secret \in Usable(request[h].router)
    /\ Proceeds(h, [request[h] EXCEPT !.step = "stamp"])
    /\ UNCHANGED <<routers, sources, credentials, script>>

\* Its use is recorded on the row it has loaded, of which the UPDATE writes
\* no other column.
WholeRow(row) == [row EXCEPT !.revoked = FALSE]
StampedRow(row) == row

Stamp(h) ==
    /\ request[h] # None /\ request[h].step = "stamp"
    /\ credentials' = [credentials EXCEPT ![request[h].secret] = StampedRow(@)]
    /\ Proceeds(h, [request[h] EXCEPT !.step = "admitted"])
    /\ UNCHANGED <<routers, sources, script>>

\* The answer, 401 or an error at any step; the handlers are in Ingestion.
EndRequest(h) ==
    /\ request[h] # None
    /\ Proceeds(h, None)
    /\ UNCHANGED <<routers, sources, credentials, script>>

-----------------------------------------------------------------------------

Provisions(p) ==
    \/ \E name \in RouterName, source \in SourceName : CheckName(p, name, source)
    \/ \E r \in RouterId, name \in SourceName : CheckSource(p, r, name)

Rotates(p) == \E r \in RouterId : FindCredentials(p, r)

GoesOn(p) == Register(p) \/ AddSource(p) \/ Rotate(p) \/ PrintSecret(p) \/ Quit(p)

ScriptStep(p) == Provisions(p) \/ Rotates(p) \/ GoesOn(p)

RequestStep(h) ==
    \/ \E r \in RouterId, c \in Secret : LoadRouter(h, r, c)
    \/ Match(h) \/ Stamp(h) \/ EndRequest(h)

-----------------------------------------------------------------------------

Job ==
    [step : {"register"}, name : RouterName, source : SourceName]
    \cup [step : {"add"}, router : RouterId, name : SourceName]
    \cup [step : {"rotate"}, router : RouterId, found : SUBSET Secret, before : SUBSET Secret]
    \cup [step : {"print"}, before : SUBSET Secret]

ProvisioningTypeOK ==
    /\ routers \in [RouterId -> RouterName \cup {None}]
    /\ sources \in [SourceId -> [router : RouterId, name : SourceName] \cup {None}]
    /\ credentials \in [Secret -> [router : RouterId, revoked : BOOLEAN] \cup {None}]
    /\ script \in [Script -> Job \cup {None}]
    /\ request \in [Handler ->
           [step : {"match", "stamp", "admitted"}, router : RouterId,
            secret : Secret, revoked : BOOLEAN] \cup {None}]

\* A source name means one source of its router.
UniqueSourceNames ==
    \A s, t \in SourceId :
        s # t /\ sources[s] # None => sources[s] # sources[t]

\* However many rotations overlap, a router is never left without a credential.
NoLockout == \A r \in Registered : ActiveOf(r) # {}

\* A rotation has revoked every credential it could have found, when it is
\* over, whatever other rotations and requests write meanwhile.
RotationRevokes ==
    \A p \in Script :
        script[p] # None /\ script[p].step = "print" => script[p].before \subseteq Revoked

\* No request gets in with a secret that was revoked before it began.
RevokedStaysOut ==
    \A h \in Handler :
        request[h] # None /\ request[h].step = "admitted" =>
            ~request[h].revoked

SourcesHaveRouters ==
    \A s \in SourceId : sources[s] # None => sources[s].router \in Registered

\* What is to be revoked covers what was active; what is added to is there.
ScriptsFoundRight ==
    \A p \in Script : script[p] # None =>
        /\ script[p].step = "rotate" =>
              script[p].before \subseteq script[p].found /\ script[p].found \subseteq Issued
        /\ script[p].step = "rotate" =>
              \A c \in script[p].found : credentials[c].router = script[p].router
        /\ script[p].step = "add" => script[p].router \in Registered

\* What a request knows of its credential is no newer than the credential.
RequestsAreBehind ==
    \A h \in Handler : request[h] # None =>
        /\ request[h].revoked => request[h].secret \in Revoked
        /\ request[h].step # "match" => request[h].secret \in Issued /\ ~request[h].revoked

ProvisioningInv ==
    /\ ProvisioningTypeOK /\ UniqueSourceNames /\ NoLockout /\ RotationRevokes
    /\ RevokedStaysOut /\ SourcesHaveRouters /\ ScriptsFoundRight /\ RequestsAreBehind

\* A revoked credential stays revoked: what requests write to a row they loaded
\* before it was does not bring it back.
RevocationIsFinal == [][Revoked \subseteq Revoked']_credentials
=============================================================================
