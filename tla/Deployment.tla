----------------------------- MODULE Deployment -----------------------------
(***************************************************************************)
(* Provisioning on the schema and the service of SchemaMigration: scripts  *)
(* work whenever the tables their code needs are there, requests while the *)
(* API runs, and a restart of the API ends all requests but no script.     *)
(***************************************************************************)
EXTENDS Provisioning, SchemaMigration

deploymentVars == <<schemaVars, provisioningVars>>

Init == SchemaInit /\ ProvisioningInit

\* The service or the schema moves on.
Operates(step) ==
    /\ step
    /\ request' = IF service' = "up" THEN request ELSE [h \in Handler |-> None]
    /\ UNCHANGED <<routers, sources, credentials, script>>

\* A script that finds the tables its code needs is never without them later.
\* The others fail with nothing done; rotation asks less of the schema.
Administer ==
    /\ \E p \in Script :
          \/ Needs(release) \subseteq schema /\ Provisions(p)
          \/ {"routers", "router_credentials"} \subseteq schema /\ Rotates(p)
          \/ GoesOn(p)
    /\ UNCHANGED schemaVars

Serve ==
    /\ service = "up"
    /\ \E h \in Handler : RequestStep(h)
    /\ UNCHANGED schemaVars

Next == Operates(SchemaStep) \/ Administer \/ Serve

Spec == Init /\ [][Next]_deploymentVars

\* The unit is retried, and upgrades do not hang.
FairSpec ==
    /\ Spec
    /\ WF_deploymentVars(Operates(Start \/ Upgrades(Unit)))
    /\ \A u \in Upgrader \ {Unit} : WF_deploymentVars(Operates(Upgrades(u)))

-----------------------------------------------------------------------------

\* The inductive invariant, of both parts.
DInv == SchemaInv /\ ProvisioningInv
=============================================================================
