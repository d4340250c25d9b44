--------------------------- MODULE PlatformProofs ----------------------------
(***************************************************************************)
(* Proofs about what the program stands on: the deployment, for any        *)
(* environments, releases, roles and number of processes; and the ports    *)
(* that have two adapters, for any calls: accounts and all that hangs on   *)
(* them, a group of people who split bills, a ledger, and uploaded         *)
(* statements.  An invariant about a port relates what memory holds to     *)
(* what PostgreSQL holds, item by item.                                    *)
(***************************************************************************)
EXTENDS Deployment, AccountStores, SplitStores, TransactionStores, StatementStores, FiniteSetTheorems, TLAPS

-----------------------------------------------------------------------------
(* The deployment *)

Pcs == {"configure", "migrate", "inspect", "apply", "provision", "assert", "wire", "serving", "done",
        "stopped"}
Process ==
    [server : BOOLEAN, release : Releases, pending : SUBSET Nat,
     stores : [durable : BOOLEAN, role : Roles \cup {NoRole}], pc : Pcs]

\* The variables that migrations are about keep their types.
DeployedTypeOK ==
    /\ env \in Environments
    /\ process \in Seq(Process)
    /\ schema \in Seq(Nat)
    /\ granted \in 0..Len(schema)

\* The migrations in effect are the first ones, in order, and recorded.
SchemaInv ==
    /\ \A i \in 1..Len(schema) : schema[i] = i
    /\ recorded = 1..Len(schema)

\* What a process has left to apply starts no later than after the schema; beyond that the schema is as
\* new as its image, and after that the grants are.
Placed(q) ==
    /\ q.pc = "apply" => \E k \in 0..Len(schema) : q.pending = (k + 1)..q.release
    /\ q.pc = "provision" => q.release <= Len(schema)
    /\ q.pc \in {"assert", "wire"} /\ env.migrateOnBoot /\ ReadStoreDriver # "memory"
       => q.release <= Len(schema)
    /\ q.stores.durable /\ env.migrateOnBoot => q.release <= Len(schema)
    /\ q.pc = "done" /\ env.app # NoRole => q.release <= granted

IInv == DeployedTypeOK /\ SchemaInv /\ \A p \in DOMAIN process : Placed(process[p])

-----------------------------------------------------------------------------
(* Processes *)

\* A process is one, of an image with some number of migrations.
LEMMA ProcessTypes ==
  ASSUME IInv, NEW p \in DOMAIN process
  PROVE  process \in Seq(Process) /\ process[p] \in Process /\ process[p].release \in Nat
<1>1. process \in Seq(Process)
  BY DEF IInv, DeployedTypeOK
<1>2. process[p] \in Process
  BY <1>1
<1>3. process[p].release \in Releases
  BY <1>2 DEF Process
<1> QED
  BY <1>1, <1>2, <1>3, DeploymentAssumption

\* What is placed stays so while the schema and the grants grow.
LEMMA PlacedGrows ==
  ASSUME NEW q \in Process, Placed(q), env' = env, Len(schema) \in Nat, Len(schema)' \in Nat,
         Len(schema) <= Len(schema)', granted \in Nat, granted' \in Nat, granted <= granted'
  PROVE  Placed(q)'
<1>1. q.release \in Nat
  BY DeploymentAssumption DEF Process
<1>2. ReadStoreDriver' = ReadStoreDriver
  BY DEF ReadStoreDriver
<1>3. \A k : k \in 0..Len(schema) => k \in 0..Len(schema)'
  OBVIOUS
<1> QED
  BY <1>1, <1>2, <1>3 DEF Placed

\* Fields of a process that goes on.
LEMMA GotoFields ==
  ASSUME process \in Seq(Process), NEW p \in DOMAIN process, NEW pc \in Pcs
  PROVE  LET q == [process[p] EXCEPT !.pc = pc] IN
         /\ q \in Process
         /\ q.pc = pc /\ q.release = process[p].release /\ q.pending = process[p].pending
         /\ q.stores = process[p].stores /\ q.server = process[p].server
<1>1. process[p] \in Process
  OBVIOUS
<1> QED
  BY <1>1 DEF Process

\* One process turns, the others stay, while the schema and the grants grow.
LEMMA TurnKeeps ==
  ASSUME IInv, NEW p \in DOMAIN process, NEW q \in Process, process' = [process EXCEPT ![p] = q],
      env' = env,
         schema' \in Seq(Nat), Len(schema) <= Len(schema)', granted' \in 0..Len(schema)',
             granted <= granted',
         SchemaInv', Placed(q)'
  PROVE  IInv'
<1> USE DEF IInv, DeployedTypeOK
<1>1. process' \in Seq(Process) /\ DOMAIN process' = DOMAIN process
  OBVIOUS
<1>2. ASSUME NEW o \in DOMAIN process
      PROVE  Placed(process[o])'
  <2>1. CASE o = p
    <3>1. process'[o] = q
      BY <2>1
    <3> QED
      BY <3>1 DEF Placed
  <2>2. CASE o # p
    <3>1. process'[o] = process[o] /\ process[o] \in Process
      BY <2>2
    <3> DEFINE r == process[o]
    <3>2. Len(schema) \in Nat /\ Len(schema)' \in Nat /\ granted \in Nat /\ granted' \in Nat
      OBVIOUS
    <3>3. Placed(r)
      OBVIOUS
    <3> QED
      BY <3>1, <3>2, <3>3, PlacedGrows DEF Placed
  <2> QED
    BY <2>1, <2>2
<1> QED
  BY <1>1, <1>2

\* A step of a process that leaves the database alone.
LEMMA TurnOnly ==
  ASSUME IInv, NEW p \in DOMAIN process, NEW q \in Process, process' = [process EXCEPT ![p] = q],
         UNCHANGED <<env, schema, recorded, granted>>, Placed(q)
  PROVE  IInv'
<1>1. schema' \in Seq(Nat) /\ granted' \in 0..Len(schema)' /\ Len(schema) <= Len(schema)' /\ granted <= granted'
  BY DEF IInv, DeployedTypeOK
<1>2. SchemaInv'
  BY DEF IInv, SchemaInv
<1>3. Placed(q)'
  BY DEF Placed, ReadStoreDriver
<1> QED
  BY <1>1, <1>2, <1>3, TurnKeeps

\* To stop, and to go where nothing is asked of the schema yet, is always possible.
LEMMA GotoEarly ==
  ASSUME IInv, NEW p \in DOMAIN process, NEW pc \in {"configure", "migrate", "inspect", "stopped"}, Goto(p, pc),
         UNCHANGED <<env, schema, recorded, granted>>
  PROVE  IInv'
<1> DEFINE q == [process[p] EXCEPT !.pc = pc]
<1>1. process \in Seq(Process) /\ pc \in Pcs /\ Placed(process[p])
  BY DEF IInv, DeployedTypeOK, Pcs
<1>2. q \in Process /\ q.pc = pc /\ q.release = process[p].release /\ q.stores = process[p].stores
  BY <1>1, GotoFields
<1>3. process' = [process EXCEPT ![p] = q]
  BY DEF Goto
<1> HIDE DEF q
<1>4. Placed(q)
  BY <1>1, <1>2 DEF Placed
<1> QED
  BY <1>2, <1>3, <1>4, TurnOnly

\* Nor does it matter when the schema is as new as the image.
LEMMA GotoLate ==
  ASSUME IInv, NEW p \in DOMAIN process, NEW pc \in Pcs \ {"apply", "done"}, Goto(p, pc),
         process[p].release <= Len(schema), UNCHANGED <<env, schema, recorded, granted>>
  PROVE  IInv'
<1> DEFINE q == [process[p] EXCEPT !.pc = pc]
<1>1. process \in Seq(Process) /\ pc \in Pcs /\ Placed(process[p])
  BY DEF IInv, DeployedTypeOK
<1>2. q \in Process /\ q.pc = pc /\ q.release = process[p].release /\ q.stores = process[p].stores
  BY <1>1, GotoFields
<1>3. process' = [process EXCEPT ![p] = q]
  BY DEF Goto
<1> HIDE DEF q
<1>4. Placed(q)
  BY <1>1, <1>2 DEF Placed
<1> QED
  BY <1>2, <1>3, <1>4, TurnOnly

-----------------------------------------------------------------------------
(* The steps *)

\* A new process has nothing from the database yet.
LEMMA StepLaunch ==
  ASSUME IInv, NEW server \in BOOLEAN, NEW r \in Releases, Launch(server, r)
  PROVE  IInv'
<1> DEFINE q == [server |-> server, release |-> r, pending |-> {},
                 stores |-> [durable |-> FALSE, role |-> NoRole],
                 pc |-> IF server THEN "configure" ELSE "migrate"]
<1>1. q \in Process /\ Placed(q)
  BY DEF Process, Pcs, Placed
<1>2. process' = Append(process, q) /\ process \in Seq(Process)
  BY DEF Launch, IInv, DeployedTypeOK
<1>3. UNCHANGED <<env, schema, recorded, granted>>
  BY DEF Launch
<1>4. ReadStoreDriver' = ReadStoreDriver
  BY <1>3 DEF ReadStoreDriver
<1> HIDE DEF q
<1>5. ASSUME NEW p \in DOMAIN process'
      PROVE  Placed(process[p])'
  <2>1. process'[p] = q \/ (p \in DOMAIN process /\ process'[p] = process[p])
    BY <1>1, <1>2
  <2>2. Placed(process'[p])
    BY <1>1, <2>1 DEF IInv
  <2> QED
    BY <1>3, <1>4, <2>2 DEF Placed
<1>6. process' \in Seq(Process)
  BY <1>1, <1>2
<1> QED
  BY <1>3, <1>5, <1>6 DEF IInv, DeployedTypeOK, SchemaInv

\* loadConfig: who serves without migrating has no durable store, or does not migrate on boot.
LEMMA StepConfigure ==
  ASSUME IInv, NEW p \in DOMAIN process, Configure(p)
  PROVE  IInv'
<1>1. UNCHANGED <<env, schema, recorded, granted>>
  BY DEF Configure
<1>2. CASE Goto(p, "stopped") \/ Goto(p, "migrate")
  BY <1>1, <1>2, GotoEarly
<1>3. CASE Goto(p, "assert") /\ BuildConfig /\ ~ (ReadStoreDriver = "postgres" /\ env.migrateOnBoot)
  <2> DEFINE q == [process[p] EXCEPT !.pc = "assert"]
  <2>1. process \in Seq(Process) /\ Placed(process[p])
    BY DEF IInv, DeployedTypeOK
  <2>2. q \in Process /\ q.pc = "assert" /\ q.release = process[p].release /\ q.stores = process[p].stores
    BY <2>1, GotoFields DEF Pcs
  <2>3. process' = [process EXCEPT ![p] = q]
    BY <1>3 DEF Goto
  <2> HIDE DEF q
  <2>4. Placed(q)
    BY <1>3, <2>1, <2>2 DEF Placed, BuildConfig, ResolveDatabase
  <2> QED
    BY <1>1, <2>2, <2>3, <2>4, TurnOnly
<1> QED
  BY <1>2, <1>3 DEF Configure

\* What is to be applied: the files that are not recorded, when everything recorded is a file.
LEMMA StepInspect ==
  ASSUME IInv, NEW p \in DOMAIN process, InspectMigrations(p)
  PROVE  IInv'
<1>1. UNCHANGED <<env, schema, recorded, granted>>
  BY DEF InspectMigrations
<1>2. CASE Stop(p)
  BY <1>1, <1>2, GotoEarly DEF Stop
<1>3. CASE recorded \ (1..process[p].release) = {}
  <2> DEFINE q == [process[p] EXCEPT !.pc = "apply", !.pending = (1..process[p].release) \ recorded]
  <2>1. process \in Seq(Process) /\ process[p] \in Process /\ process[p].release \in Nat
    BY ProcessTypes
  <2>2. Len(schema) \in Nat /\ recorded = 1..Len(schema) /\ Placed(process[p])
    BY DEF IInv, SchemaInv, DeployedTypeOK
  <2>3. (1..process[p].release) \ recorded = (Len(schema) + 1)..process[p].release
    BY <1>3, <2>1, <2>2
  <2>4. q \in Process /\ q.pc = "apply" /\ q.release = process[p].release /\ q.stores = process[p].stores
        /\ q.pending = (1..process[p].release) \ recorded
    <3>1. (1..process[p].release) \ recorded \in SUBSET Nat
      BY <2>1
    <3> QED
      BY <2>1, <3>1 DEF Process, Pcs
  <2>5. process' = [process EXCEPT ![p] = q]
    BY <1>3 DEF InspectMigrations
  <2> HIDE DEF q
  <2>6. Placed(q)
    BY <2>2, <2>3, <2>4 DEF Placed
  <2> QED
    BY <1>1, <2>4, <2>5, <2>6, TurnOnly
<1> QED
  BY <1>2, <1>3 DEF InspectMigrations

\* The least of what is left.
LEMMA MinOfInterval ==
  ASSUME NEW k \in Nat, NEW n \in Nat, (k + 1)..n # {}
  PROVE  Min((k + 1)..n) = k + 1 /\ ((k + 1)..n) \ {k + 1} = (k + 2)..n
<1>1. k + 1 \in (k + 1)..n /\ \A y \in (k + 1)..n : k + 1 <= y
  OBVIOUS
<1>2. \A x \in (k + 1)..n : (\A y \in (k + 1)..n : x <= y) => x = k + 1
  BY <1>1
<1>3. Min((k + 1)..n) = k + 1
  BY <1>1, <1>2 DEF Min
<1> QED
  BY <1>3

\* The next file comes right after the schema, or is recorded by now.
LEMMA StepApply ==
  ASSUME IInv, NEW p \in DOMAIN process, ApplyMigration(p)
  PROVE  IInv'
<1> DEFINE file == Min(process[p].pending)
<1>1. UNCHANGED <<env, granted>> /\ process[p].pc = "apply" /\ process[p].pending # {}
  BY DEF ApplyMigration, At
<1>2. CASE Stop(p) /\ UNCHANGED <<schema, recorded>>
  BY <1>1, <1>2, GotoEarly DEF Stop
<1>3. CASE /\ file \notin recorded
           /\ schema' = Append(schema, file) /\ recorded' = recorded \cup {file}
           /\ process' = [process EXCEPT ![p].pending = @ \ {file}]
  <2>1. process \in Seq(Process) /\ process[p] \in Process /\ process[p].release \in Nat
    BY ProcessTypes
  <2>2. schema \in Seq(Nat) /\ Len(schema) \in Nat /\ recorded = 1..Len(schema)
    BY DEF IInv, SchemaInv, DeployedTypeOK
  <2>3. PICK k \in 0..Len(schema) : process[p].pending = (k + 1)..process[p].release
    BY <1>1 DEF IInv, Placed
  <2>4. file = k + 1 /\ process[p].pending \ {file} = (k + 2)..process[p].release
    BY <1>1, <2>1, <2>3, MinOfInterval
  <2>5. k = Len(schema)
    BY <1>3, <2>2, <2>4
  <2>6. schema' = Append(schema, Len(schema) + 1) /\ recorded' = 1..(Len(schema) + 1)
    BY <1>3, <2>2, <2>4, <2>5
  <2>7. schema' \in Seq(Nat) /\ Len(schema)' = Len(schema) + 1
    BY <2>2, <2>6
  <2>8. SchemaInv'
    <3>1. \A i \in 1..Len(schema) + 1 : schema'[i] = i
      BY <2>2, <2>6 DEF IInv, SchemaInv
    <3> QED
      BY <2>6, <2>7, <3>1 DEF SchemaInv
  <2>9. PICK q : q = [process[p] EXCEPT !.pending = @ \ {file}]
    OBVIOUS
  <2>10. q \in Process /\ q.pc = "apply" /\ q.release = process[p].release /\ q.stores = process[p].stores
         /\ q.pending = (k + 2)..process[p].release
    <3>1. (k + 2)..process[p].release \in SUBSET Nat
      BY <2>1
    <3> HIDE DEF file
    <3> QED
      BY <1>1, <2>1, <2>4, <2>9, <3>1 DEF Process
  <2>11. process' = [process EXCEPT ![p] = q]
    BY <1>3, <2>9
  <2>12. Placed(q)'
    <3>1. k + 1 \in 0..Len(schema)' /\ (k + 2)..q.release = ((k + 1) + 1)..q.release
      BY <2>1, <2>2, <2>5, <2>7, <2>10
    <3>2. q.stores.durable /\ env.migrateOnBoot => q.release <= Len(schema)'
      BY <2>1, <2>2, <2>7, <2>10 DEF IInv, Placed
    <3> QED
      BY <1>1, <2>10, <3>1, <3>2 DEF Placed
  <2>13. granted' \in 0..Len(schema)' /\ granted <= granted' /\ Len(schema) <= Len(schema)'
    BY <1>1, <2>2, <2>7 DEF IInv, DeployedTypeOK
  <2> QED
    BY <1>1, <2>7, <2>8, <2>10, <2>11, <2>12, <2>13, TurnKeeps
<1> QED
  BY <1>2, <1>3 DEF ApplyMigration

\* Nothing is left: the schema is as new as the image, and stays so.
LEMMA StepUnlock ==
  ASSUME IInv, NEW p \in DOMAIN process, Unlock(p)
  PROVE  IInv'
<1>1. UNCHANGED <<env, schema, recorded, granted>> /\ process[p].pc = "apply" /\ process[p].pending = {}
  BY DEF Unlock, At
<1>2. process[p].release <= Len(schema)
  <2>1. process[p].release \in Nat /\ Len(schema) \in Nat
    BY ProcessTypes DEF IInv, DeployedTypeOK
  <2>2. PICK k \in 0..Len(schema) : process[p].pending = (k + 1)..process[p].release
    BY <1>1 DEF IInv, Placed
  <2>3. \A n \in Nat : (k + 1)..n = {} => n <= k
    OBVIOUS
  <2>4. (k + 1)..process[p].release = {}
    BY <1>1, <2>2
  <2>5. process[p].release <= k
    BY <2>1, <2>3, <2>4
  <2> QED
    BY <2>1, <2>5
<1>3. CASE Stop(p)
  BY <1>1, <1>3, GotoEarly DEF Stop
<1>4. CASE Goto(p, "provision") \/ Goto(p, "assert")
  BY <1>1, <1>2, <1>4, GotoLate DEF Pcs
<1>5. CASE Goto(p, "done") /\ env.app = NoRole
  <2> DEFINE q == [process[p] EXCEPT !.pc = "done"]
  <2>1. process \in Seq(Process) /\ Placed(process[p])
    BY DEF IInv, DeployedTypeOK
  <2>2. q \in Process /\ q.pc = "done" /\ q.release = process[p].release /\ q.stores = process[p].stores
    BY <2>1, GotoFields DEF Pcs
  <2>3. process' = [process EXCEPT ![p] = q]
    BY <1>5 DEF Goto
  <2> HIDE DEF q
  <2>4. Placed(q)
    BY <1>5, <2>1, <2>2 DEF Placed
  <2> QED
    BY <1>1, <2>2, <2>3, <2>4, TurnOnly
<1> QED
  BY <1>3, <1>4, <1>5 DEF Unlock

\* The grants become as new as the schema.
LEMMA StepProvision ==
  ASSUME IInv, NEW p \in DOMAIN process, ProvisionAppRole(p)
  PROVE  IInv'
<1>1. UNCHANGED <<env, schema, recorded>> /\ process[p].pc = "provision"
  BY DEF ProvisionAppRole, At
<1>2. CASE Stop(p) /\ granted' = granted
  BY <1>1, <1>2, GotoEarly DEF Stop
<1>3. ASSUME NEW pc \in {"assert", "done"}, Goto(p, pc), granted' = Len(schema)
      PROVE  IInv'
  <2>1. /\ process \in Seq(Process) /\ Placed(process[p]) /\ process[p].release <= Len(schema)
        /\ schema \in Seq(Nat) /\ granted \in 0..Len(schema) /\ Len(schema) \in Nat
    BY <1>1 DEF IInv, DeployedTypeOK, Placed
  <2>2. PICK q : q = [process[p] EXCEPT !.pc = pc]
    OBVIOUS
  <2>3. q \in Process /\ q.pc = pc /\ q.release = process[p].release /\ q.stores = process[p].stores
    <3> DEFINE r == [process[p] EXCEPT !.pc = pc]
    <3>1. pc \in Pcs
      BY DEF Pcs
    <3>2. r \in Process /\ r.pc = pc /\ r.release = process[p].release /\ r.stores = process[p].stores
      BY <2>1, <3>1, GotoFields
    <3> QED
      BY <2>2, <3>2
  <2>4. process' = [process EXCEPT ![p] = q]
    BY <1>3, <2>2 DEF Goto
  <2>5. Placed(q)'
    BY <1>1, <1>3, <2>1, <2>3 DEF Placed
  <2>6. /\ schema' \in Seq(Nat) /\ granted' \in 0..Len(schema)' /\ granted <= granted'
        /\ Len(schema) <= Len(schema)' /\ SchemaInv'
    BY <1>1, <1>3, <2>1 DEF IInv, SchemaInv
  <2> QED
    BY <1>1, <2>3, <2>4, <2>5, <2>6, TurnKeeps
<1> QED
  BY <1>2, <1>3 DEF ProvisionAppRole

\* The role is asked about, and the port opened, after the schema.
LEMMA StepServe ==
  ASSUME IInv, NEW p \in DOMAIN process, AssertRestrictedRuntimeRole(p) \/ Listen(p)
  PROVE  IInv'
<1>1. UNCHANGED <<env, schema, recorded, granted>>
  BY DEF AssertRestrictedRuntimeRole, Listen
<1>2. CASE Goto(p, "stopped")
  BY <1>1, <1>2, GotoEarly
<1>3. CASE AssertRestrictedRuntimeRole(p) /\ Goto(p, "wire")
  <2> DEFINE q == [process[p] EXCEPT !.pc = "wire"]
  <2>1. process \in Seq(Process) /\ Placed(process[p]) /\ process[p].pc = "assert"
    BY <1>3 DEF IInv, DeployedTypeOK, AssertRestrictedRuntimeRole, At
  <2>2. q \in Process /\ q.pc = "wire" /\ q.release = process[p].release /\ q.stores = process[p].stores
    BY <2>1, GotoFields DEF Pcs
  <2>3. process' = [process EXCEPT ![p] = q]
    BY <1>3 DEF Goto
  <2> HIDE DEF q
  <2>4. Placed(q)
    BY <2>1, <2>2 DEF Placed
  <2> QED
    BY <1>1, <2>2, <2>3, <2>4, TurnOnly
<1>4. CASE Listen(p) /\ process' = [process EXCEPT ![p].pc = "serving", ![p].stores = StoreProviders]
  <2> DEFINE q == [process[p] EXCEPT !.pc = "serving", !.stores = StoreProviders]
  <2>1. process[p] \in Process /\ Placed(process[p]) /\ process[p].pc = "wire"
    BY <1>4, ProcessTypes DEF IInv, Listen, At
  <2>2. StoreProviders \in [durable : BOOLEAN, role : Roles \cup {NoRole}]
        /\ (StoreProviders.durable => ReadStoreDriver # "memory")
    <3>1. {env.owner, env.app} \subseteq Roles \cup {NoRole}
      BY DeploymentAssumption DEF IInv, DeployedTypeOK
    <3> QED
      BY <3>1 DEF StoreProviders, GetAppPool
  <2>3. q \in Process /\ q.pc = "serving" /\ q.release = process[p].release /\ q.stores = StoreProviders
    <3> HIDE DEF StoreProviders
    <3> QED
      BY <2>1, <2>2 DEF Process, Pcs
  <2>4. process' = [process EXCEPT ![p] = q]
    BY <1>4
  <2> HIDE DEF q
  <2>5. Placed(q)
    BY <2>1, <2>2, <2>3 DEF Placed
  <2> QED
    BY <1>1, <2>3, <2>4, <2>5, TurnOnly
<1> QED
  <2>1. CASE AssertRestrictedRuntimeRole(p)
    BY <1>2, <1>3, <2>1 DEF AssertRestrictedRuntimeRole
  <2>2. CASE Listen(p)
    BY <1>2, <1>4, <2>2 DEF Listen, Goto
  <2> QED
    BY <2>1, <2>2

\* Nobody's migrations.
LEMMA StepElsewhere ==
  ASSUME IInv, UNCHANGED <<env, process, schema, recorded, granted>>
  PROVE  IInv'
  BY DEF IInv, DeployedTypeOK, SchemaInv, Placed, ReadStoreDriver

-----------------------------------------------------------------------------
(* The theorem *)

LEMMA Inductive == DeploymentSpec => []IInv
<1>1. DeploymentInit => IInv
  BY DEF DeploymentInit, IInv, DeployedTypeOK, SchemaInv
<1>2. ASSUME IInv, [DeploymentNext]_deploymentVars
      PROVE  IInv'
  <2>1. ASSUME NEW p \in DOMAIN process, TryLock(p) \/ Exit(p)
        PROVE  IInv'
    BY <1>2, <2>1, GotoEarly DEF TryLock, Exit, Stop
  <2>2. CASE UNCHANGED deploymentVars
    BY <1>2, <2>2, StepElsewhere DEF deploymentVars
  <2>3. ASSUME NEW p, NEW s, Seal(p, s)
        PROVE  IInv'
    BY <1>2, <2>3, StepElsewhere DEF Seal
  <2>4. CASE LoseLock \/ \E role \in Roles, powers \in SUBSET Powers : AlterRole(role, powers)
    BY <1>2, <2>4, StepElsewhere DEF LoseLock, AlterRole
  <2> QED
    BY <1>2, <2>1, <2>2, <2>3, <2>4, StepLaunch, StepConfigure, StepInspect, StepApply, StepUnlock,
       StepProvision, StepServe DEF DeploymentNext
<1> QED
  BY <1>1, <1>2, PTL DEF DeploymentSpec

\* runMigrations and provisionAppRole: whichever servers and release steps overlap, lose their lock or
\* die, every migration is in effect once and in order and recorded, who migrates on boot serves a schema
\* as new as its image, and a release step that succeeded has granted all of it, for any number of
\* processes, releases and environments.
THEOREM MigrationsApplyOnce == DeploymentSpec => []MigratedOnce
<1>1. IInv => MigratedOnce
  <2> SUFFICES ASSUME IInv
               PROVE  MigratedOnce
    OBVIOUS
  <2>1. schema \in Seq(Nat) /\ Len(schema) \in Nat /\ granted \in Nat
    BY DEF IInv, DeployedTypeOK
  <2>2. schema = [i \in 1..Len(schema) |-> i]
    BY <2>1 DEF IInv, SchemaInv
  <2>3. recorded = ToSet(schema)
    BY <2>1 DEF IInv, SchemaInv, ToSet
  <2>4. ASSUME NEW p \in DOMAIN process
        PROVE  /\ process[p].stores.durable /\ env.migrateOnBoot => Len(schema) >= process[p].release
               /\ At(p, "done") /\ env.app # NoRole => granted >= process[p].release
    BY <2>1, ProcessTypes DEF IInv, Placed, At
  <2> QED
    BY <2>2, <2>3, <2>4 DEF MigratedOnce
<1> QED
  BY <1>1, Inductive, PTL

-----------------------------------------------------------------------------
(* What is served, and with which keys *)

Powered == power \in [Roles -> (SUBSET Powers) \cup {{NoRole}}]

\* A server that has read its environment has been given a sound one; one that is open has what its modules
\* need, and its stores are those of the environment.
Configured(q) ==
    /\ q.pc \in {"configure", "assert", "wire", "serving"} => q.server
    /\ q.server /\ q.pc \notin {"configure", "stopped"} => BuildConfig
    /\ q.pc = "serving" => Providers /\ q.stores = StoreProviders
    /\ q.pc = "apply" => anyTable

\* In production no process has sealed anything with a key of its own.
KeysOfEnvironment == env.production => \A s \in sealed : s[2] = <<"env", s[1]>> /\ Given(s[1])

\* What the roles and the processes are, that a schema is made of tables, and whose the keys are.
ServeInv ==
    /\ Powered /\ (schema # <<>> => anyTable) /\ KeysOfEnvironment
    /\ \A p \in DOMAIN process : Configured(process[p])

\* The same environment is judged the same.
LEMMA SameConfig ==
  ASSUME env' = env
  PROVE  BuildConfig' = BuildConfig /\ Providers' = Providers /\ StoreProviders' = StoreProviders
  BY DEF BuildConfig, Providers, StoreProviders, GetAppPool, ReadStoreDriver, Given, Sound, ResolveKeys,
         ResolveRequired, ResolveDatabase, ResolveStripe, ResolvePlaid, ResolveCorsOrigins,
         ResolveLegalConfig, ResolveBillingConfig, ResolveOptional, ResolveReleaseSha

\* One process turns, and the others stay what they are.
LEMMA TurnConfigured ==
  ASSUME IInv, ServeInv, NEW p \in DOMAIN process, NEW q, process' = [process EXCEPT ![p] = q],
         env' = env, anyTable => anyTable', Configured(q)'
  PROVE  \A o \in DOMAIN process' : Configured(process[o])'
<1>1. DOMAIN process' = DOMAIN process
  BY DEF IInv, DeployedTypeOK
<1>2. BuildConfig' = BuildConfig /\ Providers' = Providers /\ StoreProviders' = StoreProviders
  BY SameConfig
<1>3. ASSUME NEW r, Configured(r)
      PROVE  Configured(r)'
  BY <1>2, <1>3 DEF Configured
<1>4. ASSUME NEW o \in DOMAIN process
      PROVE  Configured(process[o])'
  <2>1. CASE o = p
    <3>1. process'[o] = q
      BY <2>1
    <3> QED
      BY <3>1 DEF Configured
  <2>2. CASE o # p
    <3>1. PICK r : r = process[o]
      OBVIOUS
    <3>2. process'[o] = r /\ Configured(r)
      BY <2>2, <3>1 DEF ServeInv
    <3>3. Configured(r)'
      BY <1>3, <3>2
    <3> QED
      BY <3>2, <3>3 DEF Configured
  <2> QED
    BY <2>1, <2>2
<1> QED
  BY <1>1, <1>4

\* A process goes on to where nothing new is asked, or stops.
LEMMA GoesOn ==
  ASSUME IInv, ServeInv, NEW p \in DOMAIN process, NEW pc \in Pcs \ {"configure", "serving"}, Goto(p, pc),
         env' = env, anyTable => anyTable',
         pc \in {"assert", "wire"} => process[p].server,
         pc # "stopped" /\ process[p].server => BuildConfig,
         pc = "apply" => anyTable'
  PROVE  \A o \in DOMAIN process' : Configured(process[o])'
<1>1. process[p] \in Process
  BY ProcessTypes
<1>2. PICK q : q = [process[p] EXCEPT !.pc = pc]
  OBVIOUS
<1>3. q.pc = pc /\ q.server = process[p].server
  BY <1>1, <1>2 DEF Process
<1>4. process' = [process EXCEPT ![p] = q]
  BY <1>2 DEF Goto
<1>5. BuildConfig' = BuildConfig
  BY SameConfig
<1>6. Configured(q)'
  BY <1>3, <1>5 DEF Configured
<1> QED
  BY <1>4, <1>6, TurnConfigured

\* The steps of a process before it serves.
LEMMA StepConfigured ==
  ASSUME IInv, ServeInv, NEW p \in DOMAIN process,
         \/ Configure(p) \/ TryLock(p) \/ InspectMigrations(p) \/ ApplyMigration(p) \/ Unlock(p)
         \/ ProvisionAppRole(p) \/ AssertRestrictedRuntimeRole(p) \/ Listen(p) \/ Exit(p)
  PROVE  \A o \in DOMAIN process' : Configured(process[o])'
<1> DEFINE Goal == \A o \in DOMAIN process' : Configured(process[o])'
<1>1. process[p] \in Process /\ Configured(process[p])
  BY ProcessTypes DEF ServeInv
<1>2. env' = env /\ (anyTable => anyTable')
  BY DEF Configure, TryLock, InspectMigrations, ApplyMigration, Unlock, ProvisionAppRole,
         AssertRestrictedRuntimeRole, Listen, Exit
<1>3. ASSUME Goto(p, "stopped")
      PROVE  Goal
  BY <1>2, <1>3, GoesOn DEF Pcs
<1>4. CASE Configure(p)
  <2>1. CASE BuildConfig /\ (Goto(p, "migrate") \/ Goto(p, "assert"))
    <3>1. process[p].pc = "configure"
      BY <1>4 DEF Configure, At
    <3>2. CASE Goto(p, "migrate")
      BY <1>2, <2>1, <3>2, GoesOn DEF Pcs
    <3>3. CASE Goto(p, "assert") /\ process[p].server
      BY <1>2, <2>1, <3>3, GoesOn DEF Pcs
    <3>4. process[p].server
      BY <1>1, <3>1 DEF Configured
    <3> QED
      BY <2>1, <3>2, <3>3, <3>4
  <2>2. Goto(p, "stopped") \/ (BuildConfig /\ (Goto(p, "migrate") \/ Goto(p, "assert")))
    BY <1>4 DEF Configure
  <2> QED
    BY <1>3, <2>1, <2>2
<1>5. CASE TryLock(p)
  <2>1. process[p].pc = "migrate"
    BY <1>5 DEF TryLock, At
  <2>2. CASE Goto(p, "inspect")
    BY <1>1, <1>2, <2>1, <2>2, GoesOn DEF Pcs, Configured
  <2> QED
    BY <1>3, <1>5, <2>2 DEF TryLock
<1>6. CASE InspectMigrations(p)
  <2>1. process[p].pc = "inspect" /\ anyTable'
    BY <1>6 DEF InspectMigrations, At
  <2>2. CASE process' = [process EXCEPT ![p].pc = "apply", ![p].pending = (1..process[p].release) \ recorded]
    <3>1. PICK q : q = [process[p] EXCEPT !.pc = "apply", !.pending = (1..process[p].release) \ recorded]
      OBVIOUS
    <3>2. q.pc = "apply" /\ q.server = process[p].server
      BY <1>1, <3>1 DEF Process
    <3>3. process' = [process EXCEPT ![p] = q]
      BY <2>2, <3>1
    <3>4. BuildConfig' = BuildConfig
      BY <1>2, SameConfig
    <3>5. Configured(q)'
      BY <1>1, <2>1, <3>2, <3>4 DEF Configured
    <3> QED
      BY <1>2, <3>3, <3>5, TurnConfigured
  <2> QED
    BY <1>3, <1>6, <2>2 DEF InspectMigrations, Stop
<1>7. CASE ApplyMigration(p)
  <2>1. process[p].pc = "apply"
    BY <1>7 DEF ApplyMigration, At
  <2>2. CASE process' = [process EXCEPT ![p].pending = @ \ {Min(process[p].pending)}]
    <3>1. PICK q : q = [process[p] EXCEPT !.pending = @ \ {Min(process[p].pending)}]
      OBVIOUS
    <3>2. q.pc = "apply" /\ q.server = process[p].server
      BY <1>1, <2>1, <3>1 DEF Process
    <3>3. process' = [process EXCEPT ![p] = q]
      BY <2>2, <3>1
    <3>4. BuildConfig' = BuildConfig
      BY <1>2, SameConfig
    <3>5. Configured(q)'
      BY <1>1, <1>2, <2>1, <3>2, <3>4 DEF Configured
    <3> QED
      BY <1>2, <3>3, <3>5, TurnConfigured
  <2> QED
    BY <1>3, <1>7, <2>2 DEF ApplyMigration, Stop
<1>8. CASE Unlock(p) \/ ProvisionAppRole(p)
  <2>1. process[p].pc \in {"apply", "provision"}
    BY <1>8 DEF Unlock, ProvisionAppRole, At
  <2>2. process[p].server => BuildConfig
    BY <1>1, <2>1 DEF Configured
  <2>3. CASE Goto(p, "provision") \/ Goto(p, "done")
    BY <1>2, <2>2, <2>3, GoesOn DEF Pcs
  <2>4. CASE Goto(p, "assert") /\ process[p].server
    BY <1>2, <2>2, <2>4, GoesOn DEF Pcs
  <2> QED
    BY <1>3, <1>8, <2>3, <2>4 DEF Unlock, ProvisionAppRole, Stop
<1>9. CASE AssertRestrictedRuntimeRole(p)
  <2>1. process[p].pc = "assert"
    BY <1>9 DEF AssertRestrictedRuntimeRole, At
  <2>2. CASE Goto(p, "wire")
    BY <1>1, <1>2, <2>1, <2>2, GoesOn DEF Pcs, Configured
  <2> QED
    BY <1>3, <1>9, <2>2 DEF AssertRestrictedRuntimeRole
<1>10. CASE Listen(p)
  <2>1. process[p].pc = "wire"
    BY <1>10 DEF Listen, At
  <2>2. CASE Providers /\ process' = [process EXCEPT ![p].pc = "serving", ![p].stores = StoreProviders]
    <3>1. PICK q : q = [process[p] EXCEPT !.pc = "serving", !.stores = StoreProviders]
      OBVIOUS
    <3>2. q.pc = "serving" /\ q.server = process[p].server /\ q.stores = StoreProviders
      BY <1>1, <3>1 DEF Process
    <3>3. process' = [process EXCEPT ![p] = q]
      BY <2>2, <3>1
    <3>4. BuildConfig' = BuildConfig /\ Providers' = Providers /\ StoreProviders' = StoreProviders
      BY <1>2, SameConfig
    <3>5. Configured(q)'
      BY <1>1, <2>1, <2>2, <3>2, <3>4 DEF Configured
    <3> QED
      BY <1>2, <3>3, <3>5, TurnConfigured
  <2>3. \/ Providers /\ process' = [process EXCEPT ![p].pc = "serving", ![p].stores = StoreProviders]
        \/ Goto(p, "stopped")
    BY <1>10 DEF Listen, Goto
  <2> QED
    BY <1>3, <2>2, <2>3
<1>11. CASE Exit(p)
  BY <1>3, <1>11 DEF Exit, Stop
<1> QED
  BY <1>4, <1>5, <1>6, <1>7, <1>8, <1>9, <1>10, <1>11

\* Whoever grants, creates or alters a role leaves every role one with powers, or none.
LEMMA StepPowered ==
  ASSUME IInv, ServeInv, [DeploymentNext]_deploymentVars
  PROVE  Powered'
<1>1. CASE UNCHANGED power
  BY <1>1 DEF ServeInv, Powered
<1>2. ASSUME NEW r, NEW P \in SUBSET Powers, power' = [power EXCEPT ![r] = P]
      PROVE  Powered'
  BY <1>2 DEF ServeInv, Powered
<1> QED
  BY <1>1, <1>2 DEF DeploymentNext, deploymentVars, Launch, Configure, TryLock, InspectMigrations,
     ApplyMigration, Unlock, ProvisionAppRole, AssertRestrictedRuntimeRole, Listen, Exit, Seal, LoseLock,
     AlterRole

\* A table is there before the first migration is.
LEMMA StepTables ==
  ASSUME IInv, ServeInv, [DeploymentNext]_deploymentVars
  PROVE  schema' # <<>> => anyTable'
<1>1. CASE UNCHANGED schema /\ (anyTable => anyTable')
  BY <1>1 DEF ServeInv
<1>2. ASSUME NEW p \in DOMAIN process, ApplyMigration(p)
      PROVE  anyTable'
  BY <1>2 DEF ServeInv, Configured, ApplyMigration, At
<1>3. ASSUME NEW p \in DOMAIN process, InspectMigrations(p)
      PROVE  anyTable' /\ UNCHANGED schema
  BY <1>3 DEF InspectMigrations
<1>4. CASE UNCHANGED deploymentVars \/ LoseLock
  BY <1>1, <1>4 DEF deploymentVars, LoseLock
<1>5. ASSUME NEW server, NEW r, Launch(server, r)
      PROVE  UNCHANGED <<schema, anyTable>>
  BY <1>5 DEF Launch
<1>6. ASSUME NEW p, \/ Configure(p) \/ TryLock(p) \/ Unlock(p) \/ ProvisionAppRole(p)
                    \/ AssertRestrictedRuntimeRole(p) \/ Listen(p) \/ Exit(p)
      PROVE  UNCHANGED <<schema, anyTable>>
  BY <1>6 DEF Configure, TryLock, Unlock, ProvisionAppRole, AssertRestrictedRuntimeRole, Listen, Exit
<1>7. ASSUME NEW p, NEW k, Seal(p, k) \/ AlterRole(p, k)
      PROVE  UNCHANGED <<schema, anyTable>>
  BY <1>7 DEF Seal, AlterRole
<1> QED
  BY <1>1, <1>2, <1>3, <1>4, <1>5, <1>6, <1>7 DEF DeploymentNext

\* What a production server seals, it seals with the key of the environment: it has read a sound one.
LEMMA StepKeys ==
  ASSUME IInv, ServeInv, [DeploymentNext]_deploymentVars
  PROVE  KeysOfEnvironment'
<1>1. env' = env
  BY DEF DeploymentNext, deploymentVars, Launch, Configure, TryLock, InspectMigrations, ApplyMigration,
     Unlock, ProvisionAppRole, AssertRestrictedRuntimeRole, Listen, Exit, Seal, LoseLock, AlterRole
<1>2. CASE UNCHANGED sealed
  BY <1>1, <1>2 DEF ServeInv, KeysOfEnvironment, Given
<1>3. ASSUME NEW p \in DOMAIN process,
             NEW k \in {"JWT_SECRET", "MFA_KEY", "STATEMENT_KEY", "BANK_KEY"}, Seal(p, k)
      PROVE  KeysOfEnvironment'
  <2>1. process[p].pc = "serving" /\ (k = "BANK_KEY" => Given("PLAID"))
    BY <1>3 DEF Seal, At
  <2>2. BuildConfig /\ Providers
    BY <2>1 DEF ServeInv, Configured
  <2>3. env.production => Given(k)
    BY <2>1, <2>2 DEF BuildConfig, ResolveKeys, Providers
  <2>4. env.production => Key(p, k) = <<"env", k>>
    BY <2>3 DEF Key
  <2>5. sealed' = sealed \cup {<<k, Key(p, k)>>}
    BY <1>3 DEF Seal
  <2> QED
    BY <1>1, <2>3, <2>4, <2>5 DEF ServeInv, KeysOfEnvironment, Given
<1> QED
  BY <1>2, <1>3 DEF DeploymentNext, deploymentVars, Launch, Configure, TryLock, InspectMigrations,
     ApplyMigration, Unlock, ProvisionAppRole, AssertRestrictedRuntimeRole, Listen, Exit, LoseLock, AlterRole

LEMMA ServeInductive == DeploymentSpec => [](IInv /\ ServeInv)
<1>1. DeploymentInit => ServeInv
  BY DEF DeploymentInit, ServeInv, Powered, KeysOfEnvironment
<1>2. ASSUME IInv, ServeInv, [DeploymentNext]_deploymentVars
      PROVE  ServeInv'
  <2>1. ASSUME NEW server \in BOOLEAN, NEW r \in Releases, Launch(server, r)
        PROVE  \A p \in DOMAIN process' : Configured(process[p])'
    <3>1. PICK q : q = [server |-> server, release |-> r, pending |-> {},
                        stores |-> [durable |-> FALSE, role |-> NoRole],
                        pc |-> IF server THEN "configure" ELSE "migrate"]
      OBVIOUS
    <3>2. process' = Append(process, q) /\ process \in Seq(Process) /\ env' = env /\ anyTable' = anyTable
      BY <1>2, <2>1, <3>1 DEF Launch, IInv, DeployedTypeOK
    <3>3. BuildConfig' = BuildConfig /\ Providers' = Providers /\ StoreProviders' = StoreProviders
      BY <3>2, SameConfig
    <3>4. Configured(q)
      BY <3>1 DEF Configured
    <3>5. ASSUME NEW p \in DOMAIN process'
          PROVE  Configured(process[p])'
      <4>1. process'[p] = q \/ (p \in DOMAIN process /\ process'[p] = process[p])
        BY <3>2
      <4>2. Configured(process'[p])
        BY <1>2, <3>4, <4>1 DEF ServeInv
      <4> QED
        BY <3>2, <3>3, <4>2 DEF Configured
    <3> QED
      BY <3>5
  <2>2. ASSUME UNCHANGED <<env, process>>, anyTable' = anyTable
        PROVE  \A p \in DOMAIN process' : Configured(process[p])'
    <3>1. BuildConfig' = BuildConfig /\ Providers' = Providers /\ StoreProviders' = StoreProviders
      BY <2>2, SameConfig
    <3> QED
      BY <1>2, <2>2, <3>1 DEF ServeInv, Configured
  <2>3. \A p \in DOMAIN process' : Configured(process[p])'
    <3>1. CASE UNCHANGED deploymentVars
      BY <2>2, <3>1 DEF deploymentVars
    <3>2. CASE LoseLock \/ \E role \in Roles, powers \in SUBSET Powers : AlterRole(role, powers)
      BY <2>2, <3>2 DEF LoseLock, AlterRole
    <3>3. ASSUME NEW p, NEW s, Seal(p, s)
          PROVE  \A o \in DOMAIN process' : Configured(process[o])'
      BY <2>2, <3>3 DEF Seal
    <3> QED
      BY <1>2, <2>1, <3>1, <3>2, <3>3, StepConfigured DEF DeploymentNext
  <2> QED
    BY <1>2, <2>3, StepPowered, StepTables, StepKeys DEF ServeInv
<1> QED
  BY <1>1, <1>2, Inductive, PTL DEF DeploymentSpec

\* configuration.ts, health: a production server in traffic keeps its data in PostgreSQL, as a role with
\* no power over the policies and no table, whatever was done to it since; and what any server has
\* encrypted or signed every other one can read, for any environments, roles, powers and processes.
THEOREM ServesAsDeployed == DeploymentSpec => []ServedAsDeployed
<1>1. ASSUME IInv, ServeInv
      PROVE  ServedAsDeployed
  <2> SUFFICES ASSUME NEW p \in DOMAIN process, env.production, Health(p)
               PROVE  /\ process[p].stores.durable
                      /\ power[process[p].stores.role] \subseteq Powers \ {"super", "bypass"}
                      /\ process[p].stores.role = Owner => schema = <<>>
                      /\ \A s \in sealed : s[2] = Key(p, s[1])
    BY DEF ServedAsDeployed
  <2>1. BuildConfig /\ process[p].stores = StoreProviders
    BY <1>1 DEF ServeInv, Configured, Health, At
  <2>2. ReadStoreDriver = "postgres" /\ env.app # NoRole
    BY <2>1 DEF BuildConfig, ResolveDatabase
  <2>3. process[p].stores.durable /\ process[p].stores.role = env.app
    BY <2>1, <2>2 DEF StoreProviders, GetAppPool
  <2>4. env.app \in Roles
    BY <1>1, <2>2, DeploymentAssumption DEF IInv, DeployedTypeOK
  <2>5. power[env.app] # {NoRole} /\ IsRestricted(env.app)
    BY <2>3 DEF Health
  <2>6. power[env.app] \in SUBSET Powers
    <3>1. power[env.app] \in (SUBSET Powers) \cup {{NoRole}}
      BY <1>1, <2>4 DEF ServeInv, Powered
    <3> QED
      BY <2>5, <3>1
  <2>7. power[env.app] \subseteq Powers \ {"super", "bypass"}
    BY <2>5, <2>6 DEF IsRestricted
  <2>8. env.app = Owner => schema = <<>>
    BY <1>1, <2>5 DEF IsRestricted, ServeInv
  <2>9. \A s \in sealed : s[2] = Key(p, s[1])
    BY <1>1 DEF ServeInv, KeysOfEnvironment, Key
  <2> QED
    BY <2>3, <2>7, <2>8, <2>9
<1>2. DeploymentSpec => [](IInv /\ ServeInv)
  BY ServeInductive
<1> QED
  BY <1>1, <1>2, PTL

-----------------------------------------------------------------------------
(* A group behind the two adapters *)

Decisions == {"pending", "accepted", "declined", "revoked", "left", "removed"}
Invitation == [id : Nat, invitee : People, status : Decisions]
GroupFields == {"active", "members", "invited", "entries"}

\* The two groups differ in the invitations of who has no account any more, and in nothing else; an
\* invitation has a number of its own.
GroupInv ==
    /\ people \subseteq People
    /\ DOMAIN kept = GroupFields /\ DOMAIN stored = GroupFields
    /\ same
    /\ kept.active = stored.active /\ kept.members = stored.members /\ kept.entries = stored.entries
    /\ kept.invited \subseteq Invitation /\ IsFiniteSet(kept.invited)
    /\ \A i \in kept.invited : i.id <= Cardinality(kept.invited)
    /\ \A i, j \in kept.invited : i.id = j.id => i = j
    /\ stored.invited = {i \in kept.invited : i.invitee \in people}

\* The balance of a member is made of the entries alone.
LEMMA NetOfEntries ==
  ASSUME NEW g, NEW h, NEW u, g.entries = h.entries
  PROVE  Net(g, u) = Net(h, u)
  BY DEF Net

\* One call of both adapters that treats the invitations alike and the rest the same.
LEMMA CallTurns ==
  ASSUME GroupInv, NEW f \in [kept.invited -> Invitation],
         \A i \in kept.invited : f[i].id = i.id /\ f[i].invitee = i.invitee,
         people' = people, same',
         DOMAIN kept' = GroupFields, DOMAIN stored' = GroupFields,
         kept.active' = stored.active', kept.members' = stored.members', kept.entries' = stored.entries',
         kept.invited' = {f[i] : i \in kept.invited}, stored.invited' = {f[i] : i \in stored.invited}
  PROVE  GroupInv'
<1>1. PICK I, P, K, L : I = kept.invited /\ P = people /\ K = {f[i] : i \in I}
      /\ L = {f[i] : i \in stored.invited}
  OBVIOUS
<1>2. /\ I \subseteq Invitation /\ IsFiniteSet(I) /\ f \in [I -> Invitation]
      /\ \A i \in I : f[i].id = i.id /\ f[i].invitee = i.invitee /\ i.id <= Cardinality(I)
      /\ \A i, j \in I : i.id = j.id => i = j
  BY <1>1 DEF GroupInv
<1>3. f \in Bijection(I, K)
  <2>1. f \in [I -> K]
    BY <1>1, <1>2
  <2>2. ASSUME NEW a \in I, NEW b \in I, f[a] = f[b]
        PROVE  a = b
    BY <1>2, <2>2
  <2>3. \A k \in K : \E a \in I : f[a] = k
    BY <1>1
  <2>4. f \in Injection(I, K)
    BY <2>1, <2>2 DEF Injection, IsInjective
  <2>5. f \in Surjection(I, K)
    BY <2>1, <2>3 DEF Surjection
  <2> QED
    BY <2>4, <2>5 DEF Bijection
<1>4. IsFiniteSet(K) /\ Cardinality(K) = Cardinality(I)
  BY <1>2, <1>3, FS_Bijection DEF ExistsBijection
<1>5. ASSUME NEW k \in K
      PROVE  k \in Invitation /\ k.id <= Cardinality(K)
  <2>1. PICK i \in I : k = f[i]
    BY <1>1
  <2>2. f[i] \in Invitation /\ f[i].id = i.id /\ i.id <= Cardinality(I)
    BY <1>2
  <2>3. k.id = i.id
    BY <2>1, <2>2
  <2> QED
    BY <1>4, <2>1, <2>2, <2>3
<1>6. \A i, j \in K : i.id = j.id => i = j
  BY <1>1, <1>2
<1>7. L = {k \in K : k.invitee \in P}
  BY <1>1, <1>2 DEF GroupInv
<1>8. kept.invited' = K /\ stored.invited' = L
  BY <1>1
<1>9. stored.invited' = {i \in kept.invited' : i.invitee \in people'}
  BY <1>1, <1>7, <1>8
<1>10. /\ kept.invited' \subseteq Invitation /\ IsFiniteSet(kept.invited')
       /\ \A i \in kept.invited' : i.id <= Cardinality(kept.invited')
       /\ \A i, j \in kept.invited' : i.id = j.id => i = j
  BY <1>4, <1>5, <1>6, <1>8
<1>11. people' \subseteq People
  BY DEF GroupInv
<1> QED
  BY <1>9, <1>10, <1>11 DEF GroupInv

\* A call that leaves the invitations alone.
LEMMA CallKeeps ==
  ASSUME GroupInv, people' = people, same',
         DOMAIN kept' = GroupFields, DOMAIN stored' = GroupFields,
         kept.active' = stored.active', kept.members' = stored.members', kept.entries' = stored.entries',
         kept.invited' = kept.invited, stored.invited' = stored.invited
  PROVE  GroupInv'
  BY DEF GroupInv

\* An invitation of someone with an account is pending with both or with neither.
LEMMA PendingAlike ==
  ASSUME GroupInv, NEW i \in kept.invited, i.invitee \in people
  PROVE  /\ IsPending(kept, i.id) <=> i.status = "pending"
         /\ IsPending(stored, i.id) <=> i.status = "pending"
<1>1. i \in stored.invited
  BY DEF GroupInv
<1>2. \A j \in kept.invited : j.id = i.id => j = i
  BY DEF GroupInv
<1>3. \A j \in stored.invited : j \in kept.invited
  BY DEF GroupInv
<1> QED
  BY <1>1, <1>2, <1>3 DEF IsPending

\* A decision of one invitation.
LEMMA StepDecides ==
  ASSUME GroupInv, NEW id, NEW status \in Decisions, people' = people, same',
         DOMAIN kept' = GroupFields, DOMAIN stored' = GroupFields,
         kept.active' = stored.active', kept.members' = stored.members', kept.entries' = stored.entries',
         kept.invited' = Decides(kept, id, status).invited,
         stored.invited' = Decides(stored, id, status).invited
  PROVE  GroupInv'
<1> DEFINE f == [i \in kept.invited |-> IF i.id = id THEN [i EXCEPT !.status = status] ELSE i]
<1>1. f \in [kept.invited -> Invitation] /\ \A i \in kept.invited : f[i].id = i.id /\ f[i].invitee = i.invitee
  BY DEF GroupInv, Invitation
<1>2. stored.invited \subseteq kept.invited
  BY DEF GroupInv
<1>3. kept.invited' = {f[i] : i \in kept.invited}
  <2>1. kept.invited' = {IF i.id = id THEN [i EXCEPT !.status = status] ELSE i : i \in kept.invited}
    BY DEF GroupInv, GroupFields, Decides
  <2> QED
    BY <2>1
<1>4. stored.invited' = {f[i] : i \in stored.invited}
  <2>1. stored.invited' = {IF i.id = id THEN [i EXCEPT !.status = status] ELSE i : i \in stored.invited}
    BY DEF GroupInv, GroupFields, Decides
  <2> QED
    BY <1>2, <2>1
<1> HIDE DEF f
<1> QED
  BY <1>1, <1>3, <1>4, CallTurns

\* Nobody is invited twice, and the new invitation has a new number.
LEMMA StepInvite ==
  ASSUME GroupInv, NEW u, NEW invitee, CreateInvitation(u, invitee)
  PROVE  GroupInv'
<1> DEFINE i == [id |-> Cardinality(kept.invited) + 1, invitee |-> invitee, status |-> "pending"]
<1>1. i \in Invitation /\ i.invitee \in people /\ i.id = Cardinality(kept.invited) + 1
      /\ Cardinality(kept.invited) \in Nat
  <2>1. Cardinality(kept.invited) \in Nat
    BY FS_CardinalityType DEF GroupInv
  <2>2. i.id \in Nat /\ i.id = Cardinality(kept.invited) + 1 /\ i.invitee = invitee /\ i.status \in Decisions
    BY <2>1 DEF Decisions
  <2>3. invitee \in people /\ invitee \in People
    BY DEF CreateInvitation, GroupInv
  <2>4. i \in Invitation
    BY <2>2, <2>3 DEF Invitation
  <2> QED
    BY <2>1, <2>2, <2>3, <2>4
<1>2. Waiting(kept, invitee) = Waiting(stored, invitee)
  BY DEF GroupInv, Waiting, CreateInvitation
<1>3. MayInvite(kept, u, invitee) <=> MayInvite(stored, u, invitee)
  BY <1>2 DEF MayInvite, GroupInv
<1>4. /\ kept' = MemInvite(kept, u, i) /\ stored' = PgInvite(stored, u, i)
      /\ people' = people /\ same'
  BY <1>2 DEF CreateInvitation, GroupCall
<1>5. i.invitee = invitee
  OBVIOUS
<1> HIDE DEF i
<1>6. CASE kept.active /\ MayInvite(kept, u, invitee)
  <2>1. kept' = [kept EXCEPT !.invited = @ \cup {i}] /\ stored' = [stored EXCEPT !.invited = @ \cup {i}]
    BY <1>3, <1>4, <1>5, <1>6 DEF MemInvite, PgInvite, GroupInv
  <2>2. kept.invited' = kept.invited \cup {i} /\ stored.invited' = stored.invited \cup {i}
    BY <2>1 DEF GroupInv, GroupFields
  <2>3. /\ DOMAIN kept' = GroupFields /\ DOMAIN stored' = GroupFields
        /\ kept.active' = stored.active' /\ kept.members' = stored.members' /\ kept.entries' = stored.entries'
    BY <2>1 DEF GroupInv, GroupFields
  <2>4. \A j \in kept.invited : j \in Invitation /\ j.id \in Nat /\ j.id <= Cardinality(kept.invited)
    BY DEF GroupInv, Invitation
  <2>5. i \notin kept.invited /\ \A j \in kept.invited : j.id # i.id
    BY <1>1, <2>4
  <2>6. IsFiniteSet(kept.invited') /\ Cardinality(kept.invited') = Cardinality(kept.invited) + 1
    BY <2>2, <2>5, FS_AddElement DEF GroupInv
  <2>7. \A j \in kept.invited' : j.id <= Cardinality(kept.invited')
    BY <1>1, <2>2, <2>4, <2>6
  <2>8. \A j, k \in kept.invited' : j.id = k.id => j = k
    BY <2>2, <2>5 DEF GroupInv
  <2>9. stored.invited' = {j \in kept.invited' : j.invitee \in people}
    BY <1>1, <2>2 DEF GroupInv
  <2> QED
    BY <1>1, <1>4, <2>2, <2>3, <2>4, <2>6, <2>7, <2>8, <2>9 DEF GroupInv
<1>7. CASE ~ (kept.active /\ MayInvite(kept, u, invitee))
  <2>1. kept' = kept /\ stored' = stored
    BY <1>3, <1>4, <1>5, <1>7 DEF MemInvite, PgInvite, GroupInv
  <2> QED
    BY <1>4, <2>1, CallKeeps DEF GroupInv
<1> QED
  BY <1>6, <1>7

\* Accepted, declined or revoked: with both adapters or with neither.
LEMMA StepDecided ==
  ASSUME GroupInv, NEW i \in kept.invited,
         AcceptInvitation(i) \/ DeclineInvitation(i) \/ RevokeInvitation(Opener, i)
  PROVE  GroupInv'
<1>1. i.invitee \in people
  BY DEF AcceptInvitation, DeclineInvitation, RevokeInvitation
<1>2. IsPending(kept, i.id) = IsPending(stored, i.id)
  BY <1>1, PendingAlike DEF IsPending
<1>3. people' = people /\ same'
  BY <1>2 DEF AcceptInvitation, DeclineInvitation, RevokeInvitation, GroupCall
<1>4. CASE kept' = kept /\ stored' = stored
  BY <1>3, <1>4, CallKeeps DEF GroupInv
<1>5. ASSUME NEW status \in Decisions,
             kept' = Decides(kept, i.id, status), stored' = Decides(stored, i.id, status)
      PROVE  GroupInv'
  <2>1. /\ DOMAIN kept' = GroupFields /\ DOMAIN stored' = GroupFields
        /\ kept.active' = stored.active' /\ kept.members' = stored.members' /\ kept.entries' = stored.entries'
        /\ kept.invited' = Decides(kept, i.id, status).invited
        /\ stored.invited' = Decides(stored, i.id, status).invited
    BY <1>5 DEF GroupInv, GroupFields, Decides
  <2> QED
    BY <1>3, <2>1, StepDecides
<1>6. CASE AcceptInvitation(i)
  <2>1. CASE IsPending(kept, i.id)
    <3>1. /\ kept' = [Decides(kept, i.id, "accepted") EXCEPT !.members = @ \cup {i.invitee}]
          /\ stored' = [Decides(stored, i.id, "accepted") EXCEPT !.members = @ \cup {i.invitee}]
      BY <1>2, <1>6, <2>1 DEF AcceptInvitation, GroupCall, MemAccepts, PgAccepts, GroupInv
    <3>2. /\ DOMAIN kept' = GroupFields /\ DOMAIN stored' = GroupFields
          /\ kept.active' = stored.active' /\ kept.members' = stored.members'
          /\ kept.entries' = stored.entries'
          /\ kept.invited' = Decides(kept, i.id, "accepted").invited
          /\ stored.invited' = Decides(stored, i.id, "accepted").invited
      BY <3>1 DEF GroupInv, GroupFields, Decides
    <3> QED
      BY <1>3, <3>2, StepDecides DEF Decisions
  <2>2. CASE ~IsPending(kept, i.id)
    BY <1>2, <1>4, <1>6, <2>2 DEF AcceptInvitation, GroupCall, MemAccepts, PgAccepts
  <2> QED
    BY <2>1, <2>2
<1>7. CASE DeclineInvitation(i)
  <2>1. \/ kept' = kept /\ stored' = stored
        \/ kept' = Decides(kept, i.id, "declined") /\ stored' = Decides(stored, i.id, "declined")
    BY <1>2, <1>7 DEF DeclineInvitation, GroupCall, MemDeclines, PgDeclines
  <2>2. "declined" \in Decisions
    BY DEF Decisions
  <2> QED
    BY <1>4, <1>5, <2>1, <2>2
<1>8. CASE RevokeInvitation(Opener, i)
  <2>1. \/ kept' = kept /\ stored' = stored
        \/ kept' = Decides(kept, i.id, "revoked") /\ stored' = Decides(stored, i.id, "revoked")
    BY <1>2, <1>8 DEF RevokeInvitation, GroupCall, MemRevokes, PgRevokes, GroupInv
  <2>2. "revoked" \in Decisions
    BY DEF Decisions
  <2> QED
    BY <1>4, <1>5, <2>1, <2>2
<1> QED
  BY <1>6, <1>7, <1>8

\* An expense or a settlement.
LEMMA StepEntry ==
  ASSUME GroupInv, NEW u, NEW kind, NEW S, AddEntry(u, kind, S)
  PROVE  GroupInv'
<1> DEFINE e == [id |-> Cardinality(kept.entries) + 1, kind |-> kind, from |-> u, amount |-> Cardinality(S),
                  to |-> [w \in S |-> 1]]
<1>1. e.from = u /\ DOMAIN e.to = S
  OBVIOUS
<1>2. /\ kept' = MemPosts(kept, e) /\ stored' = PgPosts(stored, e) /\ people' = people /\ same'
      /\ ActiveMember(u) /\ \A w \in S : OfBoth(w)
  BY DEF AddEntry, GroupCall
<1> HIDE DEF e
<1>3. kept' = [kept EXCEPT !.entries = @ \cup {e}] /\ stored' = [stored EXCEPT !.entries = @ \cup {e}]
  BY <1>1, <1>2 DEF MemPosts, PgPosts, ActiveMember, OfBoth
<1>4. /\ DOMAIN kept' = GroupFields /\ DOMAIN stored' = GroupFields
      /\ kept.active' = stored.active' /\ kept.members' = stored.members' /\ kept.entries' = stored.entries'
      /\ kept.invited' = kept.invited /\ stored.invited' = stored.invited
  BY <1>3 DEF GroupInv, GroupFields
<1> QED
  BY <1>2, <1>4, CallKeeps

\* Both let the same people go, and refuse the others for the same reason.
LEMMA StepDepart ==
  ASSUME GroupInv, NEW u, NEW target, RemoveMember(u, target)
  PROVE  GroupInv'
<1>1. Net(kept, target) = Net(stored, target)
  BY NetOfEntries DEF GroupInv
<1>2. u \in kept.members /\ kept.active /\ stored.active /\ kept.members = stored.members
  BY DEF RemoveMember, ActiveMember, OfBoth, GroupInv
<1>3. MemRefusal(kept, u, target) = PgRefusal(stored, u, target)
  BY <1>1, <1>2 DEF MemRefusal, PgRefusal
<1>4. people' = people /\ same'
  BY <1>3 DEF RemoveMember, GroupCall
<1>5. CASE kept' = kept /\ stored' = stored
  BY <1>4, <1>5, CallKeeps DEF GroupInv
<1>6. CASE kept' = Departs(kept, u, target) /\ stored' = Departs(stored, u, target)
  <2> DEFINE f == [i \in kept.invited |-> IF i.invitee = target /\ i.status = "accepted"
                                          THEN [i EXCEPT !.status = IF u = target THEN "left" ELSE "removed"]
                                          ELSE i]
  <2>1. f \in [kept.invited -> Invitation]
        /\ \A i \in kept.invited : f[i].id = i.id /\ f[i].invitee = i.invitee
    <3>1. ASSUME NEW i \in kept.invited
          PROVE  f[i] \in Invitation /\ f[i].id = i.id /\ f[i].invitee = i.invitee
      <4>1. i \in Invitation
        BY DEF GroupInv
      <4>2. ASSUME NEW way \in Decisions
            PROVE  LET j == [i EXCEPT !.status = way] IN
                   j \in Invitation /\ j.id = i.id /\ j.invitee = i.invitee
        BY <4>1 DEF Invitation
      <4>3. f[i] = i \/ f[i] = [i EXCEPT !.status = "left"] \/ f[i] = [i EXCEPT !.status = "removed"]
        OBVIOUS
      <4> QED
        BY <4>1, <4>2, <4>3 DEF Decisions
    <3> QED
      BY <3>1
  <2>2. stored.invited \subseteq kept.invited
    BY DEF GroupInv
  <2>3. kept.invited' = {f[i] : i \in kept.invited}
    <3>1. kept.invited' = {IF i.invitee = target /\ i.status = "accepted"
                           THEN [i EXCEPT !.status = IF u = target THEN "left" ELSE "removed"] ELSE i :
                              i \in kept.invited}
      BY <1>6 DEF GroupInv, GroupFields, Departs
    <3> QED
      BY <3>1
  <2>4. stored.invited' = {f[i] : i \in stored.invited}
    <3>1. stored.invited' = {IF i.invitee = target /\ i.status = "accepted"
                             THEN [i EXCEPT !.status = IF u = target THEN "left" ELSE "removed"] ELSE i :
                                i \in stored.invited}
      BY <1>6 DEF GroupInv, GroupFields, Departs
    <3> QED
      BY <2>2, <3>1
  <2>5. /\ DOMAIN kept' = GroupFields /\ DOMAIN stored' = GroupFields
        /\ kept.active' = stored.active' /\ kept.members' = stored.members' /\ kept.entries' = stored.entries'
    BY <1>6 DEF GroupInv, GroupFields, Departs
  <2> HIDE DEF f
  <2> QED
    BY <1>4, <2>1, <2>3, <2>4, <2>5, CallTurns
<1> QED
  BY <1>3, <1>5, <1>6 DEF RemoveMember, GroupCall

\* By a member of both.
LEMMA StepArchive ==
  ASSUME GroupInv, NEW u, ArchiveGroup(u)
  PROVE  GroupInv'
<1>1. kept' = [kept EXCEPT !.active = FALSE] /\ stored' = [stored EXCEPT !.active = FALSE]
      /\ people' = people /\ same'
  BY DEF ArchiveGroup, ActiveMember, OfBoth, MemArchives, PgArchives, GroupCall, GroupInv
<1>2. /\ DOMAIN kept' = GroupFields /\ DOMAIN stored' = GroupFields
      /\ kept.active' = stored.active' /\ kept.members' = stored.members' /\ kept.entries' = stored.entries'
      /\ kept.invited' = kept.invited /\ stored.invited' = stored.invited
  BY <1>1 DEF GroupInv, GroupFields
<1> QED
  BY <1>1, <1>2, CallKeeps

\* The invitations of who is gone are left in memory only, where nobody sees them.
LEMMA StepDeleteAccount ==
  ASSUME GroupInv, NEW u, DeleteAccount(u)
  PROVE  GroupInv'
<1>1. kept' = Purged(kept, u) /\ stored' = [Purged(stored, u) EXCEPT !.invited = {i \in @ : i.invitee # u}]
      /\ people' = people \ {u} /\ same'
  BY DEF DeleteAccount, MemPurge, PgPurge
<1>2. /\ DOMAIN kept' = GroupFields /\ DOMAIN stored' = GroupFields
      /\ kept.active' = stored.active' /\ kept.members' = stored.members'
      /\ kept.invited' = kept.invited /\ stored.invited' = {i \in stored.invited : i.invitee # u}
  BY <1>1 DEF GroupInv, GroupFields, Purged
<1>3. kept.entries' = stored.entries'
  <2>1. kept.entries' = {Without(e, u) : e \in {x \in kept.entries : Kept(x, u)}}
    BY <1>1 DEF GroupInv, GroupFields, Purged
  <2>2. stored.entries' = {Without(e, u) : e \in {x \in stored.entries : Kept(x, u)}}
    BY <1>1 DEF GroupInv, GroupFields, Purged
  <2> QED
    BY <2>1, <2>2 DEF GroupInv
<1>4. stored.invited' = {i \in kept.invited' : i.invitee \in people'}
  BY <1>1, <1>2 DEF GroupInv
<1>5. people' \subseteq People
  BY <1>1 DEF GroupInv
<1>6. /\ kept.invited' \subseteq Invitation /\ IsFiniteSet(kept.invited')
      /\ \A i \in kept.invited' : i.id <= Cardinality(kept.invited')
      /\ \A i, j \in kept.invited' : i.id = j.id => i = j
  BY <1>2 DEF GroupInv
<1> QED
  BY <1>1, <1>2, <1>3, <1>4, <1>5, <1>6 DEF GroupInv

\* split-stores: through every order of the calls, the deletion of accounts among them, the group has the
\* same members, balances and invitations with both adapters, and every call is answered alike.
THEOREM GroupsAreTheSame == SplitStoresSpec => []SameGroup
<1>1. SplitStoresInit => GroupInv
  <2> SUFFICES ASSUME SplitStoresInit
               PROVE  GroupInv
    OBVIOUS
  <2>1. /\ DOMAIN kept = GroupFields /\ DOMAIN stored = GroupFields /\ kept = stored
        /\ kept.invited = {} /\ people = People /\ same
    BY DEF SplitStoresInit, Opened, GroupFields
  <2>2. IsFiniteSet(kept.invited)
    BY <2>1, FS_EmptySet
  <2> QED
    BY <2>1, <2>2 DEF GroupInv
<1>2. ASSUME GroupInv, [SplitStoresNext]_splitStoresVars
      PROVE  GroupInv'
  <2>1. CASE UNCHANGED splitStoresVars
    BY <1>2, <2>1 DEF splitStoresVars, GroupInv
  <2> QED
    BY <1>2, <2>1, StepInvite, StepDecided, StepEntry, StepDepart, StepArchive, StepDeleteAccount
       DEF SplitStoresNext
<1>3. GroupInv => SameGroup
  <2> SUFFICES ASSUME GroupInv
               PROVE  SameGroup
    OBVIOUS
  <2>1. \A u : Net(kept, u) = Net(stored, u)
    BY NetOfEntries DEF GroupInv
  <2> QED
    BY <2>1 DEF GroupInv, SameGroup
<1> QED
  BY <1>1, <1>2, <1>3, PTL DEF SplitStoresSpec

-----------------------------------------------------------------------------
(* A ledger behind the two adapters *)

RowFields == {"seen", "merchant", "slug", "source", "note", "tags", "recurring", "override", "file"}
IsRow(row) == DOMAIN row = RowFields

\* What both adapters promise of a row, field by field.
AsPromised(r, q) ==
    r.seen = q.seen /\ r.slug = q.slug /\ r.source = q.source /\ r.tags = q.tags /\ r.override = q.override

\* What an adapter holds has this form, and only the provider's rows are matched by a rule.
IsLedger(db) ==
    /\ DOMAIN db = {"row", "file", "applied", "before"}
    /\ DOMAIN db.row = Keys /\ DOMAIN db.file = Files /\ DOMAIN db.applied = Applications
    /\ DOMAIN db.before = Applications
    /\ \A k \in Keys : db.row[k] = NoRow \/ IsRow(db.row[k])
    /\ \A a \in Applications :
          DOMAIN db.before[a] \subseteq Sent
          /\ \A k \in DOMAIN db.before[a] : "file" \notin DOMAIN db.before[a][k]

AreRows(rows) == \A k \in Keys : rows[k] = NoRow \/ IsRow(rows[k])

\* The same rows of the provider, the same of each of them that has not strayed; those of a file only in
\* memory, and no row of the provider from one.
RowsParallel(mr, pr, lost) ==
    /\ \A k \in Sent : mr[k] = NoRow <=> pr[k] = NoRow
    /\ \A k \in Sent \ lost : mr[k] # NoRow => AsPromised(mr[k], pr[k])
    /\ \A k \in Filed : pr[k] = NoRow
    /\ \A k \in Sent : mr[k] # NoRow => mr[k].file = NoFile

\* And the same changes of them to take back.
Parallel(m, p, lost) ==
    /\ RowsParallel(m.row, p.row, lost)
    /\ \A f \in Files : p.file[f] = NoFile
    /\ m.applied = p.applied
    /\ \A a \in Applications, k \in Sent \ lost :
          /\ k \in DOMAIN m.before[a] <=> k \in DOMAIN p.before[a]
          /\ k \in DOMAIN m.before[a] => m.before[a][k] = p.before[a][k]

LedgersInv == IsLedger(mem) /\ IsLedger(pg) /\ Parallel(mem, pg, strayed) /\ agreed

\* No row is a row of nothing.
LEMMA RowIsSomething ==
  ASSUME NEW r, IsRow(r)
  PROVE  r # NoRow
<1>1. "slug" \in DOMAIN r /\ "slug" \notin DOMAIN NoRow
  BY DEF IsRow, RowFields, NoRow
<1> QED
  BY <1>1

LEMMA IncomingIsRow ==
  ASSUME NEW v, NEW file
  PROVE  IsRow(Incoming(v, file)) /\ Incoming(v, file).file = file
  BY DEF IsRow, RowFields, Incoming

\* A row that is sent again keeps its form, and what is promised of it.
LEMMA MergedAsPromised ==
  ASSUME NEW old, NEW other, NEW new, IsRow(old), IsRow(other), IsRow(new)
  PROVE  /\ IsRow(MemMerge(old, new)) /\ MemMerge(old, new).file = new.file
         /\ IsRow(PgMerge(other, new))
         /\ AsPromised(old, other) => AsPromised(MemMerge(old, new), PgMerge(other, new))
<1>1. ASSUME NEW r, r = MemMergeSent(old, new)
      PROVE  /\ IsRow(r) /\ r.seen = new.seen /\ r.slug = new.slug /\ r.source = new.source /\ r.file = new.file
             /\ r.tags = old.tags /\ r.override = old.override
  BY <1>1 DEF MemMergeSent, IsRow, RowFields
<1>2. PICK r : r = MemMergeSent(old, new)
  OBVIOUS
<1>3. /\ IsRow(r) /\ r.seen = new.seen /\ r.slug = new.slug /\ r.source = new.source /\ r.file = new.file
      /\ r.tags = old.tags /\ r.override = old.override
  BY <1>1, <1>2
<1>4. CASE ByUser(old)
  <2>1. MemMerge(old, new) = [r EXCEPT !.note = old.note, !.slug = old.slug, !.source = old.source]
    BY <1>2, <1>4 DEF MemMerge
  <2>2. PICK m : m = MemMerge(old, new)
    OBVIOUS
  <2>3. /\ IsRow(m) /\ m.file = new.file /\ m.seen = new.seen /\ m.slug = old.slug /\ m.source = old.source
        /\ m.tags = old.tags /\ m.override = old.override
    BY <1>3, <2>1, <2>2 DEF IsRow, RowFields
  <2>4. IsRow(PgMerge(other, new))
    BY DEF PgMerge, IsRow, RowFields
  <2>5. ASSUME AsPromised(old, other)
        PROVE  AsPromised(m, PgMerge(other, new))
    <3>1. PgMerge(other, new) = [other EXCEPT !.seen = new.seen]
      BY <1>4, <2>5 DEF PgMerge, ByUser, AsPromised
    <3> QED
      BY <2>3, <2>5, <3>1 DEF AsPromised, IsRow, RowFields
  <2> QED
    BY <2>2, <2>3, <2>4, <2>5
<1>5. CASE ~ByUser(old)
  <2>1. MemMerge(old, new) = r
    BY <1>2, <1>5 DEF MemMerge
  <2>2. IsRow(PgMerge(other, new))
    BY DEF PgMerge, IsRow, RowFields
  <2>3. ASSUME AsPromised(old, other)
        PROVE  AsPromised(r, PgMerge(other, new))
    <3>1. PgMerge(other, new) = [other EXCEPT !.seen = new.seen, !.merchant = new.merchant,
                                         !.slug = new.slug, !.source = new.source]
      BY <1>5, <2>3 DEF PgMerge, ByUser, AsPromised
    <3> QED
      BY <1>3, <2>3, <3>1 DEF AsPromised, IsRow, RowFields
  <2> QED
    BY <1>3, <2>1, <2>2, <2>3
<1> QED
  BY <1>4, <1>5

\* So does one that is changed in some fields, if the file it came with is none of them.
LEMMA ChangedAsPromised ==
  ASSUME NEW r, NEW q, NEW c, IsRow(r), IsRow(q)
  PROVE  /\ IsRow(With(r, c)) /\ IsRow(With(q, c))
         /\ "file" \notin DOMAIN c => With(r, c).file = r.file
         /\ AsPromised(r, q) => AsPromised(With(r, c), With(q, c))
  BY DEF With, IsRow, RowFields, AsPromised

\* The fields of a ledger of which only the rows change.
LEMMA RowsOnly ==
  ASSUME NEW db, IsLedger(db), NEW rows, NEW d, d = [db EXCEPT !.row = rows], DOMAIN rows = Keys, AreRows(rows)
  PROVE  IsLedger(d) /\ d.row = rows /\ d.file = db.file /\ d.applied = db.applied /\ d.before = db.before
  BY DEF IsLedger, AreRows

\* Ledgers that differ from parallel ones in their rows only are parallel if their rows are.
LEMMA RowsOnlyParallel ==
  ASSUME NEW m, NEW p, NEW lost, Parallel(m, p, lost), NEW m1, NEW p1,
         m1.applied = m.applied, m1.before = m.before,
         p1.file = p.file, p1.applied = p.applied, p1.before = p.before, RowsParallel(m1.row, p1.row, lost)
  PROVE  Parallel(m1, p1, lost)
  BY DEF Parallel

\* A page of the provider.
LEMMA PageKeeps ==
  ASSUME NEW m, NEW p, NEW lost, IsLedger(m), IsLedger(p), Parallel(m, p, lost), NEW S \in SUBSET Sent, NEW v,
         NEW m1, m1 = MemUpsert(m, S, Incoming(v, NoFile)), NEW p1, p1 = PgUpsert(p, S, Incoming(v, NoFile))
  PROVE  IsLedger(m1) /\ IsLedger(p1) /\ Parallel(m1, p1, lost)
<1>1. PICK new : new = Incoming(v, NoFile)
  OBVIOUS
<1>2. IsRow(new) /\ new.file = NoFile
  BY <1>1, IncomingIsRow
<1>3. PICK mr : mr = [k \in Keys |-> IF k \notin S THEN m.row[k]
                                     ELSE IF m.row[k] = NoRow THEN new ELSE MemMerge(m.row[k], new)]
  OBVIOUS
<1>4. PICK pr : pr = [k \in Keys |-> IF k \notin S THEN p.row[k]
                                     ELSE IF p.row[k] = NoRow THEN new ELSE PgMerge(p.row[k], new)]
  OBVIOUS
<1>5. m1 = [m EXCEPT !.row = mr] /\ p1 = [p EXCEPT !.row = pr]
  BY <1>1, <1>3, <1>4 DEF MemUpsert, PgUpsert, IsLedger
<1>6. ASSUME NEW k \in Keys
      PROVE  /\ mr[k] = NoRow \/ IsRow(mr[k])
             /\ pr[k] = NoRow \/ IsRow(pr[k])
             /\ k \in S => IsRow(mr[k]) /\ IsRow(pr[k]) /\ mr[k].file = NoFile
             /\ k \notin S => mr[k] = m.row[k] /\ pr[k] = p.row[k]
             /\ k \in S \ lost => AsPromised(mr[k], pr[k])
  <2>1. (m.row[k] = NoRow \/ IsRow(m.row[k])) /\ (p.row[k] = NoRow \/ IsRow(p.row[k]))
    BY DEF IsLedger
  <2>2. CASE k \notin S
    BY <1>3, <1>4, <2>1, <2>2
  <2>3. CASE k \in S
    <3>1. m.row[k] = NoRow <=> p.row[k] = NoRow
      BY <2>3 DEF Parallel, RowsParallel
    <3>2. CASE m.row[k] = NoRow
      <4>1. mr[k] = new /\ pr[k] = new
        BY <1>3, <1>4, <2>3, <3>1, <3>2
      <4> QED
        BY <1>2, <2>3, <4>1 DEF AsPromised
    <3>3. CASE m.row[k] # NoRow
      <4>1. mr[k] = MemMerge(m.row[k], new) /\ pr[k] = PgMerge(p.row[k], new)
        BY <1>3, <1>4, <2>3, <3>1, <3>3
      <4>2. k \notin lost => AsPromised(m.row[k], p.row[k])
        BY <2>3, <3>3 DEF Parallel, RowsParallel
      <4> QED
        BY <1>2, <2>1, <2>3, <3>1, <3>3, <4>1, <4>2, MergedAsPromised
    <3> QED
      BY <3>2, <3>3
  <2> QED
    BY <2>2, <2>3
<1>7. /\ IsLedger(m1) /\ m1.row = mr /\ m1.file = m.file /\ m1.applied = m.applied /\ m1.before = m.before
      /\ IsLedger(p1) /\ p1.row = pr /\ p1.file = p.file /\ p1.applied = p.applied /\ p1.before = p.before
  <2>1. DOMAIN mr = Keys /\ DOMAIN pr = Keys
    BY <1>3, <1>4
  <2>2. AreRows(mr) /\ AreRows(pr)
    BY <1>6 DEF AreRows
  <2>3. IsLedger(m1) /\ m1.row = mr /\ m1.file = m.file /\ m1.applied = m.applied /\ m1.before = m.before
    BY <1>5, <2>1, <2>2, RowsOnly, SMTT(60)
  <2>4. IsLedger(p1) /\ p1.row = pr /\ p1.file = p.file /\ p1.applied = p.applied /\ p1.before = p.before
    BY <1>5, <2>1, <2>2, RowsOnly, SMTT(60)
  <2> QED
    BY <2>3, <2>4
<1>8. \A k \in Filed : k \in Keys /\ k \notin S
  BY TransactionStoresAssumption DEF Keys
<1>9. Sent \subseteq Keys
  BY DEF Keys
<1>10. \A k \in S : mr[k] # NoRow /\ pr[k] # NoRow
  BY <1>6, <1>9, RowIsSomething
<1>11. \A k \in Sent : mr[k] = NoRow <=> pr[k] = NoRow
  BY <1>6, <1>9, <1>10 DEF Parallel, RowsParallel
<1>12. \A k \in Sent \ lost : mr[k] # NoRow => AsPromised(mr[k], pr[k])
  BY <1>6, <1>9 DEF Parallel, RowsParallel
<1>13. \A k \in Filed : pr[k] = NoRow
  BY <1>6, <1>8 DEF Parallel, RowsParallel
<1>14. \A k \in Sent : mr[k] # NoRow => mr[k].file = NoFile
  BY <1>6, <1>9 DEF Parallel, RowsParallel
<1>15. RowsParallel(mr, pr, lost)
  BY <1>11, <1>12, <1>13, <1>14 DEF RowsParallel
<1>16. Parallel(m1, p1, lost)
  BY <1>7, <1>15, RowsOnlyParallel
<1> QED
  BY <1>7, <1>16

\* A change of a row.
Changed(db, k, c) == [db EXCEPT !.row[k] = With(@, c)]

LEMMA ChangedRows ==
  ASSUME NEW db, IsLedger(db), NEW k, NEW c
  PROVE  Changed(db, k, c) = [db EXCEPT !.row = [db.row EXCEPT ![k] = With(@, c)]]
  BY DEF Changed, IsLedger

LEMMA ChangeKeeps ==
  ASSUME NEW m, NEW p, NEW lost, IsLedger(m), IsLedger(p), Parallel(m, p, lost), NEW k \in Sent, NEW c,
         "file" \notin DOMAIN c, m.row[k] # NoRow,
         NEW m1, m1 = Changed(m, k, c), NEW p1, p1 = Changed(p, k, c)
  PROVE  IsLedger(m1) /\ IsLedger(p1) /\ Parallel(m1, p1, lost)
<1>1. PICK mr, pr : mr = [m.row EXCEPT ![k] = With(@, c)] /\ pr = [p.row EXCEPT ![k] = With(@, c)]
  OBVIOUS
<1>2. k \in Keys /\ DOMAIN m.row = Keys /\ DOMAIN p.row = Keys /\ p.row[k] # NoRow
  BY DEF Keys, IsLedger, Parallel, RowsParallel
<1>3. m1 = [m EXCEPT !.row = mr] /\ p1 = [p EXCEPT !.row = pr]
  BY <1>1, ChangedRows
<1>4. IsRow(m.row[k]) /\ IsRow(p.row[k])
  BY <1>2 DEF IsLedger
<1>5. mr[k] = With(m.row[k], c) /\ pr[k] = With(p.row[k], c)
  BY <1>1, <1>2
<1>6. /\ IsRow(mr[k]) /\ IsRow(pr[k]) /\ mr[k].file = m.row[k].file
      /\ AsPromised(m.row[k], p.row[k]) => AsPromised(mr[k], pr[k])
  BY <1>4, <1>5, ChangedAsPromised
<1>7. \A j \in Keys : j # k => mr[j] = m.row[j] /\ pr[j] = p.row[j]
  BY <1>1, <1>2
<1>8. /\ IsLedger(m1) /\ m1.row = mr /\ m1.file = m.file /\ m1.applied = m.applied /\ m1.before = m.before
      /\ IsLedger(p1) /\ p1.row = pr /\ p1.file = p.file /\ p1.applied = p.applied /\ p1.before = p.before
  <2>1. DOMAIN mr = Keys /\ DOMAIN pr = Keys
    BY <1>1, <1>2
  <2>2. AreRows(mr) /\ AreRows(pr)
    BY <1>6, <1>7 DEF IsLedger, AreRows
  <2>3. IsLedger(m1) /\ m1.row = mr /\ m1.file = m.file /\ m1.applied = m.applied /\ m1.before = m.before
    BY <1>3, <2>1, <2>2, RowsOnly, SMTT(60)
  <2>4. IsLedger(p1) /\ p1.row = pr /\ p1.file = p.file /\ p1.applied = p.applied /\ p1.before = p.before
    BY <1>3, <2>1, <2>2, RowsOnly, SMTT(60)
  <2> QED
    BY <2>3, <2>4
<1>9. mr[k] # NoRow /\ pr[k] # NoRow
  BY <1>6, RowIsSomething
<1>10. k \notin Filed /\ Sent \subseteq Keys /\ Filed \subseteq Keys
  BY TransactionStoresAssumption DEF Keys
<1>11. \A j \in Sent : mr[j] = NoRow <=> pr[j] = NoRow
  BY <1>7, <1>9, <1>10 DEF Parallel, RowsParallel
<1>12. \A j \in Sent \ lost : mr[j] # NoRow => AsPromised(mr[j], pr[j])
  BY <1>2, <1>6, <1>7, <1>10 DEF Parallel, RowsParallel
<1>13. \A j \in Filed : pr[j] = NoRow
  BY <1>7, <1>10 DEF Parallel, RowsParallel
<1>14. \A j \in Sent : mr[j] # NoRow => mr[j].file = NoFile
  BY <1>6, <1>7, <1>10 DEF Parallel, RowsParallel
<1>15. RowsParallel(mr, pr, lost)
  BY <1>11, <1>12, <1>13, <1>14 DEF RowsParallel
<1>16. Parallel(m1, p1, lost)
  BY <1>8, <1>15, RowsOnlyParallel
<1> QED
  BY <1>8, <1>16

\* The provider takes rows back: what a rule has changed of them strays.
LEMMA RemovalKeeps ==
  ASSUME NEW m, NEW p, NEW lost, IsLedger(m), IsLedger(p), Parallel(m, p, lost), NEW S \in SUBSET Sent,
         NEW m1, m1 = MemDrop(m, S), NEW p1, p1 = PgDrop(p, S),
         NEW gone, gone = lost \cup {k \in S : \E a \in Applications : k \in DOMAIN m.before[a]}
  PROVE  IsLedger(m1) /\ IsLedger(p1) /\ Parallel(m1, p1, gone)
<1>1. PICK mr, pr, b : /\ mr = [k \in Keys |-> IF k \in S THEN NoRow ELSE m.row[k]]
                       /\ pr = [k \in Keys |-> IF k \in S THEN NoRow ELSE p.row[k]]
                       /\ b = [a \in Applications |-> [k \in (DOMAIN p.before[a]) \ S |-> p.before[a][k]]]
  OBVIOUS
<1>2. m1 = [m EXCEPT !.row = mr] /\ p1 = [p EXCEPT !.row = pr, !.before = b]
  BY <1>1 DEF MemDrop, PgDrop, IsLedger
<1>3. DOMAIN mr = Keys /\ DOMAIN pr = Keys /\ AreRows(mr) /\ AreRows(pr)
  BY <1>1 DEF IsLedger, AreRows
<1>4. IsLedger(m1) /\ m1.row = mr /\ m1.file = m.file /\ m1.applied = m.applied /\ m1.before = m.before
  BY <1>2, <1>3, RowsOnly, SMTT(60)
<1>5. p1.row = pr /\ p1.file = p.file /\ p1.applied = p.applied /\ p1.before = b
      /\ DOMAIN p1 = {"row", "file", "applied", "before"}
  BY <1>2 DEF IsLedger
<1>6. \A a \in Applications : DOMAIN b[a] = (DOMAIN p.before[a]) \ S
      /\ \A k \in DOMAIN b[a] : b[a][k] = p.before[a][k]
  BY <1>1
<1>7. IsLedger(p1)
  BY <1>1, <1>3, <1>5, <1>6 DEF IsLedger, AreRows
<1>8. \A k \in Keys : /\ k \in S => mr[k] = NoRow /\ pr[k] = NoRow
                      /\ k \notin S => mr[k] = m.row[k] /\ pr[k] = p.row[k]
  BY <1>1
<1>9. Sent \subseteq Keys /\ Filed \subseteq Keys /\ lost \subseteq gone
  BY DEF Keys
<1>10. \A k \in Sent : mr[k] = NoRow <=> pr[k] = NoRow
  BY <1>8, <1>9 DEF Parallel, RowsParallel
<1>11. \A k \in Sent \ gone : mr[k] # NoRow => AsPromised(mr[k], pr[k])
  BY <1>8, <1>9 DEF Parallel, RowsParallel
<1>12. \A k \in Filed : pr[k] = NoRow
  BY <1>8, <1>9 DEF Parallel, RowsParallel
<1>13. \A k \in Sent : mr[k] # NoRow => mr[k].file = NoFile
  BY <1>8, <1>9 DEF Parallel, RowsParallel
<1>14. ASSUME NEW a \in Applications, NEW k \in Sent \ gone
       PROVE  /\ k \in DOMAIN m.before[a] <=> k \in DOMAIN b[a]
              /\ k \in DOMAIN m.before[a] => m.before[a][k] = b[a][k]
  <2>1. k \notin lost /\ (k \in S => k \notin DOMAIN m.before[a])
    BY <1>9
  <2>2. /\ k \in DOMAIN m.before[a] <=> k \in DOMAIN p.before[a]
        /\ k \in DOMAIN m.before[a] => m.before[a][k] = p.before[a][k]
    BY <2>1 DEF Parallel, RowsParallel
  <2> QED
    BY <1>6, <2>1, <2>2
<1>15. (\A f \in Files : p1.file[f] = NoFile) /\ m1.applied = p1.applied
  BY <1>4, <1>5 DEF Parallel, RowsParallel
<1> QED
  BY <1>4, <1>5, <1>7, <1>10, <1>11, <1>12, <1>13, <1>14, <1>15 DEF Parallel, RowsParallel

\* The rows of S are changed, each in its own way.
Ruling(db, S, c, rows) == \A k \in Keys : rows[k] = IF k \in S THEN With(db.row[k], c[k]) ELSE db.row[k]

\* What a rule's application, or its reversal, changes of a row.
LEMMA RulingsKeepRows ==
  ASSUME NEW m, NEW p, NEW lost, IsLedger(m), IsLedger(p), Parallel(m, p, lost),
         NEW M, NEW P, \A k \in M : k \in Keys /\ m.row[k] # NoRow, \A k \in P : k \in Sent /\ p.row[k] # NoRow,
         \A k \in Sent \ lost : k \in M <=> k \in P,
         NEW mc, NEW pc, \A k \in M : "file" \notin DOMAIN mc[k],
         \A k \in M \cap (Sent \ lost) : mc[k] = pc[k],
         NEW mr, Ruling(m, M, mc, mr), NEW pr, Ruling(p, P, pc, pr)
  PROVE  AreRows(mr) /\ AreRows(pr) /\ RowsParallel(mr, pr, lost)
<1>1. ASSUME NEW k \in Keys
      PROVE  /\ k \in M => IsRow(mr[k]) /\ mr[k].file = m.row[k].file /\ m.row[k] # NoRow
             /\ k \notin M => mr[k] = m.row[k]
             /\ k \in P => IsRow(pr[k]) /\ p.row[k] # NoRow
             /\ k \notin P => pr[k] = p.row[k]
  <2>1. (m.row[k] = NoRow \/ IsRow(m.row[k])) /\ (p.row[k] = NoRow \/ IsRow(p.row[k]))
    BY DEF IsLedger
  <2>2. ASSUME k \in M
        PROVE  IsRow(mr[k]) /\ mr[k].file = m.row[k].file /\ m.row[k] # NoRow
    <3>1. IsRow(m.row[k]) /\ mr[k] = With(m.row[k], mc[k]) /\ "file" \notin DOMAIN mc[k]
      BY <2>1, <2>2 DEF Ruling
    <3> QED
      BY <2>2, <3>1, ChangedAsPromised
  <2>3. ASSUME k \in P
        PROVE  IsRow(pr[k]) /\ p.row[k] # NoRow
    <3>1. IsRow(p.row[k]) /\ pr[k] = With(p.row[k], pc[k])
      BY <2>1, <2>3 DEF Ruling
    <3> QED
      BY <2>3, <3>1, ChangedAsPromised
  <2> QED
    BY <2>2, <2>3 DEF Ruling
<1>2. Sent \subseteq Keys /\ Filed \subseteq Keys /\ Sent \cap Filed = {}
  BY TransactionStoresAssumption DEF Keys
<1>3. \A k \in Keys : (mr[k] = NoRow \/ IsRow(mr[k])) /\ (pr[k] = NoRow \/ IsRow(pr[k]))
  BY <1>1 DEF IsLedger
<1>4. ASSUME NEW k \in Sent
      PROVE  (mr[k] = NoRow <=> m.row[k] = NoRow) /\ (pr[k] = NoRow <=> p.row[k] = NoRow)
  BY <1>1, <1>2, RowIsSomething
<1>5. \A k \in Sent : mr[k] = NoRow <=> pr[k] = NoRow
  BY <1>4 DEF Parallel, RowsParallel
<1>6. ASSUME NEW k \in Sent \ lost, mr[k] # NoRow
      PROVE  AsPromised(mr[k], pr[k])
  <2>1. AsPromised(m.row[k], p.row[k]) /\ (k \in M <=> k \in P) /\ k \in Keys
    BY <1>2, <1>4, <1>6 DEF Parallel, RowsParallel
  <2>2. CASE k \in M
    <3>1. mr[k] = With(m.row[k], mc[k]) /\ pr[k] = With(p.row[k], mc[k])
      BY <2>1, <2>2 DEF Ruling
    <3>2. IsRow(m.row[k]) /\ IsRow(p.row[k])
      BY <1>1, <2>1, <2>2 DEF IsLedger
    <3> QED
      BY <2>1, <3>1, <3>2, ChangedAsPromised
  <2>3. CASE k \notin M
    BY <1>1, <2>1, <2>3
  <2> QED
    BY <2>2, <2>3
<1>7. \A k \in Filed : pr[k] = NoRow
  BY <1>1, <1>2 DEF Parallel, RowsParallel
<1>8. \A k \in Sent : mr[k] # NoRow => mr[k].file = NoFile
  BY <1>1, <1>2, <1>4 DEF Parallel, RowsParallel
<1> QED
  BY <1>3, <1>5, <1>6, <1>7, <1>8 DEF AreRows, RowsParallel

\* A rule is applied to rows of both.
LEMMA RuleKeeps ==
  ASSUME NEW m, NEW p, NEW lost, IsLedger(m), IsLedger(p), Parallel(m, p, lost), NEW a \in Applications,
         NEW S, S \subseteq Matched(m) \cap Matched(p),
         NEW m1, m1 = Applies(m, a, S), NEW p1, p1 = Applies(p, a, S)
  PROVE  IsLedger(m1) /\ IsLedger(p1) /\ Parallel(m1, p1, lost)
<1>1. PICK mr, pr, mb, pb, did, also :
         /\ mr = [k \in Keys |-> IF k \in S THEN With(m.row[k], Ruled) ELSE m.row[k]]
         /\ pr = [k \in Keys |-> IF k \in S THEN With(p.row[k], Ruled) ELSE p.row[k]]
         /\ mb = [m.before EXCEPT ![a] = Before(m, S)] /\ pb = [p.before EXCEPT ![a] = Before(p, S)]
         /\ did = [m.applied EXCEPT ![a] = "applied"] /\ also = [p.applied EXCEPT ![a] = "applied"]
  OBVIOUS
<1>2. /\ m1 = [m EXCEPT !.row = mr, !.applied = did, !.before = mb]
      /\ p1 = [p EXCEPT !.row = pr, !.applied = also, !.before = pb]
  BY <1>1 DEF Applies, IsLedger
<1>3. /\ m1.row = mr /\ m1.file = m.file /\ m1.applied = did /\ m1.before = mb
      /\ DOMAIN m1 = {"row", "file", "applied", "before"}
  BY <1>2 DEF IsLedger, AreRows
<1>4. /\ p1.row = pr /\ p1.file = p.file /\ p1.applied = also /\ p1.before = pb
      /\ DOMAIN p1 = {"row", "file", "applied", "before"}
  BY <1>2 DEF IsLedger, AreRows
<1>5. \A k \in S : k \in Keys /\ m.row[k] # NoRow /\ k \in Sent /\ p.row[k] # NoRow
  BY DEF Matched, Held, Keys, Parallel, RowsParallel
<1>6. AreRows(mr) /\ AreRows(pr) /\ RowsParallel(mr, pr, lost)
  <2>1. PICK c : c = [k \in Keys |-> Ruled]
    OBVIOUS
  <2>2. \A k \in S : c[k] = Ruled
    BY <1>5, <2>1
  <2>3. "file" \notin DOMAIN Ruled
    BY DEF Ruled
  <2>4. Ruling(m, S, c, mr) /\ Ruling(p, S, c, pr)
    BY <1>1, <2>2 DEF Ruling
  <2>5. \A k \in S : "file" \notin DOMAIN c[k]
    BY <2>2, <2>3
  <2> QED
    BY <1>5, <2>4, <2>5, RulingsKeepRows
<1>7. DOMAIN mb = Applications /\ DOMAIN pb = Applications
      /\ mb[a] = Before(m, S) /\ pb[a] = Before(p, S)
      /\ \A b \in Applications : b # a => mb[b] = m.before[b] /\ pb[b] = p.before[b]
  BY <1>1 DEF IsLedger, AreRows
<1>8. DOMAIN Before(m, S) = S /\ DOMAIN Before(p, S) = S
      /\ \A k \in S \ lost : Before(m, S)[k] = Before(p, S)[k]
  <2>1. \A k \in S \ lost : m.row[k].slug = p.row[k].slug /\ m.row[k].source = p.row[k].source
    BY <1>5 DEF Parallel, RowsParallel, AsPromised
  <2> QED
    BY <2>1 DEF Before
<1>9. IsLedger(m1) /\ IsLedger(p1)
  <2>1. DOMAIN did = Applications /\ DOMAIN also = Applications /\ DOMAIN mr = Keys /\ DOMAIN pr = Keys
    BY <1>1 DEF IsLedger, AreRows
  <2>2. ASSUME NEW db, db \in {m, p}
        PROVE  \A k \in S : "file" \notin DOMAIN Before(db, S)[k]
    BY DEF Before
  <2>4. \A b \in Applications :
           /\ DOMAIN mb[b] \subseteq Sent /\ \A k \in DOMAIN mb[b] : "file" \notin DOMAIN mb[b][k]
           /\ DOMAIN pb[b] \subseteq Sent /\ \A k \in DOMAIN pb[b] : "file" \notin DOMAIN pb[b][k]
    BY <1>5, <1>7, <1>8, <2>2 DEF IsLedger, AreRows
  <2>3. DOMAIN m.file = Files /\ DOMAIN p.file = Files
    BY DEF IsLedger, AreRows
  <2> QED
    BY <1>3, <1>4, <1>6, <1>7, <2>1, <2>3, <2>4 DEF IsLedger, AreRows
<1>10. ASSUME NEW b \in Applications, NEW k \in Sent \ lost
       PROVE  /\ k \in DOMAIN mb[b] <=> k \in DOMAIN pb[b]
              /\ k \in DOMAIN mb[b] => mb[b][k] = pb[b][k]
  <2>1. CASE b = a
    BY <1>7, <1>8, <2>1
  <2>2. CASE b # a
    BY <1>7, <2>2 DEF Parallel, RowsParallel
  <2> QED
    BY <2>1, <2>2
<1>11. did = also /\ \A f \in Files : p1.file[f] = NoFile
  BY <1>1, <1>4 DEF Parallel, RowsParallel
<1> QED
  BY <1>3, <1>4, <1>6, <1>9, <1>10, <1>11 DEF Parallel, RowsParallel

\* An application is taken back.
LEMMA ReversalKeeps ==
  ASSUME NEW m, NEW p, NEW lost, IsLedger(m), IsLedger(p), Parallel(m, p, lost), NEW a \in Applications,
         NEW m1, m1 = MemReverts(m, a), NEW p1, p1 = PgReverts(p, a)
  PROVE  IsLedger(m1) /\ IsLedger(p1) /\ Parallel(m1, p1, lost)
<1>1. PICK mr, pr, did, also :
         /\ mr = [k \in Keys |-> IF k \in Restored(m, a) THEN With(m.row[k], m.before[a][k]) ELSE m.row[k]]
         /\ pr = [k \in Keys |-> IF k \in Restored(p, a) THEN With(p.row[k], p.before[a][k]) ELSE p.row[k]]
         /\ did = [m.applied EXCEPT ![a] = "reverted"] /\ also = [p.applied EXCEPT ![a] = "reverted"]
  OBVIOUS
<1>2. /\ m1 = [m EXCEPT !.row = mr, !.applied = did]
      /\ p1 = [p EXCEPT !.row = pr, !.applied = also]
  BY <1>1 DEF MemReverts, PgReverts, IsLedger
<1>3. /\ m1.row = mr /\ m1.file = m.file /\ m1.applied = did /\ m1.before = m.before
      /\ DOMAIN m1 = {"row", "file", "applied", "before"}
  BY <1>2 DEF IsLedger, AreRows
<1>4. /\ p1.row = pr /\ p1.file = p.file /\ p1.applied = also /\ p1.before = p.before
      /\ DOMAIN p1 = {"row", "file", "applied", "before"}
  BY <1>2 DEF IsLedger, AreRows
<1>5. PICK mb, pb, M, P : mb = m.before[a] /\ pb = p.before[a] /\ M = Restored(m, a) /\ P = Restored(p, a)
  OBVIOUS
<1>6. /\ \A k \in M : k \in Keys /\ m.row[k] # NoRow /\ k \in DOMAIN mb
      /\ \A k \in P : k \in Sent /\ p.row[k] # NoRow
  BY <1>5 DEF Restored, Held, IsLedger
<1>7. \A k \in Sent \ lost : k \in M <=> k \in P
  BY <1>5 DEF Restored, Held, Parallel, RowsParallel, Keys
<1>8. \A k \in M \cap (Sent \ lost) : mb[k] = pb[k]
  BY <1>5, <1>6 DEF Parallel, RowsParallel
<1>9. AreRows(mr) /\ AreRows(pr) /\ RowsParallel(mr, pr, lost)
  <2>1. Ruling(m, M, mb, mr) /\ Ruling(p, P, pb, pr)
    BY <1>1, <1>5 DEF Ruling
  <2>2. \A k \in M : "file" \notin DOMAIN mb[k]
    BY <1>5, <1>6 DEF IsLedger, AreRows
  <2> QED
    BY <1>6, <1>7, <1>8, <2>1, <2>2, RulingsKeepRows
<1>10. IsLedger(m1) /\ IsLedger(p1)
  <2>1. DOMAIN did = Applications /\ DOMAIN also = Applications /\ DOMAIN mr = Keys /\ DOMAIN pr = Keys
    BY <1>1 DEF IsLedger, AreRows
  <2> QED
    BY <1>3, <1>4, <1>9, <2>1 DEF IsLedger, AreRows
<1>11. did = also /\ \A f \in Files : p1.file[f] = NoFile
  BY <1>1, <1>4 DEF Parallel, RowsParallel
<1> QED
  BY <1>3, <1>4, <1>9, <1>10, <1>11 DEF Parallel

\* A ledger with other rows, and other files.
Refiled(db, rows, files) == [db EXCEPT !.row = rows, !.file = files]

\* What becomes of the rows of a file is seen in memory only.
LEMMA FileKeeps ==
  ASSUME NEW m, NEW p, NEW lost, IsLedger(m), IsLedger(p), Parallel(m, p, lost), NEW rows, NEW files,
         DOMAIN rows = Keys, AreRows(rows), DOMAIN files = Files, \A k \in Sent : rows[k] = m.row[k],
         NEW m1, m1 = Refiled(m, rows, files)
  PROVE  IsLedger(m1) /\ Parallel(m1, p, lost)
<1>1. /\ DOMAIN m1 = {"row", "file", "applied", "before"}
      /\ m1.row = rows /\ m1.file = files /\ m1.applied = m.applied /\ m1.before = m.before
  BY DEF IsLedger, Refiled
<1>2. IsLedger(m1)
  BY <1>1 DEF IsLedger, AreRows
<1>3. RowsParallel(m1.row, p.row, lost)
  BY <1>1 DEF Parallel, RowsParallel
<1> QED
  BY <1>1, <1>2, <1>3 DEF Parallel

\* Nothing of the ledgers changes, or only what one of them has of a file.
LEMMA StepImport ==
  ASSUME LedgersInv, NEW f \in Files, RevertImport(f) \/ \E v \in 1..MaxVersion : CommitImport(f, v)
  PROVE  LedgersInv'
<1>1. UNCHANGED <<agreed, strayed>>
  BY DEF RevertImport, CommitImport
<1>2. pg' = pg
  <2>1. pg.file[f] = NoFile
    BY DEF LedgersInv, Parallel
  <2> QED
    BY <2>1 DEF RevertImport, CommitImport, PgCommit, PgRevertsImport, NoFile
<1>3. CASE mem' = mem
  BY <1>1, <1>2, <1>3 DEF LedgersInv
<1>4. Sent \subseteq Keys /\ Sent \cap Filed = {} /\ NoFile # f /\ DOMAIN mem.row = Keys
      /\ DOMAIN mem.file = Files
      /\ DOMAIN mem = {"row", "file", "applied", "before"} /\ IsLedger(mem) /\ IsLedger(pg)
      /\ Parallel(mem, pg, strayed)
  BY TransactionStoresAssumption DEF Keys, NoFile, LedgersInv, IsLedger
<1>5. ASSUME NEW rows, NEW files, DOMAIN rows = Keys, AreRows(rows), DOMAIN files = Files,
             \A k \in Sent : rows[k] = mem.row[k], mem' = Refiled(mem, rows, files)
      PROVE  LedgersInv'
  <2>1. PICK m1 : m1 = mem'
    OBVIOUS
  <2>2. IsLedger(m1) /\ Parallel(m1, pg, strayed)
    BY <1>4, <1>5, <2>1, FileKeeps
  <2> QED
    BY <1>1, <1>2, <2>1, <2>2 DEF LedgersInv
<1>6. ASSUME NEW v \in 1..MaxVersion, CommitImport(f, v)
      PROVE  LedgersInv'
  <2>1. PICK new, rows, files :
           /\ new = Incoming(v, f)
           /\ rows = [k \in Keys |-> IF k \notin Filed THEN mem.row[k]
                                     ELSE IF mem.row[k] = NoRow THEN new ELSE MemMerge(mem.row[k], new)]
           /\ files = [mem.file EXCEPT ![f] = "committed"]
    OBVIOUS
  <2>2. mem' = Refiled(mem, rows, files)
    BY <1>4, <1>6, <2>1 DEF Refiled, CommitImport, MemCommit, MemUpsert
  <2>3. ASSUME NEW k \in Keys
        PROVE  rows[k] = NoRow \/ IsRow(rows[k])
    <3>1. IsRow(new) /\ (mem.row[k] = NoRow \/ IsRow(mem.row[k]))
      BY <1>4, <2>1, IncomingIsRow DEF IsLedger
    <3>2. rows[k] = mem.row[k] \/ rows[k] = new \/ (IsRow(mem.row[k]) /\ rows[k] = MemMerge(mem.row[k], new))
      BY <2>1, <3>1
    <3> QED
      BY <3>1, <3>2, MergedAsPromised
  <2>4. AreRows(rows) /\ DOMAIN rows = Keys /\ DOMAIN files = Files /\ \A k \in Sent : rows[k] = mem.row[k]
    BY <1>4, <2>1, <2>3 DEF AreRows
  <2> QED
    BY <1>5, <2>2, <2>4
<1>7. CASE RevertImport(f) /\ mem.file[f] = "committed"
  <2>1. PICK rows, files : /\ rows = [k \in Keys |-> IF k \in OfFile(mem, f) THEN NoRow ELSE mem.row[k]]
                           /\ files = [mem.file EXCEPT ![f] = "reverted"]
    OBVIOUS
  <2>2. mem' = Refiled(mem, rows, files)
    BY <1>4, <1>7, <2>1 DEF Refiled, RevertImport, RevertsImport, MemDrop
  <2>3. \A k \in Sent : k \notin OfFile(mem, f)
    BY <1>4 DEF OfFile, Held, Parallel, RowsParallel
  <2>4. AreRows(rows) /\ DOMAIN rows = Keys /\ DOMAIN files = Files /\ \A k \in Sent : rows[k] = mem.row[k]
    BY <1>4, <2>1, <2>3 DEF AreRows, IsLedger
  <2> QED
    BY <1>5, <2>2, <2>4
<1> QED
  BY <1>3, <1>6, <1>7 DEF RevertImport, RevertsImport

\* The steps that both adapters take: each leaves what it answers alike.
LEMMA StepCalls ==
  ASSUME LedgersInv,
         \/ \E S \in SUBSET Sent \ {{}}, v \in 1..MaxVersion : UpsertMany(S, v)
         \/ \E k \in Sent, c \in Patches : Update(k, c)
         \/ \E S \in SUBSET Sent \ {{}} : RemoveByProviderIds(S)
         \/ \E a \in Applications, S \in SUBSET Keys : ApplyRule(a, S)
         \/ \E a \in Applications : RevertRule(a)
  PROVE  LedgersInv'
<1>1. IsLedger(mem) /\ IsLedger(pg) /\ Parallel(mem, pg, strayed) /\ agreed
  BY DEF LedgersInv
<1>2. \A S \in SUBSET Sent : S \cap Held(mem) = S \cap Held(pg) /\ S \ Held(mem) = S \ Held(pg)
  BY <1>1 DEF Parallel, RowsParallel, Held, Keys
<1>3. ASSUME NEW m1, NEW p1, NEW gone, m1 = mem', p1 = pg', gone = strayed',
             IsLedger(m1) /\ IsLedger(p1) /\ Parallel(m1, p1, gone), agreed'
      PROVE  LedgersInv'
  BY <1>3 DEF LedgersInv
<1>4. PICK m1, p1, gone : m1 = mem' /\ p1 = pg' /\ gone = strayed'
  OBVIOUS
<1>5. ASSUME NEW S \in SUBSET Sent, NEW v \in 1..MaxVersion, UpsertMany(S, v)
      PROVE  LedgersInv'
  <2>1. m1 = MemUpsert(mem, S, Incoming(v, NoFile)) /\ p1 = PgUpsert(pg, S, Incoming(v, NoFile))
        /\ gone = strayed
    BY <1>4, <1>5 DEF UpsertMany
  <2>2. IsLedger(m1) /\ IsLedger(p1) /\ Parallel(m1, p1, gone)
    BY <1>1, <2>1, PageKeeps
  <2>3. agreed'
    BY <1>2, <1>5 DEF UpsertMany, Answered, Counts
  <2> QED
    BY <1>3, <1>4, <2>2, <2>3
<1>6. ASSUME NEW k \in Sent, NEW c \in Patches, Update(k, c)
      PROVE  LedgersInv'
  <2>1. k \in Held(mem) <=> k \in Held(pg)
    BY <1>1 DEF Parallel, RowsParallel, Held, Keys
  <2>2. agreed' /\ gone = strayed
    <3>1. (k \in Held(mem)) = (k \in Held(pg))
      BY <2>1
    <3> QED
      BY <1>4, <1>6, <3>1 DEF Update, Answered
  <2>3. CASE k \in Held(mem)
    <3>1. "file" \notin DOMAIN c
      BY DEF Patches
    <3>2. m1 = [mem EXCEPT !.row[k] = With(@, c)] /\ p1 = [pg EXCEPT !.row[k] = With(@, c)]
      BY <1>4, <1>6, <2>1, <2>3 DEF Update
    <3>3. mem.row[k] # NoRow
      BY <2>3 DEF Held
    <3>4. IsLedger(m1) /\ IsLedger(p1) /\ Parallel(m1, p1, strayed)
      BY <1>1, <3>1, <3>2, <3>3, ChangeKeeps DEF Changed
    <3> QED
      BY <1>3, <1>4, <2>2, <3>4
  <2>4. CASE k \notin Held(mem)
    <3>1. m1 = mem /\ p1 = pg
      BY <1>4, <1>6, <2>1, <2>4 DEF Update
    <3> QED
      BY <1>1, <1>3, <1>4, <2>2, <3>1
  <2> QED
    BY <2>3, <2>4
<1>7. ASSUME NEW S \in SUBSET Sent, RemoveByProviderIds(S)
      PROVE  LedgersInv'
  <2>1. /\ m1 = MemDrop(mem, S) /\ p1 = PgDrop(pg, S)
        /\ gone = strayed \cup {k \in S : \E a \in Applications : k \in DOMAIN mem.before[a]}
    BY <1>4, <1>7 DEF RemoveByProviderIds
  <2>2. IsLedger(m1) /\ IsLedger(p1) /\ Parallel(m1, p1, gone)
    BY <1>1, <2>1, RemovalKeeps
  <2>3. agreed'
    BY <1>2, <1>7 DEF RemoveByProviderIds, Answered
  <2> QED
    BY <1>3, <1>4, <2>2, <2>3
<1>8. ASSUME NEW a \in Applications, NEW S \in SUBSET Keys, ApplyRule(a, S)
      PROVE  LedgersInv'
  <2>1. /\ m1 = Applies(mem, a, S) /\ p1 = Applies(pg, a, S) /\ gone = strayed
        /\ S \subseteq Matched(mem) \cap Matched(pg) /\ agreed'
    BY <1>4, <1>8 DEF ApplyRule, Answered
  <2>2. IsLedger(m1) /\ IsLedger(p1) /\ Parallel(m1, p1, gone)
    BY <1>1, <2>1, RuleKeeps
  <2> QED
    BY <1>3, <1>4, <2>1, <2>2
<1>9. ASSUME NEW a \in Applications, RevertRule(a)
      PROVE  LedgersInv'
  <2>1. gone = strayed /\ mem.applied = pg.applied
    BY <1>1, <1>4, <1>9 DEF RevertRule, Parallel
  <2>2. agreed'
    <3>1. CASE strayed # {}
      BY <1>9, <3>1 DEF RevertRule
    <3>2. CASE strayed = {}
      <4>1. DOMAIN mem.before[a] = DOMAIN pg.before[a]
        BY <1>1, <3>2 DEF Parallel, IsLedger
      <4>2. DOMAIN mem.before[a] \subseteq Sent
        BY <1>1 DEF IsLedger
      <4>3. Restored(mem, a) = Restored(pg, a)
        BY <1>2, <4>1, <4>2 DEF Restored
      <4> QED
        BY <1>9, <2>1, <4>3 DEF RevertRule
    <3> QED
      BY <3>1, <3>2
  <2>3. CASE mem.applied[a] = "applied"
    <3>1. m1 = MemReverts(mem, a) /\ p1 = PgReverts(pg, a)
      BY <1>4, <1>9, <2>1, <2>3 DEF RevertRule
    <3>2. IsLedger(m1) /\ IsLedger(p1) /\ Parallel(m1, p1, strayed)
      BY <1>1, <3>1, ReversalKeeps
    <3> QED
      BY <1>3, <1>4, <2>1, <2>2, <3>2
  <2>4. CASE mem.applied[a] # "applied"
    <3>1. m1 = mem /\ p1 = pg
      BY <1>4, <1>9, <2>1, <2>4 DEF RevertRule
    <3> QED
      BY <1>1, <1>3, <1>4, <2>1, <2>2, <3>1
  <2> QED
    BY <2>3, <2>4
<1> QED
  BY <1>5, <1>6, <1>7, <1>8, <1>9

\* The merchant of a row, unless the row was sent again under a category of the user's.
NamesAlike == \A k \in Sent \ (strayed \cup renamed) :
    mem.row[k] # NoRow => mem.row[k].merchant = pg.row[k].merchant

\* A row that is sent again takes the merchant it is sent with, but for one of the user's in PostgreSQL.
LEMMA MergedNames ==
  ASSUME NEW old, NEW other, NEW new, IsRow(old), IsRow(other), IsRow(new), AsPromised(old, other), ~ByUser(old)
  PROVE  MemMerge(old, new).merchant = new.merchant /\ PgMerge(other, new).merchant = new.merchant
<1>1. MemMerge(old, new).merchant = new.merchant
  BY DEF MemMerge, MemMergeSent, IsRow, RowFields
<1>2. ~ByUser(other)
  BY DEF ByUser, AsPromised
<1>3. PgMerge(other, new) = [other EXCEPT !.seen = new.seen, !.merchant = new.merchant,
                                         !.slug = new.slug, !.source = new.source]
  BY <1>2 DEF PgMerge
<1> QED
  BY <1>1, <1>3 DEF IsRow, RowFields

\* A change that both make of a row leaves them the merchant they have, or gives them one.
LEMMA ChangedNames ==
  ASSUME NEW r, NEW q, NEW c, IsRow(r), IsRow(q), r.merchant = q.merchant
  PROVE  With(r, c).merchant = With(q, c).merchant
  BY DEF With, IsRow, RowFields

\* What a row becomes in a step that does not send it: nothing, or what both make of it alike.
LEMMA NamesKept ==
  ASSUME LedgersInv, NamesAlike, NEW k \in Sent \ (strayed \cup renamed), NEW r, NEW q, r # NoRow,
         \/ r = mem.row[k] /\ q = pg.row[k]
         \/ mem.row[k] # NoRow /\ \E c : r = With(mem.row[k], c) /\ q = With(pg.row[k], c)
  PROVE  r.merchant = q.merchant
<1>1. CASE r = mem.row[k] /\ q = pg.row[k]
  BY <1>1 DEF NamesAlike
<1>2. ASSUME mem.row[k] # NoRow, NEW c, r = With(mem.row[k], c) /\ q = With(pg.row[k], c)
      PROVE  r.merchant = q.merchant
  <2>1. k \in Keys /\ pg.row[k] # NoRow
    BY <1>2 DEF Keys, LedgersInv, Parallel, RowsParallel
  <2>2. IsRow(mem.row[k]) /\ IsRow(pg.row[k])
    BY <1>2, <2>1 DEF LedgersInv, IsLedger
  <2>3. mem.row[k].merchant = pg.row[k].merchant
    BY <1>2 DEF NamesAlike
  <2> QED
    BY <1>2, <2>2, <2>3, ChangedNames
<1> QED
  BY <1>1, <1>2

\* A page: the rows that are new, and those of which the user has said nothing, get the merchant it has.
LEMMA PageNames ==
  ASSUME LedgersInv, NamesAlike, NEW S \in SUBSET Sent, NEW v \in 1..MaxVersion, UpsertMany(S, v)
  PROVE  NamesAlike'
<1>1. PICK new : new = Incoming(v, NoFile)
  OBVIOUS
<1>2. IsRow(new)
  BY <1>1, IncomingIsRow
<1>3. /\ mem' = MemUpsert(mem, S, new) /\ pg' = PgUpsert(pg, S, new) /\ strayed' = strayed
      /\ renamed' = (renamed \ S) \cup {k \in S \cap Held(mem) : ByUser(mem.row[k])}
  BY <1>1 DEF UpsertMany
<1>4. ASSUME NEW k \in Keys
      PROVE  /\ k \notin S => mem.row'[k] = mem.row[k] /\ pg.row'[k] = pg.row[k]
             /\ k \in S => mem.row'[k] = IF mem.row[k] = NoRow THEN new ELSE MemMerge(mem.row[k], new)
             /\ k \in S => pg.row'[k] = IF pg.row[k] = NoRow THEN new ELSE PgMerge(pg.row[k], new)
  BY <1>3 DEF MemUpsert, PgUpsert, LedgersInv, IsLedger
<1>5. ASSUME NEW k \in Sent \ (strayed' \cup renamed'), mem.row'[k] # NoRow
      PROVE  mem.row'[k].merchant = pg.row'[k].merchant
  <2>1. k \in Keys /\ k \in Sent /\ k \notin strayed
    BY <1>3, <1>5 DEF Keys
  <2>2. CASE k \notin S
    <3>1. k \notin renamed
      BY <1>3, <1>5, <2>2
    <3> QED
      BY <1>4, <1>5, <2>1, <2>2, <3>1 DEF NamesAlike
  <2>3. CASE k \in S /\ mem.row[k] = NoRow
    BY <1>4, <2>1, <2>3 DEF LedgersInv, Parallel, RowsParallel
  <2>4. CASE k \in S /\ mem.row[k] # NoRow
    <3>1. ~ByUser(mem.row[k])
      BY <1>3, <1>5, <2>1, <2>4 DEF Held
    <3>2. AsPromised(mem.row[k], pg.row[k]) /\ pg.row[k] # NoRow
      BY <2>1, <2>4 DEF LedgersInv, Parallel, RowsParallel
    <3>3. IsRow(mem.row[k]) /\ IsRow(pg.row[k])
      BY <2>1, <2>4, <3>2 DEF LedgersInv, IsLedger
    <3> QED
      BY <1>2, <1>4, <2>1, <2>4, <3>1, <3>2, <3>3, MergedNames
  <2> QED
    BY <2>2, <2>3, <2>4
<1> QED
  BY <1>5 DEF NamesAlike

\* A change, a removal, what becomes of a file, a rule and its reversal.
LEMMA OtherNames ==
  ASSUME LedgersInv, NamesAlike,
         \/ \E k \in Sent, c \in Patches : Update(k, c)
         \/ \E S \in SUBSET Sent \ {{}} : RemoveByProviderIds(S)
         \/ \E f \in Files, v \in 1..MaxVersion : CommitImport(f, v)
         \/ \E f \in Files : RevertImport(f)
         \/ \E a \in Applications, S \in SUBSET Keys : ApplyRule(a, S)
         \/ \E a \in Applications : RevertRule(a)
  PROVE  NamesAlike'
<1> DEFINE Alike(k, r, q) == r # NoRow =>
              \/ r = mem.row[k] /\ q = pg.row[k]
              \/ mem.row[k] # NoRow /\ \E c : r = With(mem.row[k], c) /\ q = With(pg.row[k], c)
<1>1. /\ Sent \subseteq Keys /\ Sent \cap Filed = {} /\ IsLedger(mem) /\ IsLedger(pg)
      /\ Parallel(mem, pg, strayed)
  BY TransactionStoresAssumption DEF Keys, LedgersInv
<1>2. ASSUME \A k \in (Sent \ (strayed' \cup renamed')) : /\ k \notin strayed
                                                          /\ k \in renamed => mem.row'[k] = NoRow
                                                          /\ Alike(k, mem.row'[k], pg.row'[k])
      PROVE  NamesAlike'
  <2>1. ASSUME NEW k \in Sent \ (strayed' \cup renamed'), mem.row'[k] # NoRow
        PROVE  mem.row'[k].merchant = pg.row'[k].merchant
    <3>1. k \in Sent \ (strayed \cup renamed) /\ Alike(k, mem.row'[k], pg.row'[k])
      BY <1>2, <2>1
    <3>2. PICK r, q : r = mem.row'[k] /\ q = pg.row'[k]
      OBVIOUS
    <3>3. r.merchant = q.merchant
      BY <2>1, <3>1, <3>2, NamesKept
    <3> QED
      BY <3>2, <3>3
  <2> QED
    BY <2>1 DEF NamesAlike
<1>3. ASSUME NEW k \in Sent, NEW c \in Patches, Update(k, c)
      PROVE  NamesAlike'
  <2>1. k \in Held(mem) <=> k \in Held(pg)
    BY <1>1 DEF Parallel, RowsParallel, Held
  <2>2. strayed' = strayed /\ renamed' = renamed
    BY <1>3 DEF Update
  <2>3. CASE k \in Held(mem)
    <3>1. /\ mem' = [mem EXCEPT !.row[k] = With(@, c)] /\ pg' = [pg EXCEPT !.row[k] = With(@, c)]
      BY <1>3, <2>1, <2>3 DEF Update
    <3>2. /\ mem.row' = [mem.row EXCEPT ![k] = With(@, c)] /\ pg.row' = [pg.row EXCEPT ![k] = With(@, c)]
      BY <1>1, <3>1 DEF IsLedger
    <3>3. /\ \A j \in Sent : j # k => mem.row'[j] = mem.row[j] /\ pg.row'[j] = pg.row[j]
          /\ mem.row'[k] = With(mem.row[k], c) /\ pg.row'[k] = With(pg.row[k], c) /\ mem.row[k] # NoRow
      BY <1>1, <2>3, <3>2 DEF IsLedger, Held
    <3> QED
      BY <1>2, <2>2, <3>3
  <2>4. CASE k \notin Held(mem)
    <3>1. mem' = mem /\ pg' = pg
      BY <1>3, <2>1, <2>4 DEF Update
    <3> QED
      BY <1>2, <2>2, <3>1
  <2> QED
    BY <2>3, <2>4
<1>4. ASSUME NEW S \in SUBSET Sent, RemoveByProviderIds(S)
      PROVE  NamesAlike'
  <2>1. /\ mem' = MemDrop(mem, S) /\ pg' = PgDrop(pg, S) /\ strayed \subseteq strayed' /\ renamed' = renamed \ S
    BY <1>4 DEF RemoveByProviderIds
  <2>2. \A k \in Sent : /\ k \in S => mem.row'[k] = NoRow
                        /\ k \notin S => mem.row'[k] = mem.row[k] /\ pg.row'[k] = pg.row[k]
    BY <1>1, <2>1 DEF MemDrop, PgDrop, IsLedger
  <2> QED
    BY <1>2, <2>1, <2>2
<1>5. ASSUME NEW f \in Files, NEW v \in 1..MaxVersion, CommitImport(f, v)
      PROVE  NamesAlike'
  <2>1. strayed' = strayed /\ renamed' = renamed /\ pg' = pg
    BY <1>5 DEF CommitImport, PgCommit
  <2>2. \A k \in Sent : mem.row'[k] = mem.row[k]
    BY <1>1, <1>5 DEF CommitImport, MemCommit, MemUpsert, IsLedger
  <2> QED
    BY <1>2, <2>1, <2>2
<1>6. ASSUME NEW f \in Files, RevertImport(f)
      PROVE  NamesAlike'
  <2>1. strayed' = strayed /\ renamed' = renamed
    BY <1>6 DEF RevertImport
  <2>2. pg' = pg
    <3>1. pg.file[f] = NoFile
      BY <1>1 DEF Parallel
    <3> QED
      BY <1>6, <3>1 DEF RevertImport, PgRevertsImport, NoFile
  <2>3. \A k \in Sent : k \notin OfFile(mem, f)
    <3>1. NoFile # f
      BY TransactionStoresAssumption DEF NoFile
    <3> QED
      BY <1>1, <3>1 DEF OfFile, Held, Parallel, RowsParallel
  <2>4. \A k \in Sent : mem.row'[k] = mem.row[k]
    BY <1>1, <1>6, <2>3 DEF RevertImport, RevertsImport, MemDrop, IsLedger
  <2> QED
    BY <1>2, <2>1, <2>2, <2>4
<1>7. ASSUME NEW a \in Applications, NEW S \in SUBSET Keys, ApplyRule(a, S)
      PROVE  NamesAlike'
  <2>1. /\ strayed' = strayed /\ renamed' = renamed /\ S \subseteq Held(mem)
        /\ mem' = Applies(mem, a, S) /\ pg' = Applies(pg, a, S)
    BY <1>7 DEF ApplyRule, Matched
  <2>2. ASSUME NEW k \in Sent
        PROVE  /\ k \in S => /\ mem.row'[k] = With(mem.row[k], Ruled) /\ pg.row'[k] = With(pg.row[k], Ruled)
                             /\ mem.row[k] # NoRow
               /\ k \notin S => mem.row'[k] = mem.row[k] /\ pg.row'[k] = pg.row[k]
    BY <1>1, <2>1 DEF Applies, IsLedger, Held
  <2> QED
    BY <1>2, <2>1, <2>2
<1>8. ASSUME NEW a \in Applications, RevertRule(a)
      PROVE  NamesAlike'
  <2>1. strayed' = strayed /\ renamed' = renamed /\ mem.applied = pg.applied
    BY <1>1, <1>8 DEF RevertRule, Parallel
  <2>2. CASE mem.applied[a] = "applied"
    <3>1. mem' = MemReverts(mem, a) /\ pg' = PgReverts(pg, a)
      BY <1>8, <2>1, <2>2 DEF RevertRule
    <3>2. ASSUME NEW k \in Sent
          PROVE  /\ mem.row'[k] = IF k \in Restored(mem, a) THEN With(mem.row[k], mem.before[a][k]) ELSE mem.row[k]
                 /\ pg.row'[k] = IF k \in Restored(pg, a) THEN With(pg.row[k], pg.before[a][k]) ELSE pg.row[k]
      BY <1>1, <3>1 DEF MemReverts, PgReverts, IsLedger
    <3>3. ASSUME NEW k \in Sent \ strayed
          PROVE  /\ k \in Restored(mem, a) <=> k \in Restored(pg, a)
                 /\ k \in Restored(mem, a) => mem.before[a][k] = pg.before[a][k] /\ mem.row[k] # NoRow
      BY <1>1 DEF Restored, Held, Parallel, RowsParallel
    <3> QED
      BY <1>2, <2>1, <3>2, <3>3
  <2>3. CASE mem.applied[a] # "applied"
    <3>1. mem' = mem /\ pg' = pg
      BY <1>8, <2>1, <2>3 DEF RevertRule
    <3> QED
      BY <1>2, <2>1, <3>1
  <2> QED
    BY <2>2, <2>3
<1> QED
  BY <1>3, <1>4, <1>5, <1>6, <1>7, <1>8

\* stores.ts and in-memory-store.ts: through every order of syncs, choices, removals, imports, rules and
\* their reversals both adapters hold the same rows of the provider with the same facts, category, tags
\* and word on recurrence, and answer alike, for any rows, files, rules and versions; and with the same
\* merchant, but for the rows that were sent again under a category of the user's.
THEOREM LedgersAreTheSame == TransactionStoresSpec => []SameLedger
<1>1. TransactionStoresInit => LedgersInv /\ NamesAlike
  <2> SUFFICES ASSUME TransactionStoresInit
               PROVE  LedgersInv /\ NamesAlike
    OBVIOUS
  <2>1. mem = Empty /\ pg = Empty /\ agreed /\ strayed = {}
    BY DEF TransactionStoresInit
  <2>2. /\ \A k \in Keys : Empty.row[k] = NoRow
        /\ \A f \in Files : Empty.file[f] = NoFile
        /\ \A a \in Applications : Empty.before[a] = <<>>
        /\ DOMAIN Empty = {"row", "file", "applied", "before"}
        /\ DOMAIN Empty.row = Keys /\ DOMAIN Empty.file = Files /\ DOMAIN Empty.applied = Applications
        /\ DOMAIN Empty.before = Applications
    BY DEF Empty
  <2>3. DOMAIN <<>> = {} /\ Sent \subseteq Keys /\ Filed \subseteq Keys
    BY DEF Keys
  <2>4. IsLedger(Empty)
    BY <2>2, <2>3 DEF IsLedger
  <2>5. Parallel(Empty, Empty, {})
    BY <2>2, <2>3 DEF Parallel, RowsParallel
  <2>6. NamesAlike
    BY <2>1, <2>2, <2>3 DEF NamesAlike
  <2> QED
    BY <2>1, <2>4, <2>5, <2>6 DEF LedgersInv
<1>2. ASSUME LedgersInv, NamesAlike, [TransactionStoresNext]_transactionStoresVars
      PROVE  LedgersInv' /\ NamesAlike'
  <2>1. CASE UNCHANGED transactionStoresVars
    BY <1>2, <2>1 DEF transactionStoresVars, LedgersInv, NamesAlike
  <2>2. CASE TransactionStoresNext
    <3>1. LedgersInv'
      BY <1>2, <2>2, StepImport, StepCalls DEF TransactionStoresNext
    <3>2. NamesAlike'
      BY <1>2, <2>2, PageNames, OtherNames DEF TransactionStoresNext
    <3> QED
      BY <3>1, <3>2
  <2> QED
    BY <1>2, <2>1, <2>2
<1>3. LedgersInv /\ NamesAlike => SameLedger
  <2> SUFFICES ASSUME LedgersInv, NamesAlike
               PROVE  SameLedger
    OBVIOUS
  <2>1. Held(mem) \cap Sent = Held(pg) \cap Sent
    BY DEF LedgersInv, Parallel, RowsParallel, Held
  <2>2. ASSUME NEW k \in (Held(mem) \cap Sent) \ strayed
        PROVE  Promised(mem.row[k]) = Promised(pg.row[k])
    <3>1. AsPromised(mem.row[k], pg.row[k])
      BY DEF LedgersInv, Parallel, RowsParallel, Held
    <3> QED
      BY <3>1 DEF AsPromised, Promised
  <2>3. ASSUME NEW k \in (Held(mem) \cap Sent) \ strayed, k \notin renamed
        PROVE  mem.row[k].merchant = pg.row[k].merchant
    BY <2>3 DEF NamesAlike, Held
  <2> QED
    BY <2>1, <2>2, <2>3 DEF LedgersInv, SameLedger
<1> QED
  BY <1>1, <1>2, <1>3, PTL DEF TransactionStoresSpec

-----------------------------------------------------------------------------
(* A statement behind the two adapters *)

UploadFields ==
    {"status", "hash", "source", "tries", "stale", "over", "rows", "counts", "audit"}
IsUpload(s) ==
    /\ DOMAIN s = UploadFields /\ s.tries \in Nat
    /\ s.source \in BOOLEAN /\ s.stale \in BOOLEAN /\ s.over \in BOOLEAN

\* What is the same of an import that is not deleted.
SameFields(m, p) ==
    m.rows = p.rows /\ m.counts = p.counts /\ m.audit = p.audit /\ m.source = p.source
    /\ m.over = p.over /\ m.stale = p.stale

\* Both hold the same of it; what is deleted has no source in PostgreSQL; nobody has read a row of what is
\* waiting; whose lease has lapsed has a source; and the counts are those of the rows.
SameUpload(m, p) ==
    /\ m.status = p.status /\ m.tries = p.tries
    /\ m.status # "deleted" => SameFields(m, p)
    /\ p.status = "deleted" => p.source = FALSE
    /\ p.status = "queued" => p.tries = 0
    /\ p.status \in {"queued", "processing"} => p.rows = <<>>
    /\ p.status = "processing" /\ p.stale = TRUE => p.source = TRUE
    /\ p.counts = Counted(p.rows)

\* Of any import both have the same file.
SameFile(m, p) == IsUpload(m) /\ IsUpload(p) /\ m.hash = p.hash

StatementsInv ==
    /\ DOMAIN staged = Uploads /\ DOMAIN filed = Uploads
    /\ \A i \in Uploads : SameFile(staged[i], filed[i])
    /\ \A i \in Uploads \ unlike : SameUpload(staged[i], filed[i])
    /\ tallies

\* A write of one import.
LEMMA WriteKeeps ==
  ASSUME StatementsInv, NEW i \in Uploads, NEW m, NEW p, SameFile(m, p),
         staged' = [staged EXCEPT ![i] = m], filed' = [filed EXCEPT ![i] = p], tallies',
         unlike \subseteq unlike', i \notin unlike' => SameUpload(m, p)
  PROVE  StatementsInv'
<1>1. DOMAIN staged' = Uploads /\ DOMAIN filed' = Uploads
  BY DEF StatementsInv
<1>2. ASSUME NEW j \in Uploads
      PROVE  /\ SameFile(staged'[j], filed'[j])
             /\ j \notin unlike' => SameUpload(staged'[j], filed'[j])
  <2>1. CASE j = i
    <3>1. staged'[j] = m /\ filed'[j] = p
      BY <2>1 DEF StatementsInv
    <3> QED
      BY <2>1, <3>1
  <2>2. CASE j # i
    <3>1. staged'[j] = staged[j] /\ filed'[j] = filed[j]
      BY <2>2 DEF StatementsInv
    <3> QED
      BY <3>1 DEF StatementsInv
  <2> QED
    BY <2>1, <2>2
<1> QED
  BY <1>1, <1>2 DEF StatementsInv, SameFile, SameUpload, SameFields, IsUpload

-----------------------------------------------------------------------------
(* Workers, reviews and deletions, of one import *)

\* What a write does to an import: its next status, rows and events; the rest stays, and the lease may end.
Rewrites(s, t, status, rows, kind) ==
    /\ IsUpload(t) /\ t.hash = s.hash /\ t.tries = s.tries /\ t.source = s.source /\ t.over = s.over
    /\ t.status = status /\ t.rows = rows /\ t.counts = Counted(rows) /\ t.audit = s.audit \cup {kind}
    /\ t.stale \in {s.stale, FALSE}

\* Both write the same, to an import that is not deleted.
LEMMA RewritesAlike ==
  ASSUME NEW m, NEW p, SameFile(m, p), NEW m1, NEW p1, NEW status \in {"ready", "failed", "approved"},
         NEW rows, NEW kind, Rewrites(m, m1, status, rows, kind), Rewrites(p, p1, status, rows, kind),
         m.stale = p.stale => m1.stale = p1.stale
  PROVE  /\ SameFile(m1, p1)
         /\ SameUpload(m, p) /\ p.status # "deleted" => SameUpload(m1, p1)
<1>1. SameFile(m1, p1)
  BY DEF SameFile, Rewrites
<1>2. ASSUME SameUpload(m, p), p.status # "deleted"
      PROVE  SameUpload(m1, p1)
  <2>1. SameFields(m1, p1)
    BY <1>2 DEF SameUpload, SameFields, Rewrites
  <2>2. /\ m1.status = p1.status /\ m1.tries = p1.tries /\ p1.status = status
        /\ p1.counts = Counted(p1.rows)
    BY <1>2 DEF SameUpload, Rewrites
  <2> QED
    BY <2>1, <2>2 DEF SameUpload
<1> QED
  BY <1>1, <1>2

LEMMA ExtractedRows == <<>> \o Extracted = Extracted
BY DEF Extracted, StagedRow

LEMMA CompleteKeeps ==
  ASSUME StatementsInv, NEW i \in Uploads, CompleteProcessing(i)
  PROVE  StatementsInv'
<1> DEFINE m == staged[i]
           p == filed[i]
           m1 == MemCompletes(m)
           p1 == PgCompletes(p)
<1>1. SameFile(m, p) /\ (i \notin unlike => SameUpload(m, p)) /\ unlike' = unlike
  BY DEF StatementsInv, CompleteProcessing
<1>2. /\ staged' = [staged EXCEPT ![i] = m1] /\ filed' = [filed EXCEPT ![i] = p1]
      /\ tallies' = (i \notin unlike => (m.status = "processing") = (p.status = "processing"))
  BY DEF CompleteProcessing, Writes, Is
<1>3. m.status = "processing" => Rewrites(m, m1, "ready", Extracted, "processed") /\ m1.stale = FALSE
  BY <1>1 DEF SameFile, IsUpload, UploadFields, MemCompletes, Logged, WithRows, Rewrites
<1>4. p.status = "processing"
      => /\ Rewrites(p, p1, "ready", p.rows \o Extracted, "processed")
         /\ p1.stale = FALSE
  BY <1>1 DEF SameFile, IsUpload, UploadFields, PgCompletes, Logged, WithRows, Rewrites
<1>5. (m.status # "processing" => m1 = m) /\ (p.status # "processing" => p1 = p)
  BY DEF MemCompletes, PgCompletes
<1> HIDE DEF m, p, m1, p1
<1>6. SameFile(m1, p1)
  BY <1>1, <1>3, <1>4, <1>5 DEF SameFile, Rewrites
<1>7. ASSUME i \notin unlike
      PROVE  SameUpload(m1, p1) /\ tallies'
  <2>1. CASE p.status = "processing"
    <3>1. m.status = "processing" /\ p.rows = <<>>
      BY <1>1, <1>7, <2>1 DEF SameUpload
    <3>2. Rewrites(p, p1, "ready", Extracted, "processed")
      BY <1>4, <2>1, <3>1, ExtractedRows
    <3> QED
      BY <1>1, <1>2, <1>3, <1>4, <1>7, <2>1, <3>1, <3>2, RewritesAlike
  <2>2. CASE p.status # "processing"
    <3>1. SameUpload(m, p) /\ m.status # "processing"
      BY <1>1, <1>7, <2>2 DEF SameUpload
    <3>2. SameUpload(m1, p1)
      BY <1>5, <2>2, <3>1
    <3> QED
      BY <1>2, <1>7, <2>2, <3>1, <3>2
  <2> QED
    BY <2>1, <2>2
<1>8. tallies'
  BY <1>2, <1>7
<1> QED
  BY <1>1, <1>2, <1>6, <1>7, <1>8, WriteKeeps

\* What a worker could not read.
LEMMA FailKeeps ==
  ASSUME StatementsInv, NEW i \in Uploads, FailProcessing(i)
  PROVE  StatementsInv'
<1> DEFINE m == staged[i]
           p == filed[i]
           m1 == MemFails(m)
           p1 == PgFails(p)
<1>1. SameFile(m, p) /\ (i \notin unlike => SameUpload(m, p)) /\ unlike' = unlike
  BY DEF StatementsInv, FailProcessing
<1>2. /\ staged' = [staged EXCEPT ![i] = m1] /\ filed' = [filed EXCEPT ![i] = p1]
      /\ tallies' = (i \notin unlike => (m.status = "processing") = (p.status = "processing"))
  BY DEF FailProcessing, Writes, Is
<1>3. m.status = "processing" /\ m.counts = Counted(m.rows)
      => Rewrites(m, m1, "failed", m.rows, "failed") /\ m1.stale = FALSE
  BY <1>1 DEF SameFile, IsUpload, UploadFields, MemFails, Logged, Rewrites
<1>4. p.status = "processing" /\ p.counts = Counted(p.rows)
      => Rewrites(p, p1, "failed", p.rows, "failed") /\ p1.stale = FALSE
  BY <1>1 DEF SameFile, IsUpload, UploadFields, PgFails, Logged, Rewrites
<1>5. (m.status # "processing" => m1 = m) /\ (p.status # "processing" => p1 = p)
  BY DEF MemFails, PgFails
<1>6. IsUpload(m1) /\ m1.hash = m.hash
  BY <1>1 DEF SameFile, IsUpload, UploadFields, MemFails, Logged
<1>7. IsUpload(p1) /\ p1.hash = p.hash
  BY <1>1 DEF SameFile, IsUpload, UploadFields, PgFails, Logged
<1> HIDE DEF m, p, m1, p1
<1>8. SameFile(m1, p1)
  BY <1>1, <1>6, <1>7 DEF SameFile
<1>9. ASSUME i \notin unlike
      PROVE  SameUpload(m1, p1) /\ tallies'
  <2>1. CASE p.status = "processing"
    <3>1. m.status = "processing" /\ m.rows = p.rows /\ m.counts = Counted(m.rows)
          /\ p.counts = Counted(p.rows)
      BY <1>1, <1>9, <2>1 DEF SameUpload, SameFields
    <3>2. Rewrites(m, m1, "failed", p.rows, "failed") /\ m1.stale = FALSE
      BY <1>3, <3>1
    <3>3. Rewrites(p, p1, "failed", p.rows, "failed") /\ p1.stale = FALSE
      BY <1>4, <2>1, <3>1
    <3> QED
      BY <1>1, <1>2, <1>9, <2>1, <3>1, <3>2, <3>3, RewritesAlike
  <2>2. CASE p.status # "processing"
    <3>1. SameUpload(m, p) /\ m.status # "processing"
      BY <1>1, <1>9, <2>2 DEF SameUpload
    <3>2. SameUpload(m1, p1)
      BY <1>5, <2>2, <3>1
    <3> QED
      BY <1>2, <1>9, <2>2, <3>1, <3>2
  <2> QED
    BY <2>1, <2>2
<1>10. tallies'
  BY <1>2, <1>9
<1> QED
  BY <1>1, <1>2, <1>8, <1>9, <1>10, WriteKeeps
-----------------------------------------------------------------------------
(* Reviews *)

\* What is reviewed only while it is ready.
Reviews(s, t, rows, kind) ==
    /\ s.status = "ready" => Rewrites(s, t, "ready", rows, kind) /\ t.stale = s.stale
    /\ s.status # "ready" => t = s

LEMMA ReviewKeeps ==
  ASSUME StatementsInv, NEW i \in Uploads, NEW m1, NEW p1, SameFile(m1, p1), NEW rows, NEW kind,
         i \notin unlike => Reviews(staged[i], m1, rows, kind) /\ Reviews(filed[i], p1, rows, kind),
         Writes(i, m1, p1, Is(staged, i, "ready"), Is(filed, i, "ready")), unlike' = unlike
  PROVE  StatementsInv'
<1> DEFINE m == staged[i]
           p == filed[i]
<1>1. SameFile(m, p) /\ (i \notin unlike => SameUpload(m, p))
  BY DEF StatementsInv
<1>2. /\ staged' = [staged EXCEPT ![i] = m1] /\ filed' = [filed EXCEPT ![i] = p1]
      /\ tallies' = (i \notin unlike => (m.status = "ready") = (p.status = "ready"))
  BY DEF Writes, Is
<1>3. i \notin unlike => Reviews(m, m1, rows, kind) /\ Reviews(p, p1, rows, kind)
  OBVIOUS
<1> HIDE DEF m, p
<1>4. ASSUME i \notin unlike
      PROVE  SameUpload(m1, p1) /\ tallies'
  <2>1. m.status = p.status
    BY <1>1, <1>4 DEF SameUpload
  <2>2. CASE p.status = "ready"
    <3>1. /\ Rewrites(m, m1, "ready", rows, kind) /\ Rewrites(p, p1, "ready", rows, kind)
          /\ m1.stale = m.stale /\ p1.stale = p.stale
      BY <1>3, <1>4, <2>1, <2>2 DEF Reviews
    <3>2. SameUpload(m1, p1)
      BY <1>1, <1>4, <2>2, <3>1, RewritesAlike
    <3> QED
      BY <1>2, <1>4, <2>1, <2>2, <3>2
  <2>3. CASE p.status # "ready"
    <3>1. m1 = m /\ p1 = p
      BY <1>3, <1>4, <2>1, <2>3 DEF Reviews
    <3>2. SameUpload(m1, p1)
      BY <1>1, <1>4, <3>1
    <3> QED
      BY <1>2, <1>4, <2>1, <2>3, <3>2
  <2> QED
    BY <2>2, <2>3
<1>5. tallies'
  BY <1>2, <1>4
<1> QED
  BY <1>2, <1>4, <1>5, WriteKeeps DEF m, p

\* updateRow and updateRowsDecision.
NewRows(rows, R, row) == [r \in DOMAIN rows |-> IF r \in R THEN row[r] ELSE rows[r]]

LEMMA UpdatesReview ==
  ASSUME NEW s, IsUpload(s), NEW R, NEW row, NEW t, t = MemUpdates(s, R, row) \/ t = PgUpdates(s, R, row)
  PROVE  /\ IsUpload(t) /\ t.hash = s.hash
         /\ R \subseteq DOMAIN s.rows => Reviews(s, t, NewRows(s.rows, R, row), "row_edited")
<1>1. t = IF s.status = "ready" /\ R \subseteq DOMAIN s.rows
          THEN Logged(WithRows(s, NewRows(s.rows, R, row)), "row_edited") ELSE s
  BY DEF MemUpdates, PgUpdates, NewRows
<1> DEFINE rows == NewRows(s.rows, R, row)
<1> HIDE DEF rows
<1>2. CASE s.status = "ready" /\ R \subseteq DOMAIN s.rows
  <2>1. t = Logged(WithRows(s, rows), "row_edited")
    BY <1>1, <1>2 DEF rows
  <2>2. Rewrites(s, t, "ready", rows, "row_edited") /\ t.stale = s.stale
    BY <1>2, <2>1 DEF IsUpload, UploadFields, Logged, WithRows, Rewrites
  <2> QED
    BY <1>2, <2>2 DEF Reviews, Rewrites, rows
<1>3. CASE ~ (s.status = "ready" /\ R \subseteq DOMAIN s.rows)
  BY <1>1, <1>3 DEF Reviews
<1> QED
  BY <1>2, <1>3

LEMMA UpdatesKeep ==
  ASSUME StatementsInv, NEW i \in Uploads, NEW R, NEW row, R \subseteq DOMAIN filed[i].rows, unlike' = unlike,
         Writes(i, MemUpdates(staged[i], R, row), PgUpdates(filed[i], R, row),
                Is(staged, i, "ready"), Is(filed, i, "ready"))
  PROVE  StatementsInv'
<1>1. PICK m, p : m = staged[i] /\ p = filed[i]
  OBVIOUS
<1>2. PICK m1, p1 : m1 = MemUpdates(m, R, row) /\ p1 = PgUpdates(p, R, row)
  OBVIOUS
<1>3. SameFile(m, p) /\ (i \notin unlike => SameUpload(m, p))
  BY <1>1 DEF StatementsInv
<1>4. PICK rows : rows = NewRows(p.rows, R, row)
  OBVIOUS
<1>5. Reviews(p, p1, rows, "row_edited") /\ IsUpload(p1) /\ p1.hash = p.hash
  BY <1>1, <1>2, <1>3, <1>4, UpdatesReview DEF SameFile
<1>6. IsUpload(m1) /\ m1.hash = m.hash
  BY <1>2, <1>3, UpdatesReview DEF SameFile
<1>7. ASSUME i \notin unlike
      PROVE  Reviews(m, m1, rows, "row_edited")
  <2>1. CASE m.status = "deleted"
    BY <1>2, <2>1 DEF MemUpdates, Reviews
  <2>2. CASE m.status # "deleted"
    <3>1. m.rows = p.rows
      BY <1>3, <1>7, <2>2 DEF SameUpload, SameFields
    <3> QED
      BY <1>1, <1>2, <1>3, <1>4, <3>1, UpdatesReview DEF SameFile
  <2> QED
    BY <2>1, <2>2
<1>8. SameFile(m1, p1)
  BY <1>3, <1>5, <1>6 DEF SameFile
<1>9. Writes(i, m1, p1, Is(staged, i, "ready"), Is(filed, i, "ready"))
  BY <1>1, <1>2
<1> QED
  BY <1>1, <1>5, <1>7, <1>8, <1>9, ReviewKeeps

\* splitRow and mergeRows.
Parted(rows, R, new) ==
    [r \in DOMAIN rows |-> IF r \in R THEN [rows[r] EXCEPT !.decision = "exclude", !.split = TRUE]
                           ELSE rows[r]] \o new

LEMMA ReplacesReview ==
  ASSUME NEW s, IsUpload(s), NEW R, NEW new, NEW kind, NEW t,
         t = MemReplaces(s, R, new, kind) \/ t = PgReplaces(s, R, new, kind)
  PROVE  /\ IsUpload(t) /\ t.hash = s.hash
         /\ Reviews(s, t, Parted(s.rows, R, new), kind)
<1>1. t = IF s.status = "ready" THEN Logged(WithRows(s, Parted(s.rows, R, new)), kind) ELSE s
  BY DEF MemReplaces, PgReplaces, Replaces, Parted
<1> DEFINE rows == Parted(s.rows, R, new)
<1> HIDE DEF rows
<1>2. CASE s.status = "ready"
  <2>1. t = Logged(WithRows(s, rows), kind)
    BY <1>1, <1>2 DEF rows
  <2>2. Rewrites(s, t, "ready", rows, kind) /\ t.stale = s.stale
    BY <1>2, <2>1 DEF IsUpload, UploadFields, Logged, WithRows, Rewrites
  <2> QED
    BY <1>2, <2>2 DEF Reviews, Rewrites, rows
<1>3. CASE s.status # "ready"
  BY <1>1, <1>3 DEF Reviews
<1> QED
  BY <1>2, <1>3

LEMMA ReplacesKeep ==
  ASSUME StatementsInv, NEW i \in Uploads, NEW R, NEW new, NEW kind, unlike' = unlike,
         Writes(i, MemReplaces(staged[i], R, new, kind), PgReplaces(filed[i], R, new, kind),
                Is(staged, i, "ready"), Is(filed, i, "ready"))
  PROVE  StatementsInv'
<1>1. PICK m, p : m = staged[i] /\ p = filed[i]
  OBVIOUS
<1>2. PICK m1, p1 : m1 = MemReplaces(m, R, new, kind) /\ p1 = PgReplaces(p, R, new, kind)
  OBVIOUS
<1>3. SameFile(m, p) /\ (i \notin unlike => SameUpload(m, p))
  BY <1>1 DEF StatementsInv
<1>4. PICK rows : rows = Parted(p.rows, R, new)
  OBVIOUS
<1>5. Reviews(p, p1, rows, kind) /\ IsUpload(p1) /\ p1.hash = p.hash
  BY <1>2, <1>3, <1>4, ReplacesReview DEF SameFile
<1>6. IsUpload(m1) /\ m1.hash = m.hash /\ Reviews(m, m1, Parted(m.rows, R, new), kind)
  BY <1>2, <1>3, ReplacesReview DEF SameFile
<1>7. ASSUME i \notin unlike
      PROVE  Reviews(m, m1, rows, kind)
  <2>1. CASE m.status = "deleted"
    BY <1>2, <2>1 DEF MemReplaces, Reviews
  <2>2. CASE m.status # "deleted"
    <3>1. m.rows = p.rows
      BY <1>3, <1>7, <2>2 DEF SameUpload, SameFields
    <3> QED
      BY <1>4, <1>6, <3>1
  <2> QED
    BY <2>1, <2>2
<1>8. SameFile(m1, p1)
  BY <1>3, <1>5, <1>6 DEF SameFile
<1>9. Writes(i, m1, p1, Is(staged, i, "ready"), Is(filed, i, "ready"))
  BY <1>1, <1>2
<1> QED
  BY <1>1, <1>5, <1>7, <1>8, <1>9, ReviewKeeps

LEMMA ReviewsKeep ==
  ASSUME StatementsInv, NEW i \in Uploads,
         \/ \E r \in DOMAIN filed[i].rows : SplitUploaded(i, r)
                                            \/ \E amount \in 1..2 : UpdateRow(i, r, amount)
         \/ \E R \in SUBSET DOMAIN filed[i].rows :
               MergeUploaded(i, R) \/ \E d \in RowDecisions : UpdateRowsDecision(i, R, d)
  PROVE  StatementsInv'
<1>1. ASSUME NEW r \in DOMAIN filed[i].rows, SplitUploaded(i, r)
      PROVE  StatementsInv'
  <2> DEFINE parts == <<StagedRow(1, "include"), StagedRow(1, "include")>>
  <2>1. /\ Writes(i, MemReplaces(staged[i], {r}, parts, "row_split"),
                  PgReplaces(filed[i], {r}, parts, "row_split"), Is(staged, i, "ready"), Is(filed, i, "ready"))
        /\ unlike' = unlike
    BY <1>1 DEF SplitUploaded, Reviewing
  <2> HIDE DEF parts
  <2> QED
    BY <2>1, ReplacesKeep
<1>2. ASSUME NEW r \in DOMAIN filed[i].rows, NEW amount \in 1..2, UpdateRow(i, r, amount)
      PROVE  StatementsInv'
  <2> DEFINE row == [x \in {r} |-> [filed[i].rows[r] EXCEPT !.amount = amount]]
  <2>1. /\ Writes(i, MemUpdates(staged[i], {r}, row), PgUpdates(filed[i], {r}, row),
                  Is(staged, i, "ready"), Is(filed, i, "ready"))
        /\ unlike' = unlike
    BY <1>2 DEF UpdateRow, Reviewing
  <2> HIDE DEF row
  <2>2. PICK R, one : R = {r} /\ one = row
    OBVIOUS
  <2> QED
    BY <2>1, <2>2, UpdatesKeep
<1>3. ASSUME NEW R \in SUBSET DOMAIN filed[i].rows, MergeUploaded(i, R)
      PROVE  StatementsInv'
  <2> DEFINE sum == <<StagedRow(Cardinality(R), "include")>>
  <2>1. /\ Writes(i, MemReplaces(staged[i], R, sum, "rows_merged"),
                  PgReplaces(filed[i], R, sum, "rows_merged"), Is(staged, i, "ready"), Is(filed, i, "ready"))
        /\ unlike' = unlike
    BY <1>3 DEF MergeUploaded, Reviewing
  <2> HIDE DEF sum
  <2> QED
    BY <2>1, ReplacesKeep
<1>4. ASSUME NEW R \in SUBSET DOMAIN filed[i].rows, NEW d \in RowDecisions, UpdateRowsDecision(i, R, d)
      PROVE  StatementsInv'
  <2> DEFINE row == [r \in R |-> [filed[i].rows[r] EXCEPT !.decision = d]]
  <2>1. /\ Writes(i, MemUpdates(staged[i], R, row), PgUpdates(filed[i], R, row),
                  Is(staged, i, "ready"), Is(filed, i, "ready"))
        /\ unlike' = unlike /\ R \subseteq DOMAIN filed[i].rows
    BY <1>4 DEF UpdateRowsDecision, Reviewing
  <2> HIDE DEF row
  <2> QED
    BY <2>1, UpdatesKeep
<1> QED
  BY <1>1, <1>2, <1>3, <1>4
-----------------------------------------------------------------------------
(* The end of an import, and what times out *)

LEMMA FinalizeKeeps ==
  ASSUME StatementsInv, NEW i \in Uploads, FinalizeUpload(i)
  PROVE  StatementsInv'
<1>1. PICK m, p : m = staged[i] /\ p = filed[i]
  OBVIOUS
<1>2. PICK m1, p1 : m1 = MemFinalizes(m) /\ p1 = PgFinalizes(p)
  OBVIOUS
<1>3. SameFile(m, p) /\ (i \notin unlike => SameUpload(m, p)) /\ unlike' = unlike
  BY <1>1 DEF StatementsInv, FinalizeUpload
<1>4. /\ staged' = [staged EXCEPT ![i] = m1] /\ filed' = [filed EXCEPT ![i] = p1]
      /\ tallies' = (i \notin unlike => (m.status = "ready") = (p.status = "ready"))
      /\ Number(p.rows, "needs_review") = 0
  BY <1>1, <1>2 DEF FinalizeUpload, Writes, Is
<1>5. m.status = "ready" /\ m.counts = Counted(m.rows)
      => Rewrites(m, m1, "approved", m.rows, "approved") /\ m1.stale = m.stale
  BY <1>2, <1>3 DEF SameFile, IsUpload, UploadFields, MemFinalizes, Logged, Rewrites
<1>6. p.status = "ready" /\ p.counts = Counted(p.rows)
      => Rewrites(p, p1, "approved", p.rows, "approved") /\ p1.stale = p.stale
  <2>1. SUFFICES ASSUME p.status = "ready", p.counts = Counted(p.rows)
                 PROVE  Rewrites(p, p1, "approved", p.rows, "approved") /\ p1.stale = p.stale
    OBVIOUS
  <2>2. p.counts[4] = 0
    BY <1>4, <2>1 DEF Counted
  <2>3. p1 = Logged([p EXCEPT !.status = "approved"], "approved")
    BY <1>2, <2>1, <2>2 DEF PgFinalizes
  <2> QED
    BY <1>3, <2>1, <2>3 DEF SameFile, IsUpload, UploadFields, Logged, Rewrites
<1>7. IsUpload(m1) /\ m1.hash = m.hash
  BY <1>2, <1>3 DEF SameFile, IsUpload, UploadFields, MemFinalizes, Logged
<1>8. IsUpload(p1) /\ p1.hash = p.hash
  BY <1>2, <1>3 DEF SameFile, IsUpload, UploadFields, PgFinalizes, Logged
<1>9. (m.status # "ready" => m1 = m) /\ (p.status # "ready" => p1 = p)
  BY <1>2 DEF MemFinalizes, PgFinalizes
<1>10. SameFile(m1, p1)
  BY <1>3, <1>7, <1>8 DEF SameFile
<1>11. ASSUME i \notin unlike
       PROVE  SameUpload(m1, p1) /\ tallies'
  <2>1. CASE p.status = "ready"
    <3>1. m.status = "ready" /\ m.rows = p.rows /\ m.counts = Counted(m.rows) /\ p.counts = Counted(p.rows)
      BY <1>3, <1>11, <2>1 DEF SameUpload, SameFields
    <3>2. Rewrites(m, m1, "approved", p.rows, "approved") /\ m1.stale = m.stale
      BY <1>5, <3>1
    <3>3. Rewrites(p, p1, "approved", p.rows, "approved") /\ p1.stale = p.stale
      BY <1>6, <2>1, <3>1
    <3>4. SameUpload(m1, p1)
      BY <1>3, <1>11, <2>1, <3>2, <3>3, RewritesAlike
    <3> QED
      BY <1>4, <1>11, <2>1, <3>1, <3>4
  <2>2. CASE p.status # "ready"
    <3>1. SameUpload(m, p) /\ m.status # "ready"
      BY <1>3, <1>11, <2>2 DEF SameUpload
    <3>2. SameUpload(m1, p1)
      BY <1>9, <2>2, <3>1
    <3> QED
      BY <1>4, <1>11, <2>2, <3>1, <3>2
  <2> QED
    BY <2>1, <2>2
<1>12. tallies'
  BY <1>4, <1>11
<1> QED
  BY <1>3, <1>4, <1>10, <1>11, <1>12, WriteKeeps

LEMMA DeleteSourceKeeps ==
  ASSUME StatementsInv, NEW i \in Uploads, DeleteUploadSource(i)
  PROVE  StatementsInv'
<1>1. PICK m, p : m = staged[i] /\ p = filed[i]
  OBVIOUS
<1>2. PICK m1, p1 : m1 = Unsourced(m) /\ p1 = Unsourced(p)
  OBVIOUS
<1>3. SameFile(m, p) /\ (i \notin unlike => SameUpload(m, p)) /\ unlike \subseteq unlike'
  BY <1>1 DEF StatementsInv, DeleteUploadSource
<1>4. /\ staged' = [staged EXCEPT ![i] = m1] /\ filed' = [filed EXCEPT ![i] = p1]
      /\ tallies' = (i \notin unlike => (m.status # "deleted") = TRUE)
      /\ p.source /\ (p.stale => i \in unlike')
  BY <1>1, <1>2 DEF DeleteUploadSource, Writes, Is, Sources
<1>5. /\ IsUpload(m1) /\ m1.hash = m.hash /\ m1.status = m.status /\ m1.tries = m.tries /\ m1.rows = m.rows
      /\ m1.counts = m.counts /\ m1.audit = m.audit \cup {"source_deleted"} /\ m1.stale = m.stale
      /\ m1.source = FALSE /\ m1.over = FALSE
  BY <1>2, <1>3 DEF SameFile, IsUpload, UploadFields, Unsourced, Logged
<1>6. /\ IsUpload(p1) /\ p1.hash = p.hash /\ p1.status = p.status /\ p1.tries = p.tries /\ p1.rows = p.rows
      /\ p1.counts = p.counts /\ p1.audit = p.audit \cup {"source_deleted"} /\ p1.stale = p.stale
      /\ p1.source = FALSE /\ p1.over = FALSE
  BY <1>2, <1>3 DEF SameFile, IsUpload, UploadFields, Unsourced, Logged
<1>7. SameFile(m1, p1)
  BY <1>3, <1>5, <1>6 DEF SameFile
<1>8. ASSUME i \notin unlike
      PROVE  m.status # "deleted" /\ p.status # "deleted" /\ SameUpload(m, p)
  BY <1>3, <1>4, <1>8 DEF SameUpload
<1>9. ASSUME i \notin unlike'
      PROVE  SameUpload(m1, p1)
  <2>1. SameUpload(m, p) /\ p.status # "deleted" /\ m.status # "deleted" /\ ~ p.stale
    BY <1>3, <1>4, <1>8, <1>9
  <2>2. SameFields(m1, p1)
    BY <1>5, <1>6, <2>1 DEF SameUpload, SameFields
  <2>3. /\ m1.status = p1.status /\ m1.tries = p1.tries /\ p1.stale # TRUE
        /\ p1.status = "queued" => p1.tries = 0
        /\ p1.status \in {"queued", "processing"} => p1.rows = <<>>
        /\ p1.counts = Counted(p1.rows)
    BY <1>5, <1>6, <2>1 DEF SameUpload
  <2> QED
    BY <1>6, <2>2, <2>3 DEF SameUpload
<1>10. tallies'
  BY <1>4, <1>8
<1> QED
  BY <1>3, <1>4, <1>7, <1>9, <1>10, WriteKeeps

LEMMA DeleteKeeps ==
  ASSUME StatementsInv, NEW i \in Uploads, DeleteUpload(i)
  PROVE  StatementsInv'
<1>1. PICK m, p : m = staged[i] /\ p = filed[i]
  OBVIOUS
<1>2. PICK m1, p1 : m1 = MemDeletes(m) /\ p1 = PgDeletes(p)
  OBVIOUS
<1>3. SameFile(m, p) /\ (i \notin unlike => SameUpload(m, p)) /\ unlike' = unlike
  BY <1>1 DEF StatementsInv, DeleteUpload
<1>4. /\ staged' = [staged EXCEPT ![i] = m1] /\ filed' = [filed EXCEPT ![i] = p1]
      /\ tallies' = (i \notin unlike => (m.status = "deleted") = (p.status = "deleted"))
  BY <1>1, <1>2 DEF DeleteUpload, Writes, Is
<1>5. /\ IsUpload(m1) /\ m1.hash = m.hash /\ m1.status = "deleted" /\ m1.tries = m.tries
  BY <1>2, <1>3 DEF SameFile, IsUpload, UploadFields, MemDeletes, Logged
<1>6. /\ IsUpload(p1) /\ p1.hash = p.hash /\ p1.status = "deleted" /\ p1.tries = p.tries
      /\ p1.rows = p.rows /\ p1.counts = p.counts
      /\ p.status # "deleted" => p1.source = FALSE
      /\ p.status = "deleted" => p1 = p
  BY <1>2, <1>3 DEF SameFile, IsUpload, UploadFields, PgDeletes, Logged
<1>7. SameFile(m1, p1)
  BY <1>3, <1>5, <1>6 DEF SameFile
<1>8. ASSUME i \notin unlike
      PROVE  SameUpload(m1, p1) /\ tallies'
  <2>1. SameUpload(m, p) /\ m.status = p.status
    BY <1>3, <1>8 DEF SameUpload
  <2>2. p1.source = FALSE /\ m1.tries = p1.tries /\ p1.counts = Counted(p1.rows)
    BY <1>5, <1>6, <2>1 DEF SameUpload
  <2>3. SameUpload(m1, p1)
    BY <1>5, <1>6, <2>2 DEF SameUpload
  <2> QED
    BY <1>4, <2>1, <2>3
<1>9. tallies'
  BY <1>4, <1>8
<1> QED
  BY <1>3, <1>4, <1>7, <1>8, <1>9, WriteKeeps

LEMMA LeaseKeeps ==
  ASSUME StatementsInv, NEW i \in Uploads, LeaseLapses(i)
  PROVE  StatementsInv'
<1>1. PICK m, p : m = staged[i] /\ p = filed[i]
  OBVIOUS
<1>2. PICK m1, p1 : /\ m1 = [m EXCEPT !.stale = (m.status = "processing")]
                    /\ p1 = [p EXCEPT !.stale = (p.status = "processing")]
  OBVIOUS
<1>3. SameFile(m, p) /\ (i \notin unlike => SameUpload(m, p)) /\ unlike \subseteq unlike' /\ tallies
  BY <1>1 DEF StatementsInv, LeaseLapses
<1>4. /\ staged' = [staged EXCEPT ![i] = m1] /\ filed' = [filed EXCEPT ![i] = p1]
      /\ tallies' = tallies
      /\ ~ p.source => i \in unlike'
  BY <1>1, <1>2 DEF LeaseLapses, Is, Sources
<1>5. /\ IsUpload(m1) /\ m1.hash = m.hash /\ m1.status = m.status /\ m1.tries = m.tries /\ m1.rows = m.rows
      /\ m1.counts = m.counts /\ m1.audit = m.audit /\ m1.source = m.source /\ m1.over = m.over
      /\ m1.stale = (m.status = "processing")
  BY <1>2, <1>3 DEF SameFile, IsUpload, UploadFields
<1>6. /\ IsUpload(p1) /\ p1.hash = p.hash /\ p1.status = p.status /\ p1.tries = p.tries /\ p1.rows = p.rows
      /\ p1.counts = p.counts /\ p1.audit = p.audit /\ p1.source = p.source /\ p1.over = p.over
      /\ p1.stale = (p.status = "processing")
  BY <1>2, <1>3 DEF SameFile, IsUpload, UploadFields
<1>7. SameFile(m1, p1)
  BY <1>3, <1>5, <1>6 DEF SameFile
<1>8. ASSUME i \notin unlike'
      PROVE  SameUpload(m1, p1)
  <2>1. SameUpload(m, p) /\ p.source = TRUE
    BY <1>3, <1>4, <1>8 DEF SameFile, IsUpload
  <2>2. p.status # "deleted" => SameFields(m1, p1)
    BY <1>5, <1>6, <2>1 DEF SameUpload, SameFields
  <2>3. /\ m1.status = p1.status /\ m1.tries = p1.tries /\ p1.source = TRUE
        /\ p1.status # "deleted"
        /\ p1.status = "queued" => p1.tries = 0
        /\ p1.status \in {"queued", "processing"} => p1.rows = <<>>
        /\ p1.counts = Counted(p1.rows)
    BY <1>5, <1>6, <2>1 DEF SameUpload
  <2> QED
    BY <1>6, <2>2, <2>3 DEF SameUpload
<1> QED
  BY <1>3, <1>4, <1>7, <1>8, WriteKeeps

LEMMA RetentionKeeps ==
  ASSUME StatementsInv, NEW i \in Uploads, RetentionEnds(i)
  PROVE  StatementsInv'
<1>1. PICK m, p : m = staged[i] /\ p = filed[i]
  OBVIOUS
<1>2. PICK m1, p1 : m1 = [m EXCEPT !.over = @ \/ m.source] /\ p1 = [p EXCEPT !.over = @ \/ p.source]
  OBVIOUS
<1>3. SameFile(m, p) /\ (i \notin unlike => SameUpload(m, p)) /\ unlike' = unlike /\ tallies
  BY <1>1 DEF StatementsInv, RetentionEnds
<1>4. staged' = [staged EXCEPT ![i] = m1] /\ filed' = [filed EXCEPT ![i] = p1] /\ tallies' = tallies
  BY <1>1, <1>2 DEF RetentionEnds
<1>5. /\ IsUpload(m1) /\ m1.hash = m.hash /\ m1.status = m.status /\ m1.tries = m.tries /\ m1.rows = m.rows
      /\ m1.counts = m.counts /\ m1.audit = m.audit /\ m1.source = m.source /\ m1.stale = m.stale
      /\ m1.over = (m.over \/ m.source)
  BY <1>2, <1>3 DEF SameFile, IsUpload, UploadFields
<1>6. /\ IsUpload(p1) /\ p1.hash = p.hash /\ p1.status = p.status /\ p1.tries = p.tries /\ p1.rows = p.rows
      /\ p1.counts = p.counts /\ p1.audit = p.audit /\ p1.source = p.source /\ p1.stale = p.stale
      /\ p1.over = (p.over \/ p.source)
  BY <1>2, <1>3 DEF SameFile, IsUpload, UploadFields
<1>7. SameFile(m1, p1)
  BY <1>3, <1>5, <1>6 DEF SameFile
<1>8. ASSUME i \notin unlike
      PROVE  SameUpload(m1, p1)
  <2>1. SameUpload(m, p)
    BY <1>3, <1>8
  <2>2. m.status # "deleted" => SameFields(m1, p1)
    BY <1>5, <1>6, <2>1 DEF SameUpload, SameFields
  <2> QED
    BY <1>5, <1>6, <2>1, <2>2 DEF SameUpload
<1> QED
  BY <1>3, <1>4, <1>7, <1>8, WriteKeeps
-----------------------------------------------------------------------------
(* Claims *)

\* What the two claims choose from.
MemQueue(db) ==
    ({i \in Sources(db) \ Overdue(db) : Is(db, i, "queued")} \cup Stalled(db)) \ MemGivesUp(db)
PgQueue(db) ==
    {i \in Sources(db) \ Overdue(db) : db[i].tries < MaxTries /\ (Is(db, i, "queued") \/ i \in Stalled(db))}

\* A claim of as many as there are takes them all.
LEMMA AllOfThem ==
  ASSUME NEW S \in SUBSET Uploads, NEW n, n = Cardinality(Uploads)
  PROVE  FirstOf(S, n) = S
<1>1. ASSUME NEW i \in S
      PROVE  Cardinality({j \in S : j < i}) < n
  <2> DEFINE before == {j \in S : j < i}
  <2>1. IsFiniteSet(Uploads) /\ i \in Uploads /\ i \in Nat
    BY StatementStoresAssumption
  <2>2. before \subseteq Uploads \ {i}
    <3>1. ~ (i < i)
      BY <2>1
    <3> QED
      BY <3>1
  <2>3. IsFiniteSet(Uploads \ {i}) /\ Cardinality(Uploads \ {i}) = Cardinality(Uploads) - 1
        /\ Cardinality(Uploads) \in Nat /\ Cardinality(Uploads \ {i}) \in Nat
    BY <2>1, FS_RemoveElement, FS_CardinalityType
  <2> HIDE DEF before
  <2>4. Cardinality(before) \in Nat /\ Cardinality(before) <= Cardinality(Uploads \ {i})
    BY <2>2, <2>3, FS_Subset, FS_CardinalityType
  <2>5. Cardinality(before) < n
    BY <2>3, <2>4
  <2> QED
    BY <2>5 DEF before
<1> QED
  BY <1>1 DEF FirstOf

\* An import of which both hold the same is claimed, given up and destroyed by both or by neither.
LEMMA ClaimsAlike ==
  ASSUME StatementsInv, NEW i \in Uploads \ unlike
  PROVE  /\ filed[i].status # "deleted" => (i \in Overdue(staged) <=> i \in Overdue(filed))
         /\ filed[i].status = "deleted" => i \notin Overdue(filed)
         /\ i \in MemGivesUp(staged) <=> i \in PgGivesUp(filed)
         /\ i \in MemQueue(staged) <=> i \in PgQueue(filed)
         /\ i \in PgGivesUp(filed) \/ i \in PgQueue(filed) => filed[i].status \in {"queued", "processing"}
<1>1. PICK m, p : m = staged[i] /\ p = filed[i]
  OBVIOUS
<1>2. SameFile(m, p) /\ SameUpload(m, p)
  BY <1>1 DEF StatementsInv
<1>3. /\ i \in Overdue(staged) <=> m.source /\ m.over
      /\ i \in Overdue(filed) <=> p.source /\ p.over
  BY <1>1 DEF Overdue, Sources
<1>4. /\ i \in Stalled(staged) <=> ~ (m.source /\ m.over) /\ m.status = "processing" /\ m.stale
      /\ i \in Stalled(filed) <=> ~ (p.source /\ p.over) /\ p.status = "processing" /\ p.stale
  BY <1>1, <1>3 DEF Stalled, Is
<1>5. /\ i \in MemGivesUp(staged) <=> i \in Stalled(staged) /\ m.tries >= MaxTries
      /\ i \in PgGivesUp(filed) <=> i \in Stalled(filed) /\ p.source /\ p.tries >= MaxTries
  BY <1>1 DEF MemGivesUp, PgGivesUp, Stalled, Sources
<1>6. /\ i \in MemQueue(staged)
         <=> /\ (m.source /\ ~ m.over /\ m.status = "queued") \/ i \in Stalled(staged)
             /\ i \notin MemGivesUp(staged)
      /\ i \in PgQueue(filed)
         <=> /\ p.source /\ ~ p.over /\ p.tries < MaxTries
             /\ p.status = "queued" \/ i \in Stalled(filed)
  BY <1>1, <1>3 DEF MemQueue, PgQueue, Sources, Is
<1>7. m.tries \in Nat /\ p.tries = m.tries /\ MaxTries \in Nat \ {0} /\ m.status = p.status
  BY <1>2, StatementStoresAssumption DEF SameFile, IsUpload, SameUpload
<1>8. CASE p.status = "deleted"
  <2>1. p.source = FALSE
    BY <1>2, <1>8 DEF SameUpload
  <2> QED
    BY <1>1, <1>3, <1>4, <1>5, <1>6, <1>7, <1>8, <2>1
<1>9. CASE p.status # "deleted"
  <2>1. m.source = p.source /\ m.over = p.over /\ m.stale = p.stale
    BY <1>2, <1>7, <1>9 DEF SameUpload, SameFields
  <2>2. /\ p.status = "queued" => p.tries = 0
        /\ p.status = "processing" /\ p.stale = TRUE => p.source = TRUE
    BY <1>2 DEF SameUpload
  <2>3. p.stale \in BOOLEAN /\ p.source \in BOOLEAN /\ p.over \in BOOLEAN
    BY <1>2 DEF SameFile, IsUpload
  <2>4. i \in Overdue(staged) <=> i \in Overdue(filed)
    BY <1>3, <2>1
  <2>5. i \in Stalled(staged) <=> i \in Stalled(filed)
    BY <1>4, <1>7, <2>1
  <2>6. i \in Stalled(filed) => p.source /\ ~ p.over /\ p.status = "processing"
    BY <1>4, <2>2, <2>3
  <2>7. i \in MemGivesUp(staged) <=> i \in PgGivesUp(filed)
    BY <1>5, <1>7, <2>5, <2>6
  <2>8. i \in MemQueue(staged) <=> i \in PgQueue(filed)
    <3>1. CASE i \in Stalled(filed)
      BY <1>5, <1>6, <1>7, <2>5, <2>6, <3>1
    <3>2. CASE i \notin Stalled(filed)
      BY <1>5, <1>6, <1>7, <2>1, <2>2, <2>5, <3>2
    <3> QED
      BY <3>1, <3>2
  <2>9. i \in PgGivesUp(filed) \/ i \in PgQueue(filed) => p.status \in {"queued", "processing"}
    BY <1>5, <1>6, <2>6
  <2> QED
    BY <1>1, <1>9, <2>4, <2>7, <2>8, <2>9
<1> QED
  BY <1>8, <1>9

\* Both claims take the same, of what both hold.
LEMMA TakesAlike ==
  ASSUME StatementsInv, NEW n \in Uploads, unlike # {} => n = Cardinality(Uploads),
         NEW i \in Uploads \ unlike
  PROVE  i \in MemTakes(staged, n) <=> i \in PgTakes(filed, n)
<1>1. MemTakes(staged, n) = FirstOf(MemQueue(staged), n) /\ PgTakes(filed, n) = FirstOf(PgQueue(filed), n)
  BY DEF MemTakes, PgTakes, MemQueue, PgQueue
<1>2. MemQueue(staged) \subseteq Uploads /\ PgQueue(filed) \subseteq Uploads
  BY DEF MemQueue, PgQueue, Sources, Stalled
<1>3. CASE unlike = {}
  <2>1. \A j \in Uploads : j \in MemQueue(staged) <=> j \in PgQueue(filed)
    BY <1>3, ClaimsAlike
  <2>2. MemQueue(staged) = PgQueue(filed)
    BY <1>2, <2>1
  <2> QED
    BY <1>1, <2>2
<1>4. CASE unlike # {}
  <2>1. MemTakes(staged, n) = MemQueue(staged) /\ PgTakes(filed, n) = PgQueue(filed)
    BY <1>1, <1>2, <1>4, AllOfThem
  <2> QED
    BY <2>1, ClaimsAlike
<1> QED
  BY <1>3, <1>4

\* What the claim makes of one import.
AfterClaimOf(s, overdue, gone, taken) ==
    IF overdue THEN Expired(s) ELSE IF gone THEN Exhausted(s) ELSE IF taken THEN Claimed(s) ELSE s

LEMMA ClaimedFile ==
  ASSUME NEW s, IsUpload(s), NEW overdue, NEW gone, NEW taken
  PROVE  IsUpload(AfterClaimOf(s, overdue, gone, taken))
         /\ AfterClaimOf(s, overdue, gone, taken).hash = s.hash
<1>1. IsUpload(Expired(s)) /\ Expired(s).hash = s.hash
  BY DEF IsUpload, UploadFields, Expired, Logged
<1>2. IsUpload(Exhausted(s)) /\ Exhausted(s).hash = s.hash
  BY DEF IsUpload, UploadFields, Exhausted, Logged
<1>3. IsUpload(Claimed(s)) /\ Claimed(s).hash = s.hash
  BY DEF IsUpload, UploadFields, Claimed
<1> QED
  BY <1>1, <1>2, <1>3 DEF AfterClaimOf

\* Of an import both hold the same of, the claim makes the same.
LEMMA ClaimedAlike ==
  ASSUME NEW m, NEW p, SameFile(m, p), SameUpload(m, p),
         NEW overdueM, NEW overdueP, NEW gone \in BOOLEAN, NEW taken \in BOOLEAN,
         overdueM \in BOOLEAN, overdueP \in BOOLEAN,
         p.status # "deleted" => overdueM = overdueP,
         p.status = "deleted" => ~ overdueP /\ ~ gone /\ ~ taken,
         taken => p.status \in {"queued", "processing"}
  PROVE  SameUpload(AfterClaimOf(m, overdueM, gone, taken), AfterClaimOf(p, overdueP, gone, taken))
<1>1. /\ IsUpload(m) /\ IsUpload(p) /\ m.status = p.status /\ m.tries = p.tries
      /\ p.counts = Counted(p.rows)
  BY DEF SameFile, SameUpload
<1>2. CASE p.status = "deleted"
  <2>1. AfterClaimOf(p, overdueP, gone, taken) = p /\ ~ gone /\ ~ taken
    BY <1>2 DEF AfterClaimOf
  <2>2. CASE overdueM
    <3>1. AfterClaimOf(m, overdueM, gone, taken) = Expired(m)
      BY <2>2 DEF AfterClaimOf
    <3>2. Expired(m).status = "deleted" /\ Expired(m).tries = p.tries
      BY <1>1, <1>2 DEF Expired, Logged, IsUpload, UploadFields
    <3> HIDE DEF AfterClaimOf
    <3> QED
      BY <1>2, <2>1, <3>1, <3>2 DEF SameUpload
  <2>3. CASE ~ overdueM
    <3>1. AfterClaimOf(m, overdueM, gone, taken) = m
      BY <2>1, <2>3 DEF AfterClaimOf
    <3> QED
      BY <2>1, <3>1
  <2> QED
    BY <2>2, <2>3
<1>3. CASE p.status # "deleted"
  <2>1. SameFields(m, p) /\ overdueM = overdueP
    BY <1>1, <1>3 DEF SameUpload
  <2>2. CASE overdueP
    <3>1. /\ Expired(m).rows = m.rows /\ Expired(m).counts = m.counts /\ Expired(m).tries = m.tries
          /\ Expired(m).audit = m.audit \cup {"source_deleted"} /\ Expired(m).source = FALSE
          /\ Expired(m).over = FALSE /\ Expired(m).stale = FALSE
          /\ Expired(m).status = IF m.status \in {"queued", "processing"} THEN "failed" ELSE m.status
      BY <1>1 DEF Expired, Logged, IsUpload, UploadFields
    <3>2. /\ Expired(p).rows = p.rows /\ Expired(p).counts = p.counts /\ Expired(p).tries = p.tries
          /\ Expired(p).audit = p.audit \cup {"source_deleted"} /\ Expired(p).source = FALSE
          /\ Expired(p).over = FALSE /\ Expired(p).stale = FALSE
          /\ Expired(p).status = IF p.status \in {"queued", "processing"} THEN "failed" ELSE p.status
      BY <1>1 DEF Expired, Logged, IsUpload, UploadFields
    <3>3. SameFields(Expired(m), Expired(p))
      BY <2>1, <3>1, <3>2 DEF SameFields
    <3>4. SameUpload(Expired(m), Expired(p))
      BY <1>1, <3>1, <3>2, <3>3 DEF SameUpload
    <3> QED
      BY <2>1, <2>2, <3>4 DEF AfterClaimOf
  <2>3. CASE ~ overdueP /\ gone
    <3>1. /\ Exhausted(m).rows = m.rows /\ Exhausted(m).counts = m.counts /\ Exhausted(m).tries = m.tries
          /\ Exhausted(m).audit = m.audit \cup {"failed"} /\ Exhausted(m).source = FALSE
          /\ Exhausted(m).over = FALSE /\ Exhausted(m).stale = FALSE /\ Exhausted(m).status = "failed"
      BY <1>1 DEF Exhausted, Logged, IsUpload, UploadFields
    <3>2. /\ Exhausted(p).rows = p.rows /\ Exhausted(p).counts = p.counts /\ Exhausted(p).tries = p.tries
          /\ Exhausted(p).audit = p.audit \cup {"failed"} /\ Exhausted(p).source = FALSE
          /\ Exhausted(p).over = FALSE /\ Exhausted(p).stale = FALSE /\ Exhausted(p).status = "failed"
      BY <1>1 DEF Exhausted, Logged, IsUpload, UploadFields
    <3>3. SameFields(Exhausted(m), Exhausted(p))
      BY <2>1, <3>1, <3>2 DEF SameFields
    <3>4. SameUpload(Exhausted(m), Exhausted(p))
      BY <1>1, <3>1, <3>2, <3>3 DEF SameUpload
    <3> QED
      BY <2>1, <2>3, <3>4 DEF AfterClaimOf
  <2>4. CASE ~ overdueP /\ ~ gone /\ taken
    <3>1. /\ Claimed(m).rows = m.rows /\ Claimed(m).counts = m.counts /\ Claimed(m).tries = m.tries + 1
          /\ Claimed(m).audit = m.audit /\ Claimed(m).source = m.source
          /\ Claimed(m).over = m.over /\ Claimed(m).stale = FALSE /\ Claimed(m).status = "processing"
      BY <1>1 DEF Claimed, IsUpload, UploadFields
    <3>2. /\ Claimed(p).rows = p.rows /\ Claimed(p).counts = p.counts /\ Claimed(p).tries = p.tries + 1
          /\ Claimed(p).audit = p.audit /\ Claimed(p).source = p.source
          /\ Claimed(p).over = p.over /\ Claimed(p).stale = FALSE /\ Claimed(p).status = "processing"
      BY <1>1 DEF Claimed, IsUpload, UploadFields
    <3>3. SameFields(Claimed(m), Claimed(p))
      BY <2>1, <3>1, <3>2 DEF SameFields
    <3>4. p.rows = <<>>
      BY <2>4 DEF SameUpload
    <3>5. SameUpload(Claimed(m), Claimed(p))
      BY <1>1, <3>1, <3>2, <3>3, <3>4 DEF SameUpload
    <3> QED
      BY <2>1, <2>4, <3>5 DEF AfterClaimOf
  <2>5. CASE ~ overdueP /\ ~ gone /\ ~ taken
    <3>1. AfterClaimOf(m, overdueM, gone, taken) = m /\ AfterClaimOf(p, overdueP, gone, taken) = p
      BY <2>1, <2>5 DEF AfterClaimOf
    <3> QED
      BY <3>1
  <2> QED
    BY <2>2, <2>3, <2>4, <2>5
<1> QED
  BY <1>2, <1>3

LEMMA ClaimsKeep ==
  ASSUME StatementsInv, NEW n \in Uploads, Claims(n)
  PROVE  StatementsInv'
<1>1. PICK goneM, goneP, takenM, takenP :
         /\ goneM = MemGivesUp(staged) /\ goneP = PgGivesUp(filed)
         /\ takenM = MemTakes(staged, n) /\ takenP = PgTakes(filed, n)
  OBVIOUS
<1>2. PICK overM, overP : overM = Overdue(staged) /\ overP = Overdue(filed)
  OBVIOUS
<1>3. /\ staged' = [i \in Uploads |-> AfterClaimOf(staged[i], i \in overM, i \in goneM, i \in takenM)]
      /\ filed' = [i \in Uploads |-> AfterClaimOf(filed[i], i \in overP, i \in goneP, i \in takenP)]
      /\ tallies' = (takenM \ unlike = takenP \ unlike) /\ unlike' = unlike
      /\ unlike # {} => n = Cardinality(Uploads)
  BY <1>1, <1>2 DEF Claims, AfterClaim, AfterClaimOf
<1>4. takenM \subseteq Uploads /\ takenP \subseteq Uploads
  BY <1>1 DEF MemTakes, PgTakes, FirstOf, Sources, Stalled
<1>5. ASSUME NEW i \in Uploads \ unlike
      PROVE  /\ filed[i].status # "deleted" => (i \in overM <=> i \in overP)
             /\ filed[i].status = "deleted" => i \notin overP /\ i \notin goneP /\ i \notin takenP
             /\ i \in goneM <=> i \in goneP
             /\ i \in takenM <=> i \in takenP
             /\ i \in takenP => filed[i].status \in {"queued", "processing"}
  <2>1. i \in takenP => i \in PgQueue(filed)
    BY <1>1 DEF PgTakes, PgQueue, FirstOf
  <2>2. i \in takenM <=> i \in takenP
    BY <1>1, <1>3, TakesAlike
  <2> QED
    BY <1>1, <1>2, <2>1, <2>2, ClaimsAlike
<1>6. tallies'
  <2>1. \A i \in Uploads \ unlike : i \in takenM <=> i \in takenP
    BY <1>5
  <2>2. takenM \ unlike = takenP \ unlike
    BY <1>4, <2>1
  <2> QED
    BY <1>3, <2>2
<1>7. DOMAIN staged' = Uploads /\ DOMAIN filed' = Uploads
  BY <1>3
<1>8. ASSUME NEW i \in Uploads
      PROVE  SameFile(staged'[i], filed'[i])
  <2>1. /\ staged'[i] = AfterClaimOf(staged[i], i \in overM, i \in goneM, i \in takenM)
        /\ filed'[i] = AfterClaimOf(filed[i], i \in overP, i \in goneP, i \in takenP)
    BY <1>3
  <2>2. IsUpload(staged[i]) /\ IsUpload(filed[i]) /\ staged[i].hash = filed[i].hash
    BY DEF StatementsInv, SameFile
  <2>3. IsUpload(staged'[i]) /\ staged'[i].hash = staged[i].hash
    BY <2>1, <2>2, ClaimedFile
  <2>4. IsUpload(filed'[i]) /\ filed'[i].hash = filed[i].hash
    BY <2>1, <2>2, ClaimedFile
  <2> QED
    BY <2>2, <2>3, <2>4 DEF SameFile
<1>9. ASSUME NEW i \in Uploads \ unlike
      PROVE  SameUpload(staged'[i], filed'[i])
  <2> DEFINE gone == i \in goneP
             taken == i \in takenP
             overdueM == i \in overM
             overdueP == i \in overP
  <2>1. gone \in BOOLEAN /\ taken \in BOOLEAN /\ overdueM \in BOOLEAN /\ overdueP \in BOOLEAN
    OBVIOUS
  <2>2. gone = (i \in goneM) /\ taken = (i \in takenM)
    BY <1>5
  <2>3. /\ staged'[i] = AfterClaimOf(staged[i], overdueM, gone, taken)
        /\ filed'[i] = AfterClaimOf(filed[i], overdueP, gone, taken)
    BY <1>3, <2>2
  <2>4. SameFile(staged[i], filed[i]) /\ SameUpload(staged[i], filed[i])
    BY DEF StatementsInv
  <2>5. /\ filed[i].status # "deleted" => overdueM = overdueP
        /\ filed[i].status = "deleted" => ~ overdueP /\ ~ gone /\ ~ taken
        /\ taken => filed[i].status \in {"queued", "processing"}
    BY <1>5
  <2> HIDE DEF gone, taken, overdueM, overdueP
  <2> QED
    BY <2>1, <2>3, <2>4, <2>5, ClaimedAlike
<1> QED
  BY <1>3, <1>6, <1>7, <1>8, <1>9 DEF StatementsInv
-----------------------------------------------------------------------------
(* Uploads, and all of it together *)

LEMMA NothingCounted == Counted(<<>>) = <<0, 0, 0, 0>>
<1>1. \A d : {r \in DOMAIN <<>> : <<>>[r].decision = d} = {}
  OBVIOUS
<1>2. \A d : Number(<<>>, d) = 0
  BY <1>1, FS_EmptySet DEF Number
<1> QED
  BY <1>2 DEF Counted

LEMMA NewUploads ==
  ASSUME NEW s, s = NoUpload \/ \E h \in Hashes : s = Enqueued(h) \/ s = Created(h)
  PROVE  SameFile(s, s) /\ SameUpload(s, s)
<1>1. CASE s = NoUpload
  BY <1>1, NothingCounted DEF NoUpload, NoHash, SameFile, SameUpload, SameFields, IsUpload, UploadFields
<1>2. ASSUME NEW h, s = Enqueued(h)
      PROVE  SameFile(s, s) /\ SameUpload(s, s)
  <2>1. /\ IsUpload(s) /\ s.tries = 0 /\ s.stale = FALSE /\ s.rows = <<>> /\ s.status = "queued"
        /\ s.counts = <<0, 0, 0, 0>>
    BY <1>2 DEF Enqueued, NoUpload, NoHash, IsUpload, UploadFields
  <2> QED
    BY <2>1, NothingCounted DEF SameFile, SameUpload, SameFields
<1>3. ASSUME NEW h, s = Created(h)
      PROVE  SameFile(s, s) /\ SameUpload(s, s)
  <2>1. /\ IsUpload(s) /\ s.status = "ready" /\ s.counts = Counted(s.rows)
    BY <1>3 DEF Created, WithRows, Enqueued, NoUpload, NoHash, IsUpload, UploadFields
  <2> QED
    BY <2>1 DEF SameFile, SameUpload, SameFields
<1> QED
  BY <1>1, <1>2, <1>3

LEMMA UploadKeeps ==
  ASSUME StatementsInv, NEW i \in Uploads, NEW h \in Hashes, NEW queued \in BOOLEAN, Upload(i, h, queued)
  PROVE  StatementsInv'
<1>1. PICK s : s = IF queued THEN Enqueued(h) ELSE Created(h)
  OBVIOUS
<1>2. PICK m, p : m = MemRefusesUpload(staged, h, queued) /\ p = PgRefusesUpload(filed, h, queued)
  OBVIOUS
<1>3. PICK m1, p1 : /\ m1 = IF m = "created" THEN s ELSE NoUpload
                    /\ p1 = IF p = "created" THEN s ELSE NoUpload
  OBVIOUS
<1>4. /\ staged' = [staged EXCEPT ![i] = m1] /\ filed' = [filed EXCEPT ![i] = p1]
      /\ tallies' = (i \notin unlike => m = p) /\ unlike' = unlike
      /\ Sources(staged) = Sources(filed) /\ Pending(staged) \subseteq Sources(staged)
      /\ \A j \in unlike : staged[j].status = filed[j].status
  BY <1>1, <1>2, <1>3 DEF Upload, Writes
<1>5. \A j \in Uploads : staged[j].status = filed[j].status /\ staged[j].hash = filed[j].hash
  BY <1>4 DEF StatementsInv, SameFile, SameUpload
<1>6. Pending(staged) = Pending(filed) /\ Pending(filed) \cap Sources(filed) = Pending(staged)
  BY <1>4, <1>5 DEF Pending
<1>7. (\E j \in Uploads : staged[j].hash = h /\ staged[j].status \notin {"failed", "deleted"})
      <=> (\E j \in Uploads : filed[j].hash = h /\ ~ (filed[j].status \in {"failed", "deleted"}))
  BY <1>5
<1>8. m = p
  BY <1>2, <1>4, <1>6, <1>7 DEF MemRefusesUpload, PgRefusesUpload
<1>9. m1 = p1 /\ (m1 = NoUpload \/ m1 = Enqueued(h) \/ m1 = Created(h))
  BY <1>1, <1>3, <1>8
<1>10. SameFile(m1, p1) /\ SameUpload(m1, p1)
  BY <1>9, NewUploads
<1>11. tallies'
  BY <1>4, <1>8
<1> QED
  BY <1>4, <1>10, <1>11, WriteKeeps

LEMMA NothingHeld ==
  SameFile(NoUpload, NoUpload) /\ SameUpload(NoUpload, NoUpload)
BY NewUploads

LEMMA StatementsStart == StatementStoresInit => StatementsInv
BY NothingHeld DEF StatementStoresInit, StatementsInv

LEMMA StatementsStep ==
  ASSUME StatementsInv, [StatementStoresNext]_statementStoresVars
  PROVE  StatementsInv'
<1>1. CASE UNCHANGED statementStoresVars
  BY <1>1 DEF statementStoresVars, StatementsInv, SameFile, SameUpload, SameFields, IsUpload
<1>2. ASSUME NEW i \in Uploads, NEW h \in Hashes, NEW queued \in BOOLEAN, Upload(i, h, queued)
      PROVE  StatementsInv'
  BY <1>2, UploadKeeps
<1>3. ASSUME NEW i \in Uploads, LeaseLapses(i)
      PROVE  StatementsInv'
  BY <1>3, LeaseKeeps
<1>4. ASSUME NEW i \in Uploads, RetentionEnds(i)
      PROVE  StatementsInv'
  BY <1>4, RetentionKeeps
<1>5. ASSUME NEW i \in Uploads, CompleteProcessing(i)
      PROVE  StatementsInv'
  BY <1>5, CompleteKeeps
<1>6. ASSUME NEW i \in Uploads, FailProcessing(i)
      PROVE  StatementsInv'
  BY <1>6, FailKeeps
<1>7. ASSUME NEW i \in Uploads,
             \/ \E r \in DOMAIN filed[i].rows : SplitUploaded(i, r)
                                                \/ \E amount \in 1..2 : UpdateRow(i, r, amount)
             \/ \E R \in SUBSET DOMAIN filed[i].rows :
                   MergeUploaded(i, R) \/ \E d \in RowDecisions : UpdateRowsDecision(i, R, d)
      PROVE  StatementsInv'
  BY <1>7, ReviewsKeep
<1>8. ASSUME NEW i \in Uploads, FinalizeUpload(i)
      PROVE  StatementsInv'
  BY <1>8, FinalizeKeeps
<1>9. ASSUME NEW i \in Uploads, DeleteUploadSource(i)
      PROVE  StatementsInv'
  BY <1>9, DeleteSourceKeeps
<1>10. ASSUME NEW i \in Uploads, DeleteUpload(i)
       PROVE  StatementsInv'
  BY <1>10, DeleteKeeps
<1>11. ASSUME NEW n \in Uploads, Claims(n)
       PROVE  StatementsInv'
  BY <1>11, ClaimsKeep
<1>12. ASSUME PurgeUploads
       PROVE  StatementsInv'
  <2>1. /\ staged' = [i \in Uploads |-> NoUpload] /\ filed' = [i \in Uploads |-> NoUpload]
        /\ tallies' = tallies
    BY <1>12 DEF PurgeUploads
  <2> QED
    BY <2>1, NothingHeld DEF StatementsInv
<1> QED
  BY <1>1, <1>2, <1>3, <1>4, <1>5, <1>6, <1>7, <1>8, <1>9, <1>10, <1>11, <1>12 DEF StatementStoresNext

LEMMA StatementsShown == StatementsInv => SameStatements
<1>1. SUFFICES ASSUME StatementsInv
               PROVE  SameStatements
  OBVIOUS
<1>2. ASSUME NEW i \in Uploads \ unlike
      PROVE  Shown(staged[i]) = Shown(filed[i]) /\ filed[i].counts = Counted(filed[i].rows)
  <2>1. SameUpload(staged[i], filed[i])
    BY <1>1 DEF StatementsInv
  <2> QED
    BY <2>1 DEF SameUpload, SameFields, Shown
<1> QED
  BY <1>1, <1>2 DEF SameStatements, StatementsInv

\* Both adapters answer every call about an uploaded statement alike and show the same of it, whatever
\* the workers, their claims, the reviews and the deletions do in between, and the counts are those of its
\* rows (except an import whose source was deleted while its worker was dead).
THEOREM StatementsAreTheSame == StatementStoresSpec => []SameStatements
<1>1. StatementsInv /\ [StatementStoresNext]_statementStoresVars => StatementsInv'
  BY StatementsStep
<1> QED
  BY <1>1, StatementsStart, StatementsShown, PTL DEF StatementStoresSpec

-----------------------------------------------------------------------------
(* AccountStores: what the two adapters hold, book by book *)

UserRow == [id : Holders, user : Holders, hash : Nat, verified : Nat, status : {"active", "pending"}, due : Nat]
SessionRow == [id : Marks, user : Holders, family : Marks, expires : Nat, revoked : Nat,
               reason : {"none", "rotated", "logout", "admin"}]
ActionRow == [id : Marks, user : Holders, kind : {"verify_email", "reset_password"}, expires : Nat, used : Nat]
FactorRow == [id : Holders, user : Holders, enabled : Nat, step : Nat]
CodeRow == [user : Holders, id : Marks, used : Nat]
ChallengeRow == [id : Marks, user : Holders, expires : Nat, used : Nat, failed : Nat]
CeremonyRow == [id : Marks, purpose : {"register", "login"}, user : Holders \cup {Nobody}, expires : Nat,
                used : Nat]
PasskeyRow == [id : Marks, user : Holders, counter : Nat]
CustomerRow == [user : Holders, id : Marks, plan : {"free", "pro"}]
LinkRow == [id : Marks, user : Holders, status : {"healthy", "syncing", "error", "revoked"}, since : Nat]
JobRow == [id : Marks, user : Holders, link : Marks, status : {"pending", "processing", "completed", "failed"},
           attempts : Nat, at : Nat, created : Nat, updated : Nat]

\* A map that holds under its field f every row of a table, and nothing else.
MapOf(f, m, s) ==
    /\ \A k \in DOMAIN m : m[k] \in s /\ m[k][f] = k
    /\ \A r \in s : r[f] \in DOMAIN m /\ m[r[f]] = r

\* Rows of one identifier are one row.
Identified(s) == \A r, q \in s : r.id = q.id => r = q

HoldersOf(users) == {u.id : u \in users}
Alive(user, holders) == user = Nobody \/ user \in holders

\* A user as the two adapters know it.
AlikeUsers(u, v) ==
    u.id = v.id /\ u.hash = v.hash /\ u.status = v.status /\ (u.verified = Never <=> v.verified = Never)
UsersSame(mu, mp, su) ==
    /\ su \subseteq UserRow /\ Identified(su) /\ \A u \in su : u.user = u.id
    /\ \A h \in DOMAIN mu : mu[h] \in UserRow /\ \E u \in su : u.id = h
    /\ \A u \in su : u.id \in DOMAIN mu /\ AlikeUsers(mu[u.id], u)
    /\ \A h \in DOMAIN mp : \E u \in su : u.id = h /\ u.status = "pending"
    /\ \A u \in su : u.status = "pending" => u.id \in DOMAIN mp /\ mp[u.id] = u.due

SessionsSame(m, s) == s \subseteq SessionRow /\ MapOf("id", m, s) /\ IsFiniteSet(s)

\* What a purge leaves of those who are gone, in memory.
ActionsSame(m, s, holders) ==
    /\ m \subseteq ActionRow /\ Identified(m)
    /\ s \subseteq m /\ \A r \in m : r \in s <=> Alive(r.user, holders)
CeremoniesSame(m, s, holders) ==
    /\ \A k \in DOMAIN m : /\ m[k] \in CeremonyRow /\ m[k].id = k
                           /\ m[k] \in s <=> Alive(m[k].user, holders)
    /\ \A r \in s : r.id \in DOMAIN m /\ r = m[r.id]

\* The codes of a factor that is enabled are the same; of one that is not there are none.
CodesSame(mc, sf, sc) ==
    /\ sc \subseteq CodeRow
    /\ \A f \in sf :
          /\ f.enabled = Never => \A c \in sc : c.user # f.user
          /\ f.enabled # Never => /\ f.user \in DOMAIN mc
                                  /\ \A c \in mc[f.user] : c \in sc /\ c.user = f.user
                                  /\ \A c \in sc : c.user = f.user => c \in mc[f.user]
                                  /\ Identified(mc[f.user])
FactorsSame(mf, mc, sf, sc) == sf \subseteq FactorRow /\ MapOf("user", mf, sf) /\ CodesSame(mc, sf, sc)

\* A challenge that is in memory is in PostgreSQL.
ChallengesSame(m, s) ==
    /\ s \subseteq ChallengeRow /\ Identified(s)
    /\ \A k \in DOMAIN m : m[k] \in s /\ m[k].id = k

\* A sync that has not ended began at the same time.
AlikeLinks(l, r) == l.id = r.id /\ l.user = r.user /\ l.status = r.status
Twins(l, r, now) == AlikeLinks(l, r) /\ (l.status = "syncing" => l.since = r.since /\ l.since <= now)
LinksSame(m, s, now) ==
    /\ m \subseteq LinkRow /\ s \subseteq LinkRow /\ Identified(m) /\ Identified(s)
    /\ \A l \in m : \E r \in s : r.id = l.id
    /\ \A r \in s : \E l \in m : Twins(l, r, now)

\* When a job was worked at last is the same while it is.
AlikeJobs(j, k) ==
    /\ j.id = k.id /\ j.user = k.user /\ j.link = k.link /\ j.status = k.status
    /\ j.attempts = k.attempts /\ j.at = k.at /\ j.created = k.created
    /\ j.status = "processing" => j.updated = k.updated
JobsSame(m, s) ==
    /\ s \subseteq JobRow /\ Identified(s)
    /\ \A k \in DOMAIN m : m[k] \in JobRow /\ m[k].id = k /\ \E r \in s : r.id = k
    /\ \A r \in s : r.id \in DOMAIN m /\ AlikeJobs(m[r.id], r)

\* All of it, as it is at an hour.
BooksSame(m, p, now) ==
    /\ UsersSame(m.users, m.pending, p.users)
    /\ SessionsSame(m.sessions, p.sessions)
    /\ m.events = p.events
    /\ ActionsSame(m.actions, p.actions, HoldersOf(p.users))
    /\ FactorsSame(m.factors, m.codes, p.factors, p.codes)
    /\ ChallengesSame(m.challenges, p.challenges)
    /\ CeremoniesSame(m.ceremonies, p.ceremonies, HoldersOf(p.users))
    /\ m.passkeys = p.passkeys /\ p.passkeys \subseteq PasskeyRow
    /\ p.customers \subseteq CustomerRow /\ MapOf("user", m.customers, p.customers)
    /\ m.seen = p.seen /\ \A c \in p.seen : c = [id |-> c.id, user |-> Nobody]
    /\ m.consents = p.consents
    /\ LinksSame(m.links, p.links, now)
    /\ JobsSame(m.jobs, p.jobs)

AccountBooksInv ==
    /\ DOMAIN maps = Books \cup MapBooks /\ DOMAIN sheets = Books
    /\ agree /\ hour \in Nat \ {0}
    /\ chapter = "users" => maps.actions = {} /\ DOMAIN maps.ceremonies = {}
    /\ BooksSame(maps, sheets, hour)

-----------------------------------------------------------------------------
(* AccountStores: maps and tables *)

LEMMA MapValues ==
  ASSUME NEW f, NEW m, NEW s, MapOf(f, m, s)
  PROVE  Values(m) = s
<1>1. ASSUME NEW r \in Values(m)  PROVE r \in s
  BY <1>1 DEF Values, MapOf
<1>2. ASSUME NEW r \in s  PROVE r \in Values(m)
  BY <1>2 DEF Values, MapOf
<1> QED
  BY <1>1, <1>2

\* A row under its key takes the place of the one that was there.
LEMMA MapPut ==
  ASSUME NEW f, NEW m, NEW s, MapOf(f, m, s), NEW r,
         NEW n, n = Put(m, r[f], r), NEW t, t = {q \in s : q[f] # r[f]} \cup {r}
  PROVE  MapOf(f, n, t)
<1>1. DOMAIN n = DOMAIN m \cup {r[f]} /\ n[r[f]] = r /\ \A k \in DOMAIN m : k # r[f] => n[k] = m[k]
  BY DEF Put
<1>2. ASSUME NEW k \in DOMAIN n  PROVE n[k] \in t /\ n[k][f] = k
  <2>1. CASE k = r[f]
    BY <1>1, <2>1
  <2>2. CASE k # r[f]
    BY <1>1, <1>2, <2>2 DEF MapOf
  <2> QED
    BY <2>1, <2>2
<1>3. ASSUME NEW q \in t  PROVE q[f] \in DOMAIN n /\ n[q[f]] = q
  <2>1. CASE q = r
    BY <1>1, <2>1
  <2>2. CASE q # r
    BY <1>1, <1>3, <2>2 DEF MapOf
  <2> QED
    BY <2>1, <2>2
<1> QED
  BY <1>2, <1>3 DEF MapOf

\* A row under a key that was free.
LEMMA MapAdd ==
  ASSUME NEW f, NEW m, NEW s, MapOf(f, m, s), NEW r, r[f] \notin DOMAIN m,
         NEW n, n = Put(m, r[f], r), NEW t, t = s \cup {r}
  PROVE  MapOf(f, n, t)
<1>1. s = {q \in s : q[f] # r[f]}
  BY DEF MapOf
<1>2. t = {q \in s : q[f] # r[f]} \cup {r}
  BY <1>1
<1> QED
  BY <1>2, MapPut

\* Rows that change and keep their key.
LEMMA MapTurn ==
  ASSUME NEW f, NEW m, NEW s, MapOf(f, m, s), NEW g, \A r \in s : g[r][f] = r[f],
         NEW n, DOMAIN n = DOMAIN m, \A k \in DOMAIN m : n[k] = g[m[k]],
         NEW t, t = {g[r] : r \in s}
  PROVE  MapOf(f, n, t)
<1>1. ASSUME NEW k \in DOMAIN n  PROVE n[k] \in t /\ n[k][f] = k
  BY <1>1 DEF MapOf
<1>2. ASSUME NEW q \in t  PROVE q[f] \in DOMAIN n /\ n[q[f]] = q
  <2>1. PICK r \in s : q = g[r]
    OBVIOUS
  <2>2. r[f] \in DOMAIN m /\ m[r[f]] = r /\ q[f] = r[f]
    BY <2>1 DEF MapOf
  <2> QED
    BY <2>1, <2>2
<1> QED
  BY <1>1, <1>2 DEF MapOf

\* Rows that are taken out of both.
LEMMA MapDrop ==
  ASSUME NEW f, NEW m, NEW s, MapOf(f, m, s), NEW t, t \subseteq s,
         NEW n, \A k : k \in DOMAIN n <=> k \in DOMAIN m /\ m[k] \in t, \A k \in DOMAIN n : n[k] = m[k]
  PROVE  MapOf(f, n, t)
<1>1. ASSUME NEW k \in DOMAIN n  PROVE n[k] \in t /\ n[k][f] = k
  BY <1>1 DEF MapOf
<1>2. ASSUME NEW q \in t  PROVE q[f] \in DOMAIN n /\ n[q[f]] = q
  <2>1. q[f] \in DOMAIN m /\ m[q[f]] = q
    BY <1>2 DEF MapOf
  <2> QED
    BY <1>2, <2>1
<1> QED
  BY <1>1, <1>2 DEF MapOf

\* What has a new identifier is in neither adapter.
LEMMA UnusedIsNew ==
  ASSUME NEW b, NEW i \in Unused(b)
  PROVE  /\ i \in Marks
         /\ \A r \in sheets[b] : r.id # i
         /\ b \in MapBooks => \A k \in DOMAIN maps[b] : maps[b][k].id # i
         /\ b \notin MapBooks => \A r \in maps[b] : r.id # i
<1>1. i \in Marks /\ i \notin Named(b)
  BY DEF Unused, Following
<1>2. \A r \in sheets[b] : r.id \in Named(b)
  BY DEF Named
<1>3. b \notin MapBooks => \A r \in maps[b] : r.id \in Named(b)
  BY DEF Named
<1>4. b \in MapBooks => \A k \in DOMAIN maps[b] : maps[b][k].id \in Named(b)
  BY DEF Named, Values
<1> QED
  BY <1>1, <1>2, <1>3, <1>4

-----------------------------------------------------------------------------
(* AccountStores: the frame *)

\* A call leaves the books that are not in S alone.
Only(db, new, S) == DOMAIN new = DOMAIN db /\ \A b \in DOMAIN db \ S : new[b] = db[b]

LEMMA FrameKeeps ==
  ASSUME AccountBooksInv, NEW m, NEW p, NEW S, Only(maps, m, S), Only(sheets, p, S),
         "users" \in S \/ "pending" \in S => UsersSame(m.users, m.pending, p.users),
         "sessions" \in S => SessionsSame(m.sessions, p.sessions),
         "events" \in S => m.events = p.events,
         "users" \in S \/ "actions" \in S => ActionsSame(m.actions, p.actions, HoldersOf(p.users)),
         "factors" \in S \/ "codes" \in S => FactorsSame(m.factors, m.codes, p.factors, p.codes),
         "challenges" \in S => ChallengesSame(m.challenges, p.challenges),
         "users" \in S \/ "ceremonies" \in S => CeremoniesSame(m.ceremonies, p.ceremonies, HoldersOf(p.users)),
         "passkeys" \in S => m.passkeys = p.passkeys /\ p.passkeys \subseteq PasskeyRow,
         "customers" \in S => p.customers \subseteq CustomerRow /\ MapOf("user", m.customers, p.customers),
         "seen" \in S => m.seen = p.seen /\ \A c \in p.seen : c = [id |-> c.id, user |-> Nobody],
         "consents" \in S => m.consents = p.consents,
         "links" \in S => LinksSame(m.links, p.links, hour),
         "jobs" \in S => JobsSame(m.jobs, p.jobs)
  PROVE  BooksSame(m, p, hour)
<1>1. /\ \A b \in Books \cup MapBooks : b \notin S => m[b] = maps[b]
      /\ \A b \in Books : b \notin S => p[b] = sheets[b]
  BY DEF Only, AccountBooksInv
<1>2. BooksSame(maps, sheets, hour)
  BY DEF AccountBooksInv
<1>3. UsersSame(m.users, m.pending, p.users)
  BY <1>1, <1>2 DEF BooksSame, Books, MapBooks
<1>4. SessionsSame(m.sessions, p.sessions)
  BY <1>1, <1>2 DEF BooksSame, Books, MapBooks
<1>5. m.events = p.events /\ m.consents = p.consents
  BY <1>1, <1>2 DEF BooksSame, Books, MapBooks
<1>6. ActionsSame(m.actions, p.actions, HoldersOf(p.users))
  BY <1>1, <1>2 DEF BooksSame, Books, MapBooks
<1>7. FactorsSame(m.factors, m.codes, p.factors, p.codes)
  BY <1>1, <1>2 DEF BooksSame, Books, MapBooks
<1>8. ChallengesSame(m.challenges, p.challenges)
  BY <1>1, <1>2 DEF BooksSame, Books, MapBooks
<1>9. CeremoniesSame(m.ceremonies, p.ceremonies, HoldersOf(p.users))
  BY <1>1, <1>2 DEF BooksSame, Books, MapBooks
<1>10. m.passkeys = p.passkeys /\ p.passkeys \subseteq PasskeyRow
  BY <1>1, <1>2 DEF BooksSame, Books, MapBooks
<1>11. p.customers \subseteq CustomerRow /\ MapOf("user", m.customers, p.customers)
  BY <1>1, <1>2 DEF BooksSame, Books, MapBooks
<1>12. m.seen = p.seen /\ \A c \in p.seen : c = [id |-> c.id, user |-> Nobody]
  BY <1>1, <1>2 DEF BooksSame, Books, MapBooks
<1>13. LinksSame(m.links, p.links, hour)
  BY <1>1, <1>2 DEF BooksSame, Books, MapBooks
<1>14. JobsSame(m.jobs, p.jobs)
  BY <1>1, <1>2 DEF BooksSame, Books, MapBooks
<1> QED
  BY <1>3, <1>4, <1>5, <1>6, <1>7, <1>8, <1>9, <1>10, <1>11, <1>12, <1>13, <1>14 DEF BooksSame

\* A call that both adapters answer alike.
LEMMA AnswersKeep ==
  ASSUME AccountBooksInv, NEW m, NEW p, NEW ma, NEW pa, CallTwo(m, p, ma, pa), ma = pa,
         DOMAIN m = DOMAIN maps, DOMAIN p = DOMAIN sheets, BooksSame(m, p, hour),
         chapter = "users" => m.actions = {} /\ DOMAIN m.ceremonies = {}
  PROVE  AccountBooksInv'
<1>1. maps' = m /\ sheets' = p /\ agree' = (ma = pa) /\ hour' = hour /\ chapter' = chapter
  BY DEF CallTwo
<1>2. agree'
  BY <1>1
<1>3. BooksSame(maps', sheets', hour')
  BY <1>1
<1> QED
  BY <1>1, <1>2, <1>3 DEF AccountBooksInv

\* A call that touches only what is in S.
LEMMA CallIn ==
  ASSUME AccountBooksInv, NEW m, NEW p, NEW ma, NEW pa, CallTwo(m, p, ma, pa), ma = pa,
         NEW S, Only(maps, m, S), Only(sheets, p, S), BooksSame(m, p, hour),
         chapter = "users" => "actions" \notin S /\ "ceremonies" \notin S
  PROVE  AccountBooksInv'
<1>1. DOMAIN m = DOMAIN maps /\ DOMAIN p = DOMAIN sheets
  BY DEF Only
<1>2. chapter = "users" => m.actions = {} /\ DOMAIN m.ceremonies = {}
  BY DEF Only, AccountBooksInv, Books, MapBooks
<1> QED
  BY <1>1, <1>2, AnswersKeep

\* As many keys as rows.
LEMMA KeysCount ==
  ASSUME NEW f, NEW m, NEW s, MapOf(f, m, s), IsFiniteSet(s), NEW t, t \subseteq s,
         NEW K, \A k : k \in K <=> k \in DOMAIN m /\ m[k] \in t
  PROVE  Cardinality(K) = Cardinality(t)
<1> DEFINE g == [r \in t |-> r[f]]
<1>1. IsFiniteSet(t)
  BY FS_Subset
<1>2. g \in Bijection(t, K)
  <2>1. \A r \in t : r[f] \in K /\ m[r[f]] = r
    BY DEF MapOf
  <2>2. \A k \in K : m[k] \in t /\ m[k][f] = k
    BY DEF MapOf
  <2>3. g \in [t -> K]
    BY <2>1
  <2>4. \A r, q \in t : g[r] = g[q] => r = q
    BY <2>1
  <2>5. \A k \in K : \E r \in t : g[r] = k
    BY <2>2
  <2> HIDE DEF g
  <2> QED
    BY <2>3, <2>4, <2>5 DEF Bijection, Injection, Surjection, IsInjective
<1>3. ExistsBijection(t, K)
  BY <1>2 DEF ExistsBijection
<1> QED
  BY <1>1, <1>3, FS_Bijection

LEMMA TurnedFinite ==
  ASSUME NEW s, IsFiniteSet(s), NEW g
  PROVE  IsFiniteSet({g[r] : r \in s})
<1> DEFINE t == {g[r] : r \in s}
           f == [r \in s |-> g[r]]
<1>1. f \in Surjection(s, t)
  BY DEF Surjection
<1> QED
  BY <1>1, FS_Surjection

LEMMA StoresAre ==
  ASSUME AccountBooksInv
  PROVE  /\ Books \cup MapBooks = DOMAIN maps /\ Books = DOMAIN sheets /\ BooksSame(maps, sheets, hour)
         /\ agree /\ hour \in Nat /\ hour # Never /\ hour + 1 \in Nat /\ hour + 1 # Never
  BY DEF AccountBooksInv, Never

-----------------------------------------------------------------------------
(* AccountStores: sessions *)

LEMMA SessionFields ==
  ASSUME NEW s \in SessionRow, NEW reason \in {"rotated", "logout", "admin"}, hour \in Nat
  PROVE  /\ Ended(s, reason) \in SessionRow /\ Ended(s, reason).id = s.id
         /\ s.id \in Marks /\ s.family \in Marks /\ s.user \in Holders /\ s.expires \in Nat /\ s.revoked \in Nat
  BY DEF Ended, SessionRow

LEMMA SessionsKeep ==
  ASSUME AccountBooksInv, chapter = "sessions", CallSessions
  PROVE  AccountBooksInv'
<1> DEFINE ms == maps.sessions
           ss == sheets.sessions
<1>1. /\ "sessions" \in DOMAIN maps /\ "sessions" \in DOMAIN sheets /\ "sessions" \in MapBooks
      /\ BooksSame(maps, sheets, hour) /\ hour \in Nat /\ hour # Never /\ hour + 1 \in Nat
  BY StoresAre DEF Books, MapBooks
<1>2. ss \subseteq SessionRow /\ MapOf("id", ms, ss) /\ IsFiniteSet(ss)
  BY <1>1 DEF BooksSame, SessionsSame
<1>3. ASSUME NEW m, NEW p, NEW ma, NEW pa, CallTwo(m, p, ma, pa), ma = pa,
             Only(maps, m, {"sessions"}), Only(sheets, p, {"sessions"}), SessionsSame(m.sessions, p.sessions)
      PROVE  AccountBooksInv'
  <2>1. BooksSame(m, p, hour)
    BY <1>3, FrameKeeps
  <2> QED
    BY <1>3, <2>1, CallIn
<1>4. ASSUME NEW id \in Unused("sessions"), NEW s \in SessionRow, s.id = id
      PROVE  s.id \notin DOMAIN ms /\ \A r \in ss : r.id # s.id
  BY <1>1, <1>2, <1>4, UnusedIsNew DEF MapOf
<1>5. ASSUME NEW id \in Unused("sessions"), NEW h \in Holders,
             LET s == Session(id, h, id) IN
             CallTwo(Puts(maps, "sessions", id, s), Pushes(sheets, "sessions", s), s, s)
      PROVE  AccountBooksInv'
  <2>1. PICK s : s = Session(id, h, id)
    OBVIOUS
  <2>2. s \in SessionRow /\ s.id = id
    BY <1>1, <2>1, UnusedIsNew DEF Session, SessionRow, Never
  <2>3. PICK m, p : m = Puts(maps, "sessions", s.id, s) /\ p = Pushes(sheets, "sessions", s)
    OBVIOUS
  <2>4. /\ m.sessions = Put(ms, s.id, s) /\ p.sessions = ss \cup {s}
        /\ Only(maps, m, {"sessions"}) /\ Only(sheets, p, {"sessions"})
    BY <1>1, <2>3 DEF Puts, Pushes, Only
  <2>5. MapOf("id", m.sessions, p.sessions)
    BY <1>2, <1>4, <2>2, <2>4, MapAdd
  <2>6. IsFiniteSet(p.sessions) /\ p.sessions \subseteq SessionRow
    BY <1>2, <2>2, <2>4, FS_AddElement
  <2>7. CallTwo(m, p, s, s)
    BY <1>5, <2>1, <2>2, <2>3, Zenon
  <2> QED
    BY <1>3, <2>4, <2>5, <2>6, <2>7 DEF SessionsSame
<1>6. ASSUME NEW id \in Unused("sessions"), NEW old \in ss, old.expires > hour,
             LET s == Session(id, old.user, old.family) IN
             CallTwo(MemRotates(maps, old.id, s), PgRotates(sheets, old.id, s),
                     MemLive(maps, "id", old.id) # {}, PgMayRotate(sheets, old.id) # {})
      PROVE  AccountBooksInv'
  <2>1. PICK s, e, live, may : /\ s = Session(id, old.user, old.family) /\ e = Ended(old, "rotated")
                               /\ live = MemLive(maps, "id", old.id) /\ may = PgMayRotate(sheets, old.id)
    OBVIOUS
  <2>2. PICK m, p : m = MemRotates(maps, old.id, s) /\ p = PgRotates(sheets, old.id, s)
    OBVIOUS
  <2>3. CallTwo(m, p, live # {}, may # {})
    BY <1>6, <2>1, <2>2, Zenon
  <2>4. old \in SessionRow /\ ms[old.id] = old /\ old.id \in DOMAIN ms /\ \A r \in ss : r.id = old.id => r = old
    BY <1>2 DEF MapOf
  <2>5. s \in SessionRow /\ s.id = id /\ e \in SessionRow /\ e.id = old.id
    BY <1>1, <2>1, <2>4, UnusedIsNew, SessionFields DEF Session, SessionRow, Never
  <2>6. s.id \notin DOMAIN ms /\ s.id # old.id
    BY <1>4, <2>5
  <2>7. CASE old.revoked = Never
    <3>1. old.id \in live /\ may = {old}
      BY <1>6, <2>1, <2>4, <2>7 DEF MemLive, PgMayRotate, PgLive
    <3>2. PICK n : n = Put(ms, e.id, e)
      OBVIOUS
    <3>3. PICK t : t = {q \in ss : q.id # e.id} \cup {e}
      OBVIOUS
    <3>4. MapOf("id", n, t)
      BY <1>2, <3>2, <3>3, MapPut
    <3>5. t = {IF r \in may THEN Ended(r, "rotated") ELSE r : r \in ss}
      BY <2>1, <2>4, <2>5, <3>1, <3>3
    <3>6. m = Puts(Puts(maps, "sessions", old.id, e), "sessions", s.id, s)
      BY <2>1, <2>2, <2>4, <3>1 DEF MemRotates
    <3>7. m.sessions = Put(n, s.id, s) /\ Only(maps, m, {"sessions"})
      BY <1>1, <2>5, <3>2, <3>6 DEF Puts, Only
    <3>8. p = Pushes(Turns(sheets, "sessions", may, LAMBDA r : Ended(r, "rotated")), "sessions", s)
      BY <2>1, <2>2, <3>1 DEF PgRotates
    <3>9. p.sessions = t \cup {s} /\ Only(sheets, p, {"sessions"})
      BY <1>1, <3>5, <3>8 DEF Pushes, Turns, Only
    <3>10. s.id \notin DOMAIN n
      BY <2>4, <2>5, <2>6, <3>2 DEF Put
    <3>11. MapOf("id", m.sessions, p.sessions)
      BY <3>4, <3>7, <3>9, <3>10, MapAdd
    <3>12. IsFiniteSet(t) /\ t \subseteq SessionRow
      <4>1. IsFiniteSet({q \in ss : q.id # e.id})
        BY <1>2, FS_Subset
      <4> QED
        BY <1>2, <2>5, <3>3, <4>1, FS_AddElement
    <3>13. IsFiniteSet(p.sessions) /\ p.sessions \subseteq SessionRow
      BY <2>5, <3>9, <3>12, FS_AddElement
    <3>14. (live # {}) = (may # {})
      BY <3>1
    <3> QED
      BY <1>3, <2>3, <3>7, <3>9, <3>11, <3>13, <3>14 DEF SessionsSame
  <2>8. CASE old.revoked # Never
    <3>1. live = {} /\ may = {}
      BY <1>2, <2>1, <2>4, <2>8 DEF MemLive, PgMayRotate, PgLive, MapOf
    <3>2. m = maps /\ p = sheets
      BY <2>1, <2>2, <3>1 DEF MemRotates, PgRotates
    <3>3. (live # {}) = (may # {})
      BY <3>1
    <3>4. Only(maps, m, {"sessions"}) /\ Only(sheets, p, {"sessions"}) /\ SessionsSame(m.sessions, p.sessions)
      BY <1>1, <3>2 DEF Only, BooksSame
    <3> QED
      BY <1>3, <2>3, <3>3, <3>4
  <2> QED
    BY <2>7, <2>8
<1>7. ASSUME NEW field \in {"id", "family", "user"}, NEW x, NEW reason \in {"logout", "admin"},
             CallTwo(MemEnds(maps, field, x, reason), PgEnds(sheets, field, x, reason),
                     Cardinality(MemLive(maps, field, x)), Cardinality(PgLive(sheets, field, x)))
      PROVE  AccountBooksInv'
  <2>1. PICK live, these : live = MemLive(maps, field, x) /\ these = PgLive(sheets, field, x)
    OBVIOUS
  <2>2. PICK m, p : m = MemEnds(maps, field, x, reason) /\ p = PgEnds(sheets, field, x, reason)
    OBVIOUS
  <2>3. CallTwo(m, p, Cardinality(live), Cardinality(these))
    BY <1>7, <2>1, <2>2, Zenon
  <2>4. /\ these \subseteq ss /\ \A r \in ss : r \in these <=> r[field] = x /\ r.revoked = Never
        /\ \A k \in live : k \in DOMAIN ms
        /\ \A k \in DOMAIN ms : k \in live <=> ms[k] \in these
    BY <1>2, <2>1 DEF MemLive, PgLive, MapOf
  <2>5. Cardinality(live) = Cardinality(these)
    BY <1>2, <2>4, KeysCount
  <2>6. PICK g : g = [r \in ss |-> IF r \in these THEN Ended(r, reason) ELSE r]
    OBVIOUS
  <2>7. \A r \in ss : g[r] \in SessionRow /\ g[r].id = r.id
    BY <1>1, <1>2, <2>6, SessionFields
  <2>8. m.sessions = [k \in DOMAIN ms |-> IF ms[k][field] = x /\ ms[k].revoked = Never
                                          THEN Ended(ms[k], reason) ELSE ms[k]]
        /\ Only(maps, m, {"sessions"})
    BY <1>1, <2>2 DEF MemEnds, Only
  <2>9. p.sessions = {IF r \in these THEN Ended(r, reason) ELSE r : r \in ss} /\ Only(sheets, p, {"sessions"})
    BY <1>1, <2>1, <2>2 DEF PgEnds, Turns, Only
  <2>10. p.sessions = {g[r] : r \in ss}
    BY <2>6, <2>9
  <2>11. DOMAIN m.sessions = DOMAIN ms /\ \A k \in DOMAIN ms : m.sessions[k] = g[ms[k]]
    BY <1>2, <2>4, <2>6, <2>8 DEF MapOf
  <2>12. MapOf("id", m.sessions, p.sessions)
    BY <1>2, <2>7, <2>10, <2>11, MapTurn
  <2>13. IsFiniteSet(p.sessions)
    <3>1. IsFiniteSet({g[r] : r \in ss})
      BY <1>2, TurnedFinite
    <3> QED
      BY <2>10, <3>1, Zenon
  <2>14. p.sessions \subseteq SessionRow
    BY <2>7, <2>10
  <2> QED
    BY <1>3, <2>3, <2>5, <2>8, <2>9, <2>12, <2>13, <2>14 DEF SessionsSame
<1>8. ASSUME NEW h \in Holders, CallTwo(maps, sheets, MemActive(maps, h), PgActive(sheets, h))
      PROVE  AccountBooksInv'
  <2>1. MemActive(maps, h) = PgActive(sheets, h)
    <3>1. Values(ms) = ss
      BY <1>2, MapValues
    <3> QED
      BY <3>1, Zenon DEF MemActive, PgActive
  <2>2. Only(maps, maps, {"sessions"}) /\ Only(sheets, sheets, {"sessions"}) /\ SessionsSame(ms, ss)
    BY <1>2 DEF Only, SessionsSame
  <2> QED
    BY <1>3, <1>8, <2>1, <2>2
<1>9. ASSUME CallTwo(Drops(maps, "sessions", LAMBDA s : s.expires < hour),
                     Deletes(sheets, "sessions", PgExpired(sheets)),
                     Cardinality(MemExpired(maps)), Cardinality(PgExpired(sheets)))
      PROVE  AccountBooksInv'
  <2>1. PICK old, these : old = MemExpired(maps) /\ these = PgExpired(sheets)
    OBVIOUS
  <2>2. PICK m, p : m = Drops(maps, "sessions", LAMBDA s : s.expires < hour) /\ p = Deletes(sheets, "sessions", these)
    OBVIOUS
  <2>3. CallTwo(m, p, Cardinality(old), Cardinality(these))
    BY <1>9, <2>1, <2>2
  <2>4. /\ these \subseteq ss /\ \A r \in ss : r \in these <=> r.expires < hour
        /\ \A k : k \in old <=> k \in DOMAIN ms /\ ms[k] \in these
    BY <1>2, <2>1 DEF MemExpired, PgExpired, MapOf
  <2>5. Cardinality(old) = Cardinality(these)
    BY <1>2, <2>4, KeysCount
  <2>6. m.sessions = [k \in {k \in DOMAIN ms : ~ (ms[k].expires < hour)} |-> ms[k]] /\ Only(maps, m, {"sessions"})
    BY <1>1, <2>2 DEF Drops, Only
  <2>7. p.sessions = ss \ these /\ Only(sheets, p, {"sessions"})
    BY <1>1, <2>2 DEF Deletes, Only
  <2>8. /\ \A k : k \in DOMAIN m.sessions <=> k \in DOMAIN ms /\ ms[k] \in p.sessions
        /\ \A k \in DOMAIN m.sessions : m.sessions[k] = ms[k]
    BY <1>2, <2>4, <2>6, <2>7 DEF MapOf
  <2>9. p.sessions \subseteq ss
    BY <2>7
  <2>10. MapOf("id", m.sessions, p.sessions)
    BY <1>2, <2>8, <2>9, MapDrop
  <2>11. IsFiniteSet(p.sessions) /\ p.sessions \subseteq SessionRow
    BY <1>2, <2>9, FS_Subset
  <2> QED
    BY <1>3, <2>3, <2>5, <2>6, <2>7, <2>10, <2>11 DEF SessionsSame
<1> QED
  BY <1>5, <1>6, <1>7, <1>8, <1>9 DEF CallSessions

\* A call that changes nothing.
LEMMA CallReads ==
  ASSUME AccountBooksInv, NEW ma, NEW pa, CallTwo(maps, sheets, ma, pa), ma = pa
  PROVE  AccountBooksInv'
<1>1. BooksSame(maps, sheets, hour)
  BY DEF AccountBooksInv
<1>2. chapter = "users" => maps.actions = {} /\ DOMAIN maps.ceremonies = {}
  BY DEF AccountBooksInv
<1> QED
  BY <1>1, <1>2, AnswersKeep

-----------------------------------------------------------------------------
(* AccountStores: security events, and the codes that are mailed out *)

LEMMA EventsKeep ==
  ASSUME AccountBooksInv, chapter = "events", CallEvents
  PROVE  AccountBooksInv'
<1>1. /\ "events" \in DOMAIN maps /\ "events" \in DOMAIN sheets /\ BooksSame(maps, sheets, hour)
  BY StoresAre DEF Books
<1>2. maps.events = sheets.events
  BY <1>1 DEF BooksSame
<1>3. ASSUME NEW e, CallTwo(Pushes(maps, "events", e), Pushes(sheets, "events", e), TRUE, TRUE)
      PROVE  AccountBooksInv'
  <2>1. PICK m, p : m = Pushes(maps, "events", e) /\ p = Pushes(sheets, "events", e)
    OBVIOUS
  <2>2. m.events = p.events /\ Only(maps, m, {"events"}) /\ Only(sheets, p, {"events"})
    BY <1>1, <1>2, <2>1 DEF Pushes, Only
  <2>3. BooksSame(m, p, hour)
    BY <2>2, FrameKeeps
  <2>4. CallTwo(m, p, TRUE, TRUE)
    BY <1>3, <2>1
  <2> QED
    BY <2>2, <2>3, <2>4, CallIn
<1>4. ASSUME NEW h \in Holders, NEW kind \in {"login", "passkey_login"},
             CallTwo(maps, sheets, MemFailures(maps, h, hour, kind), PgFailures(sheets, h, hour, kind))
      PROVE  AccountBooksInv'
  <2>1. MemFailures(maps, h, hour, kind) = PgFailures(sheets, h, hour, kind)
    BY <1>2, Zenon DEF MemFailures, PgFailures
  <2> QED
    BY <1>4, <2>1, CallReads
<1> QED
  BY <1>3, <1>4 DEF CallEvents

LEMMA ActionFields ==
  ASSUME NEW a \in ActionRow, hour \in Nat
  PROVE  Spent(a) \in ActionRow /\ Spent(a).id = a.id /\ Spent(a).user = a.user
  BY DEF Spent, ActionRow

Turned(these, g) == {g[r] : r \in these}

\* Codes that change and stay whose they are.
LEMMA ActionsTurn ==
  ASSUME NEW m, NEW s, NEW holders, ActionsSame(m, s, holders), NEW g,
         \A r \in m : g[r] \in ActionRow /\ g[r].id = r.id /\ g[r].user = r.user,
         NEW n, n = Turned(m, g), NEW t, t = Turned(s, g)
  PROVE  ActionsSame(n, t, holders)
<1>1. n \subseteq ActionRow /\ Identified(n)
  BY DEF ActionsSame, Identified, Turned
<1>2. t \subseteq n
  BY DEF ActionsSame, Turned
<1>3. ASSUME NEW q \in n  PROVE q \in t <=> Alive(q.user, holders)
  <2>1. PICK r \in m : q = g[r]
    BY DEF Turned
  <2>2. q.user = r.user
    BY <2>1
  <2>3. Alive(r.user, holders) => r \in s
    BY DEF ActionsSame
  <2>4. q \in t => Alive(q.user, holders)
    BY DEF ActionsSame, Turned
  <2> QED
    BY <2>1, <2>2, <2>3, <2>4 DEF Turned
<1> QED
  BY <1>1, <1>2, <1>3 DEF ActionsSame

LEMMA ActionsAdd ==
  ASSUME NEW m, NEW s, NEW holders, ActionsSame(m, s, holders), NEW a \in ActionRow, Alive(a.user, holders),
         \A r \in m : r.id # a.id, NEW n, n = m \cup {a}, NEW t, t = s \cup {a}
  PROVE  ActionsSame(n, t, holders)
<1>1. n \subseteq ActionRow /\ Identified(n) /\ t \subseteq n
  BY DEF ActionsSame, Identified
<1>2. ASSUME NEW q \in n  PROVE q \in t <=> Alive(q.user, holders)
  BY DEF ActionsSame
<1> QED
  BY <1>1, <1>2 DEF ActionsSame

LEMMA ActionsKeep ==
  ASSUME AccountBooksInv, chapter = "actions", CallActions
  PROVE  AccountBooksInv'
<1> DEFINE am == maps.actions
           as == sheets.actions
           holders == HoldersOf(sheets.users)
<1>1. /\ "actions" \in DOMAIN maps /\ "actions" \in DOMAIN sheets /\ "actions" \notin MapBooks
      /\ BooksSame(maps, sheets, hour) /\ hour \in Nat /\ hour # Never /\ hour + 1 \in Nat
  BY StoresAre DEF Books, MapBooks
<1>2. ActionsSame(am, as, holders)
  BY <1>1 DEF BooksSame
<1>3. ASSUME NEW m, NEW p, NEW ma, NEW pa, CallTwo(m, p, ma, pa), ma = pa,
             Only(maps, m, {"actions"}), Only(sheets, p, {"actions"}), ActionsSame(m.actions, p.actions, holders)
      PROVE  AccountBooksInv'
  <2>1. p.users = sheets.users
    BY <1>1, <1>3, StoresAre DEF Only, Books
  <2>2. ActionsSame(m.actions, p.actions, HoldersOf(p.users))
    BY <1>3, <2>1, Zenon
  <2>3. BooksSame(m, p, hour)
    BY <1>3, <2>2, FrameKeeps
  <2> QED
    BY <1>3, <2>3, CallIn
<1>4. ASSUME NEW id \in Unused("actions"), NEW h \in Holders, NEW kind \in {"verify_email", "reset_password"},
             Present(h),
             CallTwo(MemIssues(maps, Mailed(h, kind, id)), PgIssues(sheets, Mailed(h, kind, id)), TRUE, TRUE)
      PROVE  AccountBooksInv'
  <2>1. PICK a, these, those : /\ a = Mailed(h, kind, id)
                               /\ these = Issued(maps, h, kind) /\ those = Issued(sheets, h, kind)
    OBVIOUS
  <2>2. PICK m, p : m = MemIssues(maps, a) /\ p = PgIssues(sheets, a)
    OBVIOUS
  <2>3. CallTwo(m, p, TRUE, TRUE)
    BY <1>4, <2>1, <2>2, Zenon
  <2>4. Alive(h, holders)
    BY <1>4 DEF Alive, HoldersOf, Present, Of
  <2>5. a \in ActionRow /\ a.user = h /\ a.kind = kind /\ \A r \in am : r.id # a.id
    BY <1>1, <2>1, UnusedIsNew DEF Mailed, ActionRow, Never
  <2>6. \A r \in am : r \in these <=> r.user = h /\ r.kind = kind /\ r.used = Never
    BY <2>1 DEF Issued
  <2>7. \A r \in as : r \in those <=> r \in these
    BY <1>2, <2>1 DEF Issued, ActionsSame
  <2>8. PICK g : g = [r \in am |-> IF r \in these THEN Spent(r) ELSE r]
    OBVIOUS
  <2>9. \A r \in am : g[r] \in ActionRow /\ g[r].id = r.id /\ g[r].user = r.user
    BY <1>1, <1>2, <2>8, ActionFields DEF ActionsSame
  <2>10. PICK n, t : n = Turned(am, g) /\ t = Turned(as, g)
    OBVIOUS
  <2>11. ActionsSame(n, t, holders)
    BY <1>2, <2>9, <2>10, ActionsTurn
  <2>12. n = {IF r \in these THEN Spent(r) ELSE r : r \in am}
    BY <2>8, <2>10 DEF Turned
  <2>13. t = {IF r \in those THEN Spent(r) ELSE r : r \in as}
    BY <1>2, <2>7, <2>8, <2>10 DEF ActionsSame, Turned
  <2>14. m.actions = n \cup {a} /\ Only(maps, m, {"actions"})
    BY <1>1, <2>1, <2>2, <2>5, <2>12 DEF MemIssues, Only
  <2>15. p.actions = t \cup {a} /\ Only(sheets, p, {"actions"})
    BY <1>1, <2>1, <2>2, <2>5, <2>13 DEF PgIssues, Pushes, Turns, Only
  <2>16. \A q \in n : q.id # a.id
    BY <2>5, <2>9, <2>10 DEF Turned
  <2>17. ActionsSame(m.actions, p.actions, holders)
    BY <2>4, <2>5, <2>11, <2>14, <2>15, <2>16, ActionsAdd
  <2> QED
    BY <1>3, <2>3, <2>14, <2>15, <2>17
<1>5. ASSUME NEW a \in as, NEW kind \in {"verify_email", "reset_password"},
             CallTwo(MemConsumes(maps, kind, a.id), PgConsumes(sheets, kind, a.id),
                     Whose(Good(maps, kind, a.id)), Whose(Good(sheets, kind, a.id)))
      PROVE  AccountBooksInv'
  <2>1. PICK these : these = Good(sheets, kind, a.id)
    OBVIOUS
  <2>2. PICK m, p : m = MemConsumes(maps, kind, a.id) /\ p = PgConsumes(sheets, kind, a.id)
    OBVIOUS
  <2>3. Good(maps, kind, a.id) = these
    <3>1. \A r : r \in Good(maps, kind, a.id) => r \in these
      BY <1>2, <2>1 DEF Good, Of, ActionsSame, Identified
    <3>2. \A r : r \in these => r \in Good(maps, kind, a.id)
      BY <1>2, <2>1 DEF Good, Of, ActionsSame
    <3> QED
      BY <3>1, <3>2
  <2>4. CallTwo(m, p, Whose(these), Whose(these))
    BY <1>5, <2>1, <2>2, <2>3, Zenon
  <2>5. PICK g : g = [r \in am |-> IF r \in these THEN Spent(r) ELSE r]
    OBVIOUS
  <2>6. \A r \in am : g[r] \in ActionRow /\ g[r].id = r.id /\ g[r].user = r.user
    BY <1>1, <1>2, <2>5, ActionFields DEF ActionsSame
  <2>7. m.actions = {IF r \in these THEN Spent(r) ELSE r : r \in am} /\ Only(maps, m, {"actions"})
    BY <1>1, <2>2, <2>3 DEF MemConsumes, Only
  <2>8. p.actions = {IF r \in these THEN Spent(r) ELSE r : r \in as} /\ Only(sheets, p, {"actions"})
    BY <1>1, <2>1, <2>2 DEF PgConsumes, Turns, Only
  <2>9. m.actions = Turned(am, g) /\ p.actions = Turned(as, g)
    BY <1>2, <2>5, <2>7, <2>8 DEF ActionsSame, Turned
  <2>10. ActionsSame(m.actions, p.actions, holders)
    BY <1>2, <2>6, <2>9, ActionsTurn
  <2> QED
    BY <1>3, <2>4, <2>7, <2>8, <2>10
<1> QED
  BY <1>4, <1>5 DEF CallActions

-----------------------------------------------------------------------------
(* AccountStores: passkeys *)

LEMMA PasskeyCounted ==
  ASSUME NEW k \in PasskeyRow, NEW h, NEW counter \in Marks \cup {0}, MayCount(k, h, counter)
  PROVE  /\ [k EXCEPT !.counter = IF k.counter = 0 /\ counter = 0 THEN @ ELSE counter] = [k EXCEPT !.counter = counter]
         /\ [k EXCEPT !.counter = counter] \in PasskeyRow
<1>1. counter \in Nat
  BY AccountStoresAssumption
<1>2. CASE k.counter = 0 /\ counter = 0
  BY <1>1, <1>2 DEF PasskeyRow
<1>3. CASE ~ (k.counter = 0 /\ counter = 0)
  BY <1>1, <1>3 DEF PasskeyRow
<1> QED
  BY <1>2, <1>3

LEMMA PasskeysKeep ==
  ASSUME AccountBooksInv, chapter = "passkeys", CallPasskeys
  PROVE  AccountBooksInv'
<1> DEFINE these == sheets.passkeys
<1>1. /\ "passkeys" \in DOMAIN maps /\ "passkeys" \in DOMAIN sheets /\ "passkeys" \notin MapBooks
      /\ BooksSame(maps, sheets, hour)
  BY StoresAre DEF Books, MapBooks
<1>2. maps.passkeys = these /\ these \subseteq PasskeyRow
  BY <1>1 DEF BooksSame
<1>3. ASSUME NEW m, NEW p, NEW ma, NEW pa, CallTwo(m, p, ma, pa), ma = pa,
             Only(maps, m, {"passkeys"}), Only(sheets, p, {"passkeys"}),
             m.passkeys = p.passkeys, p.passkeys \subseteq PasskeyRow
      PROVE  AccountBooksInv'
  <2>1. BooksSame(m, p, hour)
    BY <1>3, FrameKeeps
  <2> QED
    BY <1>3, <2>1, CallIn
<1>4. ASSUME NEW id \in Unused("passkeys"), NEW h \in Holders,
             CallTwo(Pushes(maps, "passkeys", Passkey(id, h)), Pushes(sheets, "passkeys", Passkey(id, h)),
                     TRUE, TRUE)
      PROVE  AccountBooksInv'
  <2>1. PICK m, p : m = Pushes(maps, "passkeys", Passkey(id, h)) /\ p = Pushes(sheets, "passkeys", Passkey(id, h))
    OBVIOUS
  <2>2. CallTwo(m, p, TRUE, TRUE)
    BY <1>4, <2>1
  <2>3. Passkey(id, h) \in PasskeyRow
    BY UnusedIsNew DEF Passkey, PasskeyRow
  <2>4. m.passkeys = p.passkeys /\ p.passkeys = these \cup {Passkey(id, h)}
    BY <1>1, <1>2, <2>1 DEF Pushes
  <2>5. Only(maps, m, {"passkeys"}) /\ Only(sheets, p, {"passkeys"})
    BY <2>1 DEF Pushes, Only
  <2> QED
    BY <1>2, <1>3, <2>2, <2>3, <2>4, <2>5
<1>5. ASSUME NEW id \in Marks, NEW h \in Holders, NEW counter \in Marks \cup {0},
             CallTwo(MemCounts(maps, h, id, counter), PgCounts(sheets, h, id, counter),
                     \E k \in Of(maps, "passkeys", id) : MayCount(k, h, counter),
                     PgMayCount(sheets, h, id, counter) # {})
      PROVE  AccountBooksInv'
  <2>1. PICK m, p : m = MemCounts(maps, h, id, counter) /\ p = PgCounts(sheets, h, id, counter)
    OBVIOUS
  <2>2. PICK ma, pa : /\ ma = (\E k \in Of(maps, "passkeys", id) : MayCount(k, h, counter))
                      /\ pa = (PgMayCount(sheets, h, id, counter) # {})
    OBVIOUS
  <2>3. CallTwo(m, p, ma, pa)
    BY <1>5, <2>1, <2>2, Zenon
  <2>4. ma = pa
    BY <1>2, <2>2 DEF PgMayCount, Of
  <2>5. PICK may : may = PgMayCount(sheets, h, id, counter)
    OBVIOUS
  <2>6. \A k \in these : k \in may <=> k.id = id /\ MayCount(k, h, counter)
    BY <2>5 DEF PgMayCount, Of
  <2>7. m.passkeys = {IF k.id = id /\ MayCount(k, h, counter) THEN [k EXCEPT !.counter = counter] ELSE k
                      : k \in maps.passkeys} /\ Only(maps, m, {"passkeys"})
    BY <1>1, <2>1 DEF MemCounts, Only
  <2>8. p.passkeys = {IF k \in may
                      THEN [k EXCEPT !.counter = IF k.counter = 0 /\ counter = 0 THEN @ ELSE counter] ELSE k
                      : k \in these} /\ Only(sheets, p, {"passkeys"})
    BY <1>1, <2>1, <2>5 DEF PgCounts, Turns, Only
  <2>9. PICK g : g = [k \in these |-> IF k \in may THEN [k EXCEPT !.counter = counter] ELSE k]
    OBVIOUS
  <2>10. \A k \in these : g[k] \in PasskeyRow
    BY <1>2, <2>6, <2>9, PasskeyCounted
  <2>11. p.passkeys = Turned(these, g)
    <3>1. PICK f : f = [k \in these |-> IF k \in may
             THEN [k EXCEPT !.counter = IF k.counter = 0 /\ counter = 0 THEN @ ELSE counter] ELSE k]
      OBVIOUS
    <3>2. \A k \in these : f[k] = g[k]
      BY <1>2, <2>6, <2>9, <3>1, PasskeyCounted
    <3>3. p.passkeys = {f[k] : k \in these}
      BY <2>8, <3>1
    <3> QED
      BY <3>2, <3>3 DEF Turned
  <2>12. m.passkeys = Turned(these, g)
    BY <1>2, <2>6, <2>7, <2>9 DEF Turned
  <2>13. p.passkeys \subseteq PasskeyRow
    BY <2>10, <2>11 DEF Turned
  <2> QED
    BY <1>3, <2>3, <2>4, <2>7, <2>8, <2>11, <2>12, <2>13
<1>6. ASSUME NEW id \in Marks, NEW h \in Holders,
             CallTwo(Deletes(maps, "passkeys", Own(maps, h, id)), Deletes(sheets, "passkeys", Own(sheets, h, id)),
                     Own(maps, h, id) # {}, Own(sheets, h, id) # {})
      PROVE  AccountBooksInv'
  <2>1. PICK own : own = Own(sheets, h, id)
    OBVIOUS
  <2>2. Own(maps, h, id) = own
    BY <1>2, <2>1, Zenon DEF Own, Of
  <2>3. PICK m, p : m = Deletes(maps, "passkeys", own) /\ p = Deletes(sheets, "passkeys", own)
    OBVIOUS
  <2>4. CallTwo(m, p, own # {}, own # {})
    BY <1>6, <2>1, <2>2, <2>3, Zenon
  <2>5. m.passkeys = p.passkeys /\ p.passkeys \subseteq these
    BY <1>1, <1>2, <2>3 DEF Deletes
  <2>6. Only(maps, m, {"passkeys"}) /\ Only(sheets, p, {"passkeys"})
    BY <2>3 DEF Deletes, Only
  <2> QED
    BY <1>2, <1>3, <2>4, <2>5, <2>6
<1> QED
  BY <1>4, <1>5, <1>6 DEF CallPasskeys

-----------------------------------------------------------------------------
(* AccountStores: subscriptions, and the events of the billing provider *)

LEMMA BillingKeeps ==
  ASSUME AccountBooksInv, chapter = "billing", CallBilling
  PROVE  AccountBooksInv'
<1> DEFINE mc == maps.customers
           sc == sheets.customers
<1>1. /\ {"customers", "seen"} \subseteq DOMAIN maps /\ {"customers", "seen"} \subseteq DOMAIN sheets
      /\ BooksSame(maps, sheets, hour)
  BY StoresAre DEF Books, MapBooks
<1>2. /\ sc \subseteq CustomerRow /\ MapOf("user", mc, sc)
      /\ maps.seen = sheets.seen /\ \A c \in sheets.seen : c = [id |-> c.id, user |-> Nobody]
  BY <1>1 DEF BooksSame
<1>3. ASSUME NEW h \in Holders, NEW id \in Marks, NEW plan \in {"free", "pro"},
             LET c == Customer(h, id, plan) IN
             CallTwo(MemSubscribes(maps, c), PgSubscribes(sheets, c), Another(Values(mc), h, id), Another(sc, h, id))
      PROVE  AccountBooksInv'
  <2>1. PICK c : c = Customer(h, id, plan)
    OBVIOUS
  <2>2. c \in CustomerRow /\ c.user = h /\ c.id = id
    BY <2>1 DEF Customer, CustomerRow
  <2>3. PICK m, p, ma, pa : /\ m = MemSubscribes(maps, c) /\ p = PgSubscribes(sheets, c)
                            /\ ma = Another(Values(mc), h, id) /\ pa = Another(sc, h, id)
    OBVIOUS
  <2>4. CallTwo(m, p, ma, pa)
    BY <1>3, <2>1, <2>3, Zenon
  <2>5. Values(mc) = sc
    BY <1>2, MapValues
  <2>6. ma = pa
    BY <2>3, <2>5, Zenon
  <2>7. CASE Another(sc, h, id)
    <3>1. m = maps /\ p = sheets
      BY <2>2, <2>3, <2>5, <2>7, Zenon DEF MemSubscribes, PgSubscribes
    <3> QED
      BY <2>4, <2>6, <3>1, CallReads
  <2>8. CASE ~ Another(sc, h, id)
    <3>1. m = Puts(maps, "customers", c.user, c)
      BY <2>2, <2>3, <2>5, <2>8, Zenon DEF MemSubscribes
    <3>2. p = [sheets EXCEPT !.customers = {r \in @ : r.user # c.user} \cup {c}]
      BY <2>2, <2>3, <2>8, Zenon DEF PgSubscribes
    <3>3. m.customers = Put(mc, c.user, c) /\ Only(maps, m, {"customers"})
      BY <1>1, <3>1 DEF Puts, Only
    <3>4. p.customers = {r \in sc : r.user # c.user} \cup {c} /\ Only(sheets, p, {"customers"})
      BY <1>1, <3>2 DEF Only
    <3>5. MapOf("user", m.customers, p.customers)
      BY <1>2, <3>3, <3>4, MapPut
    <3>6. p.customers \subseteq CustomerRow
      BY <1>2, <2>2, <3>4
    <3>7. BooksSame(m, p, hour)
      BY <3>3, <3>4, <3>5, <3>6, FrameKeeps
    <3> QED
      BY <2>4, <2>6, <3>3, <3>4, <3>7, CallIn
  <2> QED
    BY <2>7, <2>8
<1>4. ASSUME NEW id \in Marks,
             CallTwo(MemClaims(maps, id), PgClaims(sheets, id), Of(maps, "seen", id) = {}, Of(sheets, "seen", id) = {})
      PROVE  AccountBooksInv'
  <2>1. PICK these, e : these = Of(sheets, "seen", id) /\ e = [id |-> id, user |-> Nobody]
    OBVIOUS
  <2>2. Of(maps, "seen", id) = these
    BY <1>2, <2>1, Zenon DEF Of
  <2>3. PICK m, p : m = MemClaims(maps, id) /\ p = PgClaims(sheets, id)
    OBVIOUS
  <2>4. CallTwo(m, p, these = {}, these = {})
    BY <1>4, <2>1, <2>2, <2>3, Zenon
  <2>5. m.seen = sheets.seen \cup {e} /\ Only(maps, m, {"seen"})
    BY <1>1, <1>2, <2>1, <2>3 DEF MemClaims, Pushes, Only
  <2>6. p.seen = sheets.seen \cup {e} /\ Only(sheets, p, {"seen"})
    <3>1. CASE these = {}
      <4>1. p = Pushes(sheets, "seen", e)
        BY <2>1, <2>3, <3>1 DEF PgClaims
      <4> QED
        BY <1>1, <4>1 DEF Pushes, Only
    <3>2. CASE these # {}
      <4>1. p = sheets
        BY <2>1, <2>3, <3>2 DEF PgClaims
      <4>2. e \in sheets.seen
        BY <1>2, <2>1, <3>2 DEF Of
      <4> QED
        BY <4>1, <4>2 DEF Only
    <3> QED
      BY <3>1, <3>2
  <2>7. m.seen = p.seen /\ \A c \in p.seen : c = [id |-> c.id, user |-> Nobody]
    BY <1>2, <2>1, <2>5, <2>6
  <2>8. BooksSame(m, p, hour)
    BY <2>5, <2>6, <2>7, FrameKeeps
  <2> QED
    BY <2>4, <2>5, <2>6, <2>8, CallIn
<1> QED
  BY <1>3, <1>4 DEF CallBilling

-----------------------------------------------------------------------------
(* AccountStores: the ceremonies of passkeys *)

LEMMA CeremonyFields ==
  ASSUME NEW c \in CeremonyRow, hour \in Nat
  PROVE  /\ Spent(c) \in CeremonyRow /\ Spent(c).id = c.id /\ Spent(c).user = c.user /\ Spent(c).used = hour
         /\ c.used # hour => Spent(c) # c
<1>1. Spent(c) \in CeremonyRow /\ Spent(c).id = c.id /\ Spent(c).user = c.user /\ Spent(c).used = hour
  BY DEF Spent, CeremonyRow
<1> QED
  BY <1>1

LEMMA CeremoniesKeep ==
  ASSUME AccountBooksInv, chapter = "ceremonies", CallCeremonies
  PROVE  AccountBooksInv'
<1> DEFINE mc == maps.ceremonies
           sc == sheets.ceremonies
           holders == HoldersOf(sheets.users)
<1>1. /\ "ceremonies" \in DOMAIN maps /\ "ceremonies" \in DOMAIN sheets /\ "ceremonies" \in MapBooks
      /\ BooksSame(maps, sheets, hour) /\ hour \in Nat /\ hour # Never /\ hour + 1 \in Nat
  BY StoresAre DEF Books, MapBooks
<1>2. CeremoniesSame(mc, sc, holders)
  BY <1>1 DEF BooksSame
<1>3. ASSUME NEW m, NEW p, NEW ma, NEW pa, CallTwo(m, p, ma, pa), ma = pa,
             Only(maps, m, {"ceremonies"}), Only(sheets, p, {"ceremonies"}),
             CeremoniesSame(m.ceremonies, p.ceremonies, holders)
      PROVE  AccountBooksInv'
  <2>1. p.users = sheets.users
    BY <1>3, StoresAre DEF Only, Books
  <2>2. CeremoniesSame(m.ceremonies, p.ceremonies, HoldersOf(p.users))
    BY <1>3, <2>1, Zenon
  <2>3. BooksSame(m, p, hour)
    BY <1>3, <2>2, FrameKeeps
  <2> QED
    BY <1>3, <2>3, CallIn
<1>4. ASSUME NEW id \in Unused("ceremonies"), NEW purpose \in {"register", "login"},
             NEW h \in Holders \cup {Nobody}, h = Nobody \/ Present(h),
             LET c == Ceremony(id, purpose, h) IN
             CallTwo(Puts(maps, "ceremonies", id, c), Pushes(sheets, "ceremonies", c), TRUE, TRUE)
      PROVE  AccountBooksInv'
  <2>1. PICK c : c = Ceremony(id, purpose, h)
    OBVIOUS
  <2>2. PICK m, p : m = Puts(maps, "ceremonies", id, c) /\ p = Pushes(sheets, "ceremonies", c)
    OBVIOUS
  <2>3. CallTwo(m, p, TRUE, TRUE)
    BY <1>4, <2>1, <2>2, Zenon
  <2>4. c \in CeremonyRow /\ c.id = id /\ c.user = h
    BY <1>1, <2>1, UnusedIsNew DEF Ceremony, CeremonyRow, Never
  <2>5. Alive(h, holders)
    BY <1>4 DEF Alive, HoldersOf, Present, Of
  <2>6. id \notin DOMAIN mc
    <3>1. \A k \in DOMAIN mc : mc[k].id # id
      BY <1>1, UnusedIsNew
    <3> QED
      BY <1>2, <3>1 DEF CeremoniesSame
  <2>7. m.ceremonies = Put(mc, id, c) /\ Only(maps, m, {"ceremonies"})
    BY <1>1, <2>2 DEF Puts, Only
  <2>8. p.ceremonies = sc \cup {c} /\ Only(sheets, p, {"ceremonies"})
    BY <1>1, <2>2 DEF Pushes, Only
  <2>9. /\ DOMAIN m.ceremonies = DOMAIN mc \cup {id} /\ m.ceremonies[id] = c
        /\ \A k \in DOMAIN mc : m.ceremonies[k] = mc[k]
    BY <2>6, <2>7 DEF Put
  <2>10. \A k \in DOMAIN mc : mc[k] # c
    BY <1>2, <2>4, <2>6 DEF CeremoniesSame
  <2>11. CeremoniesSame(m.ceremonies, p.ceremonies, holders)
    BY <1>2, <2>4, <2>5, <2>6, <2>8, <2>9, <2>10 DEF CeremoniesSame
  <2> QED
    BY <1>3, <2>3, <2>7, <2>8, <2>11
<1>5. ASSUME NEW id \in Marks, NEW purpose \in {"register", "login"},
             \A c \in Values(mc) : c.id = id => c.user = Nobody \/ Present(c.user),
             CallTwo(MemConsume(maps, id, purpose), PgConsume(sheets, id, purpose),
                     MemConsume(maps, id, purpose) # maps, PgConsumable(sheets, id, purpose) # {})
      PROVE  AccountBooksInv'
  <2>1. PICK m, p, these : /\ m = MemConsume(maps, id, purpose) /\ p = PgConsume(sheets, id, purpose)
                           /\ these = PgConsumable(sheets, id, purpose)
    OBVIOUS
  <2>2. CallTwo(m, p, m # maps, these # {})
    BY <1>5, <2>1, Zenon
  <2>3. \A r \in sc : r \in these <=> r.id = id /\ Open(r) /\ r.purpose = purpose
    BY <2>1 DEF PgConsumable, Of
  <2>4. p.ceremonies = {IF r \in these THEN Spent(r) ELSE r : r \in sc} /\ Only(sheets, p, {"ceremonies"})
    BY <1>1, <2>1 DEF PgConsume, Turns, Only
  <2>5. CASE id \in DOMAIN mc /\ Open(mc[id]) /\ mc[id].purpose = purpose
    <3>1. PICK c, d : c = mc[id] /\ d = Spent(c)
      OBVIOUS
    <3>2. c \in sc /\ c \in CeremonyRow /\ c.id = id /\ Alive(c.user, holders)
      <4>1. c \in CeremonyRow /\ c.id = id /\ (c \in sc <=> Alive(c.user, holders))
        BY <1>2, <2>5, <3>1 DEF CeremoniesSame
      <4>2. c.user = Nobody \/ Present(c.user)
        BY <1>5, <2>5, <3>1, <4>1 DEF Values
      <4> QED
        BY <4>1, <4>2 DEF Alive, HoldersOf, Present, Of
    <3>3. c \in these /\ \A r \in sc : r \in these <=> r = c
      BY <1>2, <2>3, <2>5, <3>1, <3>2 DEF CeremoniesSame
    <3>4. d \in CeremonyRow /\ d.id = id /\ d.user = c.user /\ d # c
      <4>1. c.used = Never
        BY <2>5, <3>1 DEF Open
      <4> QED
        BY <1>1, <3>1, <3>2, <4>1, CeremonyFields
    <3>5. m = [maps EXCEPT !.ceremonies[id] = Spent(@)]
      BY <2>1, <2>5 DEF MemConsume
    <3>6. m.ceremonies = [mc EXCEPT ![id] = d] /\ Only(maps, m, {"ceremonies"})
      BY <1>1, <3>1, <3>5 DEF Only
    <3>7. m # maps
      BY <2>5, <3>1, <3>4, <3>6
    <3>8. DOMAIN m.ceremonies = DOMAIN mc /\ m.ceremonies[id] = d /\ \A k \in DOMAIN mc : k # id => m.ceremonies[k] = mc[k]
      BY <2>5, <3>6
    <3>9. \A r : r \in p.ceremonies <=> r = d \/ (r \in sc /\ r # c)
      BY <2>4, <3>1, <3>2, <3>3
    <3>10. ASSUME NEW k \in DOMAIN mc  PROVE /\ m.ceremonies[k] \in CeremonyRow /\ m.ceremonies[k].id = k
                                             /\ m.ceremonies[k] \in p.ceremonies <=> Alive(m.ceremonies[k].user, holders)
      <4>1. CASE k = id
        BY <3>2, <3>4, <3>8, <3>9, <4>1
      <4>2. CASE k # id
        <5>1. mc[k] \in CeremonyRow /\ mc[k].id = k /\ (mc[k] \in sc <=> Alive(mc[k].user, holders))
          BY <1>2, <3>10 DEF CeremoniesSame
        <5>2. mc[k] # d /\ mc[k] # c
          BY <3>2, <3>4, <4>2, <5>1
        <5> QED
          BY <3>8, <3>9, <4>2, <5>1, <5>2
      <4> QED
        BY <4>1, <4>2
    <3>11. ASSUME NEW r \in p.ceremonies  PROVE r.id \in DOMAIN mc /\ r = m.ceremonies[r.id]
      <4>1. CASE r = d
        BY <2>5, <3>4, <3>8, <4>1
      <4>2. CASE r \in sc /\ r # c
        <5>1. r.id \in DOMAIN mc /\ r = mc[r.id]
          BY <1>2, <4>2 DEF CeremoniesSame
        <5> QED
          BY <3>1, <3>8, <4>2, <5>1
      <4> QED
        BY <3>9, <3>11, <4>1, <4>2
    <3>12. CeremoniesSame(m.ceremonies, p.ceremonies, holders)
      BY <3>8, <3>10, <3>11 DEF CeremoniesSame
    <3>13. (m # maps) = (these # {})
      BY <3>3, <3>7
    <3> QED
      BY <1>3, <2>2, <2>4, <3>6, <3>12, <3>13
  <2>6. CASE ~ (id \in DOMAIN mc /\ Open(mc[id]) /\ mc[id].purpose = purpose)
    <3>1. m = maps
      BY <2>1, <2>6 DEF MemConsume
    <3>2. these = {}
      BY <1>2, <2>1, <2>3, <2>6 DEF CeremoniesSame, PgConsumable, Of
    <3>3. p.ceremonies = sc
      BY <2>4, <3>2
    <3>4. CeremoniesSame(m.ceremonies, p.ceremonies, holders)
      BY <1>2, <3>1, <3>3, Zenon
    <3>5. Only(maps, m, {"ceremonies"})
      BY <3>1 DEF Only
    <3>6. (m # maps) = (these # {})
      BY <3>1, <3>2
    <3> QED
      BY <1>3, <2>2, <2>4, <3>4, <3>5, <3>6
  <2> QED
    BY <2>5, <2>6
<1>6. ASSUME LET old == {c \in sc : c.expires < hour} IN
             CallTwo(Drops(maps, "ceremonies", LAMBDA c : c.expires < hour), Deletes(sheets, "ceremonies", old),
                     TRUE, TRUE)
      PROVE  AccountBooksInv'
  <2>1. PICK old : old = {c \in sc : c.expires < hour}
    OBVIOUS
  <2>2. PICK m, p : m = Drops(maps, "ceremonies", LAMBDA c : c.expires < hour) /\ p = Deletes(sheets, "ceremonies", old)
    OBVIOUS
  <2>3. CallTwo(m, p, TRUE, TRUE)
    BY <1>6, <2>1, <2>2
  <2>4. m.ceremonies = [k \in {k \in DOMAIN mc : ~ (mc[k].expires < hour)} |-> mc[k]] /\ Only(maps, m, {"ceremonies"})
    BY <1>1, <2>2 DEF Drops, Only
  <2>5. p.ceremonies = sc \ old /\ Only(sheets, p, {"ceremonies"})
    BY <1>1, <2>2 DEF Deletes, Only
  <2>6. CeremoniesSame(m.ceremonies, p.ceremonies, holders)
    BY <1>2, <2>1, <2>4, <2>5 DEF CeremoniesSame
  <2> QED
    BY <1>3, <2>3, <2>4, <2>5, <2>6
<1> QED
  BY <1>4, <1>5, <1>6 DEF CallCeremonies

-----------------------------------------------------------------------------
(* AccountStores: the challenges of a second factor *)

LEMMA ChallengeFields ==
  ASSUME NEW c \in ChallengeRow, hour \in Nat
  PROVE  Spent(c) \in ChallengeRow /\ Spent(c).id = c.id /\ Failed(c) \in ChallengeRow /\ Failed(c).id = c.id
<1>1. Spent(c) \in ChallengeRow /\ Spent(c).id = c.id
  BY DEF Spent, ChallengeRow
<1>2. PICK n, v : n = c.failed + 1 /\ v = IF n >= MaxFailures THEN hour ELSE c.used
  OBVIOUS
<1>3. n \in Nat /\ v \in Nat
  BY <1>2 DEF ChallengeRow
<1>4. Failed(c) = [c EXCEPT !.failed = n, !.used = v]
  BY <1>2, Zenon DEF Failed
<1>5. Failed(c) \in ChallengeRow /\ Failed(c).id = c.id
  BY <1>3, <1>4 DEF ChallengeRow
<1> QED
  BY <1>1, <1>5

LEMMA ChallengesKeep ==
  ASSUME AccountBooksInv, chapter = "challenges", CallChallenges
  PROVE  AccountBooksInv'
<1> DEFINE mc == maps.challenges
           sc == sheets.challenges
<1>1. /\ "challenges" \in DOMAIN maps /\ "challenges" \in DOMAIN sheets /\ "challenges" \in MapBooks
      /\ BooksSame(maps, sheets, hour) /\ hour \in Nat /\ hour # Never /\ hour + 1 \in Nat
  BY StoresAre DEF Books, MapBooks
<1>2. ChallengesSame(mc, sc)
  BY <1>1 DEF BooksSame
<1>3. ASSUME NEW m, NEW p, NEW ma, NEW pa, CallTwo(m, p, ma, pa), ma = pa,
             Only(maps, m, {"challenges"}), Only(sheets, p, {"challenges"}),
             ChallengesSame(m.challenges, p.challenges)
      PROVE  AccountBooksInv'
  <2>1. BooksSame(m, p, hour)
    BY <1>3, FrameKeeps
  <2> QED
    BY <1>3, <2>1, CallIn
<1>4. ASSUME NEW id \in Unused("challenges"), NEW h \in Holders,
             CallTwo(Puts(maps, "challenges", id, Challenge(id, h)), Pushes(sheets, "challenges", Challenge(id, h)),
                     TRUE, TRUE)
      PROVE  AccountBooksInv'
  <2>1. PICK c : c = Challenge(id, h)
    OBVIOUS
  <2>2. PICK m, p : m = Puts(maps, "challenges", id, c) /\ p = Pushes(sheets, "challenges", c)
    OBVIOUS
  <2>3. CallTwo(m, p, TRUE, TRUE)
    BY <1>4, <2>1, <2>2, Zenon
  <2>4. c \in ChallengeRow /\ c.id = id
    BY <1>1, <2>1, UnusedIsNew DEF Challenge, ChallengeRow, Never
  <2>5. \A r \in sc : r.id # id
    BY UnusedIsNew
  <2>6. m.challenges = Put(mc, id, c) /\ Only(maps, m, {"challenges"})
    BY <1>1, <2>2 DEF Puts, Only
  <2>7. p.challenges = sc \cup {c} /\ Only(sheets, p, {"challenges"})
    BY <1>1, <2>2 DEF Pushes, Only
  <2>8. \A k \in DOMAIN m.challenges : m.challenges[k] = IF k = id THEN c ELSE mc[k]
    BY <2>6 DEF Put
  <2>9. DOMAIN m.challenges = DOMAIN mc \cup {id}
    BY <2>6 DEF Put
  <2>10. ChallengesSame(m.challenges, p.challenges)
    BY <1>2, <2>4, <2>5, <2>7, <2>8, <2>9 DEF ChallengesSame, Identified
  <2> QED
    BY <1>3, <2>3, <2>6, <2>7, <2>10
<1>5. ASSUME NEW id \in DOMAIN mc
      PROVE  /\ mc[id] \in sc /\ mc[id].id = id /\ mc[id] \in ChallengeRow
             /\ PgOpen(sheets, id) = {x \in {mc[id]} : Open(x)}
  <2>1. mc[id] \in sc /\ mc[id].id = id /\ mc[id] \in ChallengeRow /\ \A r \in sc : r.id = id => r = mc[id]
    BY <1>2, <1>5 DEF ChallengesSame, Identified
  <2> QED
    BY <2>1 DEF PgOpen, Of
<1>6. ASSUME NEW id \in DOMAIN mc, NEW d \in ChallengeRow, d.id = id, NEW m, NEW p,
             NEW ma, NEW pa, CallTwo(m, p, ma, pa), ma = pa,
             Open(mc[id]) => m = [maps EXCEPT !.challenges[id] = d], ~ Open(mc[id]) => m = maps,
             p.challenges = {IF r \in {x \in {mc[id]} : Open(x)} THEN d ELSE r : r \in sc},
             Only(sheets, p, {"challenges"})
      PROVE  AccountBooksInv'
  <2>1. CASE Open(mc[id])
    <3>1. m.challenges = [mc EXCEPT ![id] = d] /\ Only(maps, m, {"challenges"})
      BY <1>1, <1>6, <2>1 DEF Only
    <3>2. \A r : r \in p.challenges <=> r = d \/ (r \in sc /\ r # mc[id])
      BY <1>5, <1>6, <2>1
    <3>3. DOMAIN m.challenges = DOMAIN mc /\ m.challenges[id] = d /\ \A k \in DOMAIN mc : k # id => m.challenges[k] = mc[k]
      BY <1>6, <3>1
    <3>4. \A r \in sc : r.id = id => r = mc[id]
      BY <1>2, <1>5, <1>6 DEF ChallengesSame, Identified
    <3>5. p.challenges \subseteq ChallengeRow /\ Identified(p.challenges)
      BY <1>2, <1>6, <3>2, <3>4 DEF ChallengesSame, Identified
    <3>6. \A k \in DOMAIN m.challenges : m.challenges[k] \in p.challenges /\ m.challenges[k].id = k
      BY <1>2, <1>5, <1>6, <3>2, <3>3 DEF ChallengesSame
    <3> QED
      BY <1>3, <1>6, <3>1, <3>5, <3>6 DEF ChallengesSame
  <2>2. CASE ~ Open(mc[id])
    <3>1. m = maps /\ Only(maps, m, {"challenges"})
      BY <1>6, <2>2 DEF Only
    <3>2. p.challenges = sc
      BY <1>6, <2>2
    <3>3. ChallengesSame(m.challenges, p.challenges)
      BY <1>2, <3>1, <3>2, Zenon
    <3> QED
      BY <1>3, <1>6, <3>1, <3>3
  <2> QED
    BY <2>1, <2>2
<1>7. ASSUME NEW id \in DOMAIN mc,
             CallTwo(MemChallenge(maps, id, Spent), PgChallenge(sheets, id, Spent), MemOpen(maps, id),
                     PgOpen(sheets, id) # {})
      PROVE  AccountBooksInv'
  <2>1. PICK c, these, d : c = mc[id] /\ these = {x \in {c} : Open(x)} /\ d = Spent(c)
    OBVIOUS
  <2>2. PICK m, p, ma, pa : /\ m = MemChallenge(maps, id, Spent) /\ p = PgChallenge(sheets, id, Spent)
                            /\ ma = MemOpen(maps, id) /\ pa = (PgOpen(sheets, id) # {})
    OBVIOUS
  <2>3. CallTwo(m, p, ma, pa)
    BY <1>7, <2>2, Zenon
  <2>4. PgOpen(sheets, id) = these
    BY <1>5, <2>1, Zenon
  <2>5. ma = pa
    BY <2>1, <2>2, <2>4 DEF MemOpen
  <2>6. d \in ChallengeRow /\ d.id = id
    BY <1>1, <1>5, <2>1, ChallengeFields
  <2>7. /\ Open(c) => m = [maps EXCEPT !.challenges[id] = d]
        /\ ~ Open(c) => m = maps
    BY <1>1, <2>1, <2>2 DEF MemChallenge, MemOpen
  <2>8. p = Turns(sheets, "challenges", these, Spent)
    BY <2>2, <2>4, Zenon DEF PgChallenge
  <2>9. p.challenges = {IF r \in these THEN d ELSE r : r \in sc} /\ Only(sheets, p, {"challenges"})
    BY <1>1, <2>1, <2>8 DEF Turns, Only
  <2> QED
    BY <1>6, <2>1, <2>3, <2>5, <2>6, <2>7, <2>9
<1>8. ASSUME NEW id \in DOMAIN mc,
             CallTwo(MemChallenge(maps, id, Failed), PgChallenge(sheets, id, Failed),
                     Left({x \in {mc[id]} : Open(x)}), Left(PgOpen(sheets, id)))
      PROVE  AccountBooksInv'
  <2>1. PICK c, these, d : c = mc[id] /\ these = {x \in {c} : Open(x)} /\ d = Failed(c)
    OBVIOUS
  <2>2. PICK m, p : m = MemChallenge(maps, id, Failed) /\ p = PgChallenge(sheets, id, Failed)
    OBVIOUS
  <2>3. PgOpen(sheets, id) = these
    BY <1>5, <2>1, Zenon
  <2>4. CallTwo(m, p, Left(these), Left(these))
    BY <1>8, <2>1, <2>2, <2>3, Zenon
  <2>5. d \in ChallengeRow /\ d.id = id
    BY <1>1, <1>5, <2>1, ChallengeFields
  <2>6. /\ Open(c) => m = [maps EXCEPT !.challenges[id] = d]
        /\ ~ Open(c) => m = maps
    BY <1>1, <2>1, <2>2 DEF MemChallenge, MemOpen
  <2>7. p = Turns(sheets, "challenges", these, Failed)
    BY <2>2, <2>3, Zenon DEF PgChallenge
  <2>8. p.challenges = {IF r \in these THEN d ELSE r : r \in sc} /\ Only(sheets, p, {"challenges"})
    BY <1>1, <2>1, <2>7 DEF Turns, Only
  <2> QED
    BY <1>6, <2>1, <2>4, <2>5, <2>6, <2>8
<1> QED
  BY <1>4, <1>7, <1>8 DEF CallChallenges

-----------------------------------------------------------------------------
(* AccountStores: the second factor and its codes *)

LEMMA FactorFields ==
  ASSUME NEW f \in FactorRow, NEW step \in Nat, hour \in Nat
  PROVE  /\ [f EXCEPT !.enabled = hour] \in FactorRow /\ [f EXCEPT !.enabled = hour].user = f.user
         /\ [f EXCEPT !.enabled = hour].enabled = hour
         /\ [f EXCEPT !.step = step] \in FactorRow /\ [f EXCEPT !.step = step].user = f.user
         /\ [f EXCEPT !.step = step].enabled = f.enabled
  BY DEF FactorRow

\* A call that is about factors and codes.
LEMMA FactorsAlike ==
  ASSUME AccountBooksInv, chapter \in {"factors", "challenges"},
         NEW m, NEW p, NEW ma, NEW pa, CallTwo(m, p, ma, pa), ma = pa,
         Only(maps, m, {"factors", "codes"}), Only(sheets, p, {"factors", "codes"}),
         FactorsSame(m.factors, m.codes, p.factors, p.codes)
  PROVE  AccountBooksInv'
<1>1. BooksSame(m, p, hour)
  BY FrameKeeps
<1> QED
  BY <1>1, CallIn

LEMMA PendingKeeps ==
  ASSUME AccountBooksInv, chapter \in {"factors", "challenges"}, NEW h \in Holders,
         CallTwo(MemPending(maps, h), PgPending(sheets, h), TRUE, TRUE)
  PROVE  AccountBooksInv'
<1> DEFINE mf == maps.factors
           mc == maps.codes
           sf == sheets.factors
           sc == sheets.codes
<1>1. /\ {"factors", "codes"} \subseteq DOMAIN maps /\ {"factors", "codes"} \subseteq DOMAIN sheets
      /\ BooksSame(maps, sheets, hour)
  BY StoresAre DEF Books, MapBooks
<1>2. sf \subseteq FactorRow /\ MapOf("user", mf, sf) /\ CodesSame(mc, sf, sc)
  BY <1>1 DEF BooksSame, FactorsSame
<1>3. PICK m, p, e : m = MemPending(maps, h) /\ p = PgPending(sheets, h) /\ e = Enrolment(h)
  OBVIOUS
<1>4. CallTwo(m, p, TRUE, TRUE)
  BY <1>3
<1>5. e \in FactorRow /\ e.user = h /\ e.enabled = Never
  BY <1>3 DEF Enrolment, FactorRow, Never
<1>6. m.factors = Put(mf, h, e) /\ m.codes = [k \in DOMAIN mc \ {h} |-> mc[k]] /\ Only(maps, m, {"factors", "codes"})
  BY <1>1, <1>3 DEF MemPending, Only
<1>7. /\ p.factors = {f \in sf : f.user # h} \cup {e} /\ p.codes = {c \in sc : c.user # h}
      /\ Only(sheets, p, {"factors", "codes"})
  BY <1>1, <1>3 DEF PgPending, Only
<1>8. MapOf("user", m.factors, p.factors)
  <2>1. m.factors = Put(mf, e.user, e) /\ p.factors = {f \in sf : f.user # e.user} \cup {e}
    BY <1>5, <1>6, <1>7
  <2> QED
    BY <1>2, <2>1, MapPut
<1>9. CodesSame(m.codes, p.factors, p.codes)
  <2>1. ASSUME NEW f \in p.factors, f.enabled = Never  PROVE \A c \in p.codes : c.user # f.user
    BY <1>2, <1>5, <1>7, <2>1 DEF CodesSame
  <2>2. ASSUME NEW f \in p.factors, f.enabled # Never
        PROVE  /\ f.user \in DOMAIN m.codes
               /\ \A c \in m.codes[f.user] : c \in p.codes /\ c.user = f.user
               /\ \A c \in p.codes : c.user = f.user => c \in m.codes[f.user]
               /\ Identified(m.codes[f.user])
    <3>1. f \in sf /\ f.user # h
      BY <1>5, <1>7, <2>2
    <3>2. f.user \in DOMAIN mc /\ m.codes[f.user] = mc[f.user]
      BY <1>2, <1>6, <2>2, <3>1 DEF CodesSame
    <3> QED
      BY <1>2, <1>6, <1>7, <2>2, <3>1, <3>2 DEF CodesSame
  <2>3. p.codes \subseteq CodeRow
    BY <1>2, <1>7 DEF CodesSame
  <2> QED
    BY <2>1, <2>2, <2>3 DEF CodesSame
<1>10. p.factors \subseteq FactorRow
  BY <1>2, <1>5, <1>7
<1> QED
  BY <1>4, <1>6, <1>7, <1>8, <1>9, <1>10, FactorsAlike DEF FactorsSame

LEMMA EnablingKeeps ==
  ASSUME AccountBooksInv, chapter \in {"factors", "challenges"}, NEW h \in Holders, NEW code \in Marks,
         CallTwo(MemEnables(maps, h, code), PgEnables(sheets, h, code), MemMayEnable(maps, h),
                 PgMayEnable(sheets, h) # {})
  PROVE  AccountBooksInv'
<1> DEFINE mf == maps.factors
           mc == maps.codes
           sf == sheets.factors
           sc == sheets.codes
<1>1. /\ {"factors", "codes"} \subseteq DOMAIN maps /\ {"factors", "codes"} \subseteq DOMAIN sheets
      /\ BooksSame(maps, sheets, hour) /\ hour \in Nat /\ hour # Never
  BY StoresAre DEF Books, MapBooks
<1>2. sf \subseteq FactorRow /\ MapOf("user", mf, sf) /\ CodesSame(mc, sf, sc)
  BY <1>1 DEF BooksSame, FactorsSame
<1>3. PICK m, p, ma, may : /\ m = MemEnables(maps, h, code) /\ p = PgEnables(sheets, h, code)
                           /\ ma = MemMayEnable(maps, h) /\ may = PgMayEnable(sheets, h)
  OBVIOUS
<1>4. CallTwo(m, p, ma, may # {})
  BY <1>3, Zenon
<1>5. ma = (may # {})
  BY <1>2, <1>3 DEF MemMayEnable, PgMayEnable, MapOf
<1>6. CASE may = {}
  <2>1. m = maps /\ p = sheets
    BY <1>3, <1>5, <1>6 DEF MemEnables, PgEnables
  <2> QED
    BY <1>4, <1>5, <2>1, CallReads
<1>7. CASE may # {}
  <2>1. PICK f, c, e : /\ f = mf[h] /\ c = [user |-> h, id |-> code, used |-> Never]
                       /\ e = [f EXCEPT !.enabled = hour]
    OBVIOUS
  <2>2. h \in DOMAIN mf /\ f.enabled = Never
    BY <1>3, <1>5, <1>7, <2>1 DEF MemMayEnable
  <2>3. f \in sf /\ f.user = h /\ f \in FactorRow /\ may = {f} /\ \A q \in sf : q.user = h => q = f
    BY <1>2, <1>3, <2>1, <2>2 DEF MapOf, PgMayEnable
  <2>4. e \in FactorRow /\ e.user = h /\ e.enabled = hour
    BY <1>1, <2>1, <2>3, FactorFields
  <2>5. c \in CodeRow /\ c.user = h
    BY <2>1 DEF CodeRow, Never
  <2>6. m = Puts([maps EXCEPT !.factors[h].enabled = hour], "codes", h, {c})
    BY <1>3, <1>5, <1>7, <2>1 DEF MemEnables
  <2>7. m.factors = [mf EXCEPT ![h].enabled = hour] /\ m.codes = Put(mc, h, {c}) /\ Only(maps, m, {"factors", "codes"})
    BY <1>1, <2>6 DEF Puts, Only
  <2>8. p = Pushes(Turns(sheets, "factors", may, LAMBDA q : [q EXCEPT !.enabled = hour]), "codes", c)
    BY <1>3, <1>7, <2>1 DEF PgEnables
  <2>9. PICK g : g = [q \in sf |-> IF q \in may THEN [q EXCEPT !.enabled = hour] ELSE q]
    OBVIOUS
  <2>10. p.factors = {g[q] : q \in sf} /\ p.codes = sc \cup {c} /\ Only(sheets, p, {"factors", "codes"})
    BY <1>1, <2>8, <2>9 DEF Pushes, Turns, Only
  <2>11. g[f] = e /\ \A q \in sf : q # f => g[q] = q
    BY <2>1, <2>3, <2>9
  <2>12. \A q \in sf : g[q].user = q.user
    BY <2>3, <2>4, <2>11
  <2>13. DOMAIN m.factors = DOMAIN mf /\ \A k \in DOMAIN mf : m.factors[k] = g[mf[k]]
    BY <1>2, <2>1, <2>2, <2>7, <2>11 DEF MapOf
  <2>14. MapOf("user", m.factors, p.factors)
    BY <1>2, <2>10, <2>12, <2>13, MapTurn
  <2>15. \A q : q \in p.factors <=> q = e \/ (q \in sf /\ q.user # h)
    BY <2>3, <2>10, <2>11
  <2>16. DOMAIN m.codes = DOMAIN mc \cup {h} /\ m.codes[h] = {c} /\ \A k \in DOMAIN mc : k # h => m.codes[k] = mc[k]
    BY <2>7 DEF Put
  <2>17. \A r \in sc : r.user # h
    BY <1>2, <2>2, <2>3 DEF CodesSame
  <2>18. CodesSame(m.codes, p.factors, p.codes)
    <3>1. ASSUME NEW q \in p.factors, q.enabled = Never  PROVE \A r \in p.codes : r.user # q.user
      BY <1>1, <1>2, <2>4, <2>5, <2>10, <2>15, <3>1 DEF CodesSame
    <3>2. ASSUME NEW q \in p.factors, q.enabled # Never
          PROVE  /\ q.user \in DOMAIN m.codes
                 /\ \A r \in m.codes[q.user] : r \in p.codes /\ r.user = q.user
                 /\ \A r \in p.codes : r.user = q.user => r \in m.codes[q.user]
                 /\ Identified(m.codes[q.user])
      <4>1. CASE q = e
        <5>1. Identified({c})
          BY DEF Identified
        <5> QED
          BY <2>4, <2>5, <2>10, <2>16, <2>17, <4>1, <5>1
      <4>2. CASE q \in sf /\ q.user # h
        BY <1>2, <2>5, <2>10, <2>16, <3>2, <4>2 DEF CodesSame
      <4> QED
        BY <2>15, <3>2, <4>1, <4>2
    <3>3. p.codes \subseteq CodeRow
      BY <1>2, <2>5, <2>10 DEF CodesSame
    <3> QED
      BY <3>1, <3>2, <3>3 DEF CodesSame
  <2>19. p.factors \subseteq FactorRow
    BY <1>2, <2>4, <2>15
  <2> QED
    BY <1>4, <1>5, <2>7, <2>10, <2>14, <2>18, <2>19, FactorsAlike DEF FactorsSame
<1> QED
  BY <1>6, <1>7

LEMMA DisablingKeeps ==
  ASSUME AccountBooksInv, chapter \in {"factors", "challenges"}, NEW h \in Holders,
         CallTwo(MemDisables(maps, h), PgDisables(sheets, h), TRUE, TRUE)
  PROVE  AccountBooksInv'
<1> DEFINE mf == maps.factors
           mc == maps.codes
           sf == sheets.factors
           S == {"factors", "codes", "challenges"}
<1>1. S \subseteq DOMAIN maps /\ S \subseteq DOMAIN sheets /\ BooksSame(maps, sheets, hour)
  BY StoresAre DEF Books, MapBooks
<1>2. /\ sf \subseteq FactorRow /\ MapOf("user", mf, sf) /\ CodesSame(mc, sf, sheets.codes)
      /\ ChallengesSame(maps.challenges, sheets.challenges)
  BY <1>1 DEF BooksSame, FactorsSame
<1>3. PICK m, p : m = MemDisables(maps, h) /\ p = PgDisables(sheets, h)
  OBVIOUS
<1>4. CallTwo(m, p, TRUE, TRUE)
  BY <1>3
<1>5. /\ m.factors = [k \in DOMAIN mf \ {h} |-> mf[k]] /\ m.codes = [k \in DOMAIN mc \ {h} |-> mc[k]]
      /\ m.challenges = [k \in {k \in DOMAIN maps.challenges : ~ (maps.challenges[k].user = h)} |-> maps.challenges[k]]
  BY <1>1, <1>3 DEF MemDisables, Drops
<1>6. Only(maps, m, S)
  BY <1>1, <1>3 DEF MemDisables, Drops, Only
<1>7. /\ p.factors = {f \in sf : f.user # h} /\ p.codes = sheets.codes /\ p.challenges = sheets.challenges
      /\ Only(sheets, p, S)
  BY <1>1, <1>3 DEF PgDisables, Only
<1>8. MapOf("user", m.factors, p.factors)
  BY <1>2, <1>5, <1>7 DEF MapOf
<1>9. CodesSame(m.codes, p.factors, p.codes)
  <2>1. ASSUME NEW f \in p.factors, f.enabled # Never
        PROVE  f \in sf /\ f.user \in DOMAIN m.codes /\ m.codes[f.user] = mc[f.user]
    BY <1>2, <1>5, <1>7, <2>1 DEF CodesSame
  <2>2. ASSUME NEW f \in p.factors, f.enabled = Never  PROVE \A c \in p.codes : c.user # f.user
    BY <1>2, <1>7, <2>2 DEF CodesSame
  <2>3. ASSUME NEW f \in p.factors, f.enabled # Never
        PROVE  /\ f.user \in DOMAIN m.codes
               /\ \A c \in m.codes[f.user] : c \in p.codes /\ c.user = f.user
               /\ \A c \in p.codes : c.user = f.user => c \in m.codes[f.user]
               /\ Identified(m.codes[f.user])
    BY <1>2, <1>7, <2>1, <2>3 DEF CodesSame
  <2>4. p.codes \subseteq CodeRow
    BY <1>2, <1>7 DEF CodesSame
  <2> QED
    BY <2>2, <2>3, <2>4 DEF CodesSame
<1>10. ChallengesSame(m.challenges, p.challenges)
  BY <1>2, <1>5, <1>7 DEF ChallengesSame
<1>11. p.factors \subseteq FactorRow
  BY <1>2, <1>7
<1>12. FactorsSame(m.factors, m.codes, p.factors, p.codes)
  BY <1>8, <1>9, <1>11 DEF FactorsSame
<1>13. BooksSame(m, p, hour)
  BY <1>6, <1>7, <1>10, <1>12, FrameKeeps
<1> QED
  BY <1>4, <1>6, <1>7, <1>13, CallIn

LEMMA EnrolmentsKeep ==
  ASSUME AccountBooksInv, chapter \in {"factors", "challenges"}, CallEnrolments
  PROVE  AccountBooksInv'
<1>1. ASSUME NEW h \in Holders, CallTwo(MemPending(maps, h), PgPending(sheets, h), TRUE, TRUE)
      PROVE  AccountBooksInv'
  BY <1>1, PendingKeeps
<1>2. ASSUME NEW h \in Holders, CallTwo(MemDisables(maps, h), PgDisables(sheets, h), TRUE, TRUE)
      PROVE  AccountBooksInv'
  BY <1>2, DisablingKeeps
<1>3. ASSUME NEW h \in Holders, NEW code \in Marks,
             CallTwo(MemEnables(maps, h, code), PgEnables(sheets, h, code), MemMayEnable(maps, h),
                     PgMayEnable(sheets, h) # {})
      PROVE  AccountBooksInv'
  BY <1>3, EnablingKeeps
<1> QED
  BY <1>1, <1>2, <1>3, Zenon DEF CallEnrolments

LEMMA StepsKeep ==
  ASSUME AccountBooksInv, chapter = "factors", NEW h \in Holders, NEW step \in Marks,
         CallTwo(MemSteps(maps, h, step), PgSteps(sheets, h, step), MemMayStep(maps, h, step),
                 PgMayStep(sheets, h, step) # {})
  PROVE  AccountBooksInv'
<1> DEFINE mf == maps.factors
           mc == maps.codes
           sf == sheets.factors
           sc == sheets.codes
<1>1. /\ {"factors", "codes"} \subseteq DOMAIN maps /\ {"factors", "codes"} \subseteq DOMAIN sheets
      /\ BooksSame(maps, sheets, hour) /\ hour \in Nat /\ step \in Nat
  BY StoresAre, AccountStoresAssumption DEF Books, MapBooks
<1>2. sf \subseteq FactorRow /\ MapOf("user", mf, sf) /\ CodesSame(mc, sf, sc)
  BY <1>1 DEF BooksSame, FactorsSame
<1>3. PICK m, p, ma, may : /\ m = MemSteps(maps, h, step) /\ p = PgSteps(sheets, h, step)
                           /\ ma = MemMayStep(maps, h, step) /\ may = PgMayStep(sheets, h, step)
  OBVIOUS
<1>4. CallTwo(m, p, ma, may # {})
  BY <1>3, Zenon
<1>5. ma = (may # {})
  BY <1>2, <1>3 DEF MemMayStep, PgMayStep, MapOf
<1>6. PICK g : g = [q \in sf |-> IF q \in may THEN [q EXCEPT !.step = step] ELSE q]
  OBVIOUS
<1>7. p.factors = {g[q] : q \in sf} /\ Only(sheets, p, {"factors"})
  BY <1>1, <1>3, <1>6 DEF PgSteps, Turns, Only
<1>8. \A q \in sf : g[q] \in FactorRow /\ g[q].user = q.user /\ g[q].enabled = q.enabled
  BY <1>1, <1>2, <1>6, FactorFields
<1>9. DOMAIN m.factors = DOMAIN mf /\ (\A k \in DOMAIN mf : m.factors[k] = g[mf[k]]) /\ Only(maps, m, {"factors"})
  <2>1. \A k \in DOMAIN mf : mf[k] \in sf /\ mf[k].user = k
    BY <1>2 DEF MapOf
  <2>2. CASE ma
    <3>1. m = [maps EXCEPT !.factors[h].step = step]
      BY <1>3, <2>2 DEF MemSteps
    <3>2. h \in DOMAIN mf /\ \A q \in sf : q \in may <=> q = mf[h]
      BY <1>2, <1>3, <2>2 DEF MemMayStep, PgMayStep, MapOf
    <3>3. m.factors = [mf EXCEPT ![h].step = step] /\ Only(maps, m, {"factors"})
      BY <1>1, <3>1 DEF Only
    <3>4. \A k \in DOMAIN mf : mf[k] \in may <=> k = h
      BY <2>1, <3>2
    <3> QED
      BY <1>6, <2>1, <3>3, <3>4
  <2>3. CASE ~ ma
    <3>1. m = maps /\ may = {}
      BY <1>3, <1>5, <2>3 DEF MemSteps
    <3> QED
      BY <1>6, <2>1, <3>1 DEF Only
  <2> QED
    BY <2>2, <2>3
<1>10. MapOf("user", m.factors, p.factors)
  BY <1>2, <1>7, <1>8, <1>9, MapTurn
<1>11. m.codes = mc /\ p.codes = sc
  BY <1>1, <1>7, <1>9 DEF Only
<1>12. CodesSame(mc, p.factors, sc)
  BY <1>2, <1>7, <1>8 DEF CodesSame
<1>13. CodesSame(m.codes, p.factors, p.codes)
  BY <1>11, <1>12, Zenon
<1>14. p.factors \subseteq FactorRow
  BY <1>7, <1>8
<1>15. Only(maps, m, {"factors", "codes"}) /\ Only(sheets, p, {"factors", "codes"})
  BY <1>7, <1>9 DEF Only
<1> QED
  BY <1>4, <1>5, <1>10, <1>13, <1>14, <1>15, FactorsAlike DEF FactorsSame

LEMMA CodeFields ==
  ASSUME NEW c \in CodeRow, hour \in Nat
  PROVE  Spent(c) \in CodeRow /\ Spent(c).id = c.id /\ Spent(c).user = c.user
  BY DEF Spent, CodeRow

LEMMA SpendingKeeps ==
  ASSUME AccountBooksInv, chapter = "factors", NEW h \in Holders, NEW code \in Marks, Enrolled(h),
         CallTwo(MemSpends(maps, h, code), PgSpends(sheets, h, code),
                 {c \in MemUnspent(maps, h) : c.id = code}, {c \in PgUnspent(sheets, h) : c.id = code})
  PROVE  AccountBooksInv'
<1> DEFINE mf == maps.factors
           mc == maps.codes
           sf == sheets.factors
           sc == sheets.codes
<1>1. /\ {"factors", "codes"} \subseteq DOMAIN maps /\ {"factors", "codes"} \subseteq DOMAIN sheets
      /\ BooksSame(maps, sheets, hour) /\ hour \in Nat
  BY StoresAre DEF Books, MapBooks
<1>2. sf \subseteq FactorRow /\ MapOf("user", mf, sf) /\ CodesSame(mc, sf, sc) /\ sc \subseteq CodeRow
  BY <1>1 DEF BooksSame, FactorsSame, CodesSame
<1>3. PICK m, p, these : /\ m = MemSpends(maps, h, code) /\ p = PgSpends(sheets, h, code)
                         /\ these = {c \in PgUnspent(sheets, h) : c.id = code}
  OBVIOUS
<1>4. /\ h \in DOMAIN mc /\ Identified(mc[h])
      /\ \A c : c \in mc[h] <=> c \in sc /\ c.user = h
  BY <1>2 DEF Enrolled, CodesSame
<1>5. \A c : c \in these <=> c \in sc /\ c.user = h /\ c.used = Never /\ c.id = code
  BY <1>3 DEF PgUnspent
<1>6. {c \in MemUnspent(maps, h) : c.id = code} = these
  BY <1>4, <1>5 DEF MemUnspent
<1>7. CallTwo(m, p, these, these)
  BY <1>3, <1>6, Zenon
<1>8. PICK g : g = [c \in sc |-> IF c \in these THEN Spent(c) ELSE c]
  OBVIOUS
<1>9. \A c \in sc : g[c] \in CodeRow /\ g[c].id = c.id /\ g[c].user = c.user
  BY <1>1, <1>2, <1>8, CodeFields
<1>10. p.codes = {g[c] : c \in sc} /\ Only(sheets, p, {"codes"})
  BY <1>1, <1>3, <1>8 DEF PgSpends, Turns, Only
<1>11. /\ DOMAIN m.codes = DOMAIN mc /\ m.codes[h] = {g[c] : c \in mc[h]}
       /\ (\A k \in DOMAIN mc : k # h => m.codes[k] = mc[k]) /\ Only(maps, m, {"codes"})
  <2>1. CASE these # {}
    <3>1. m = [maps EXCEPT !.codes[h] = {IF c.id = code THEN Spent(c) ELSE c : c \in @}]
      <4>1. \E c \in MemUnspent(maps, h) : c.id = code
        BY <1>6, <2>1
      <4> QED
        BY <1>3, <4>1 DEF MemSpends
    <3>2. m.codes = [mc EXCEPT ![h] = {IF c.id = code THEN Spent(c) ELSE c : c \in @}] /\ Only(maps, m, {"codes"})
      BY <1>1, <3>1 DEF Only
    <3>3. \A c \in mc[h] : c \in these <=> c.id = code
      BY <1>4, <1>5, <2>1 DEF Identified
    <3>4. {IF c.id = code THEN Spent(c) ELSE c : c \in mc[h]} = {g[c] : c \in mc[h]}
      BY <1>4, <1>8, <3>3
    <3> QED
      BY <1>4, <3>2, <3>4
  <2>2. CASE these = {}
    <3>1. m = maps
      BY <1>3, <1>6, <2>2 DEF MemSpends
    <3>2. \A c \in mc[h] : g[c] = c
      BY <1>4, <1>8, <2>2
    <3> QED
      BY <3>1, <3>2 DEF Only
  <2> QED
    BY <2>1, <2>2
<1>12. CodesSame(m.codes, sf, p.codes)
  <2>1. ASSUME NEW f \in sf, f.enabled = Never  PROVE \A c \in p.codes : c.user # f.user
    BY <1>2, <1>9, <1>10, <2>1 DEF CodesSame
  <2>2. ASSUME NEW f \in sf, f.enabled # Never
        PROVE  /\ f.user \in DOMAIN m.codes
               /\ \A c \in m.codes[f.user] : c \in p.codes /\ c.user = f.user
               /\ \A c \in p.codes : c.user = f.user => c \in m.codes[f.user]
               /\ Identified(m.codes[f.user])
    <3>1. CASE f.user = h
      BY <1>4, <1>9, <1>10, <1>11, <3>1 DEF Identified
    <3>2. CASE f.user # h
      <4>1. /\ f.user \in DOMAIN mc /\ m.codes[f.user] = mc[f.user] /\ Identified(mc[f.user])
            /\ \A c : c \in mc[f.user] <=> c \in sc /\ c.user = f.user
        BY <1>2, <1>11, <2>2, <3>2 DEF CodesSame
      <4>2. \A c \in sc : c.user # h => g[c] = c
        BY <1>5, <1>8
      <4> QED
        BY <1>9, <1>10, <1>11, <3>2, <4>1, <4>2
    <3> QED
      BY <3>1, <3>2
  <2>3. p.codes \subseteq CodeRow
    BY <1>9, <1>10
  <2> QED
    BY <2>1, <2>2, <2>3 DEF CodesSame
<1>13. m.factors = mf /\ p.factors = sf
  BY <1>1, <1>10, <1>11 DEF Only
<1>14. FactorsSame(mf, m.codes, sf, p.codes)
  BY <1>2, <1>12 DEF FactorsSame
<1>15. FactorsSame(m.factors, m.codes, p.factors, p.codes)
  BY <1>13, <1>14, Zenon
<1>16. Only(maps, m, {"factors", "codes"}) /\ Only(sheets, p, {"factors", "codes"})
  BY <1>10, <1>11 DEF Only
<1> QED
  BY <1>7, <1>15, <1>16, FactorsAlike

LEMMA FactorsKeep ==
  ASSUME AccountBooksInv, chapter = "factors", CallFactors
  PROVE  AccountBooksInv'
<1>1. ASSUME NEW h \in Holders, NEW step \in Marks,
             CallTwo(MemSteps(maps, h, step), PgSteps(sheets, h, step), MemMayStep(maps, h, step),
                     PgMayStep(sheets, h, step) # {})
      PROVE  AccountBooksInv'
  BY <1>1, StepsKeep
<1>2. ASSUME NEW h \in Holders, NEW code \in Marks, Enrolled(h),
             CallTwo(MemSpends(maps, h, code), PgSpends(sheets, h, code),
                     {c \in MemUnspent(maps, h) : c.id = code}, {c \in PgUnspent(sheets, h) : c.id = code})
      PROVE  AccountBooksInv'
  BY <1>2, SpendingKeeps
<1> QED
  BY <1>1, <1>2, Zenon DEF CallFactors

-----------------------------------------------------------------------------
(* AccountStores: bank links *)

\* The row of the other adapter, from either side.
LEMMA TwinOf ==
  ASSUME NEW m, NEW s, NEW now, LinksSame(m, s, now)
  PROVE  /\ \A r \in s : \E l \in m : Twins(l, r, now)
         /\ \A l \in m : \E r \in s : Twins(l, r, now)
<1>1. ASSUME NEW l \in m  PROVE \E r \in s : Twins(l, r, now)
  <2>1. PICK r \in s : r.id = l.id
    BY DEF LinksSame
  <2>2. PICK q \in m : Twins(q, r, now)
    BY DEF LinksSame
  <2>3. q = l
    BY <2>1, <2>2 DEF LinksSame, Identified, Twins, AlikeLinks
  <2> QED
    BY <2>2, <2>3
<1> QED
  BY <1>1 DEF LinksSame

LEMMA LinksTurn ==
  ASSUME NEW m, NEW s, NEW now, LinksSame(m, s, now), NEW f, NEW g,
         \A l \in m : f[l] \in LinkRow /\ f[l].id = l.id, \A r \in s : g[r] \in LinkRow /\ g[r].id = r.id,
         \A l \in m, r \in s : Twins(l, r, now) => Twins(f[l], g[r], now),
         NEW n, n = Turned(m, f), NEW t, t = Turned(s, g)
  PROVE  LinksSame(n, t, now)
<1>1. n \subseteq LinkRow /\ t \subseteq LinkRow
  BY DEF Turned
<1>2. Identified(n) /\ Identified(t)
  BY DEF LinksSame, Identified, Turned
<1>3. ASSUME NEW x \in n  PROVE \E y \in t : y.id = x.id
  <2>1. PICK l \in m : x = f[l]
    BY DEF Turned
  <2>2. PICK r \in s : r.id = l.id
    BY DEF LinksSame
  <2>3. g[r] \in t /\ g[r].id = x.id
    BY <2>1, <2>2 DEF Turned
  <2> QED
    BY <2>3
<1>4. ASSUME NEW y \in t  PROVE \E x \in n : Twins(x, y, now)
  <2>1. PICK r \in s : y = g[r]
    BY DEF Turned
  <2>2. PICK l \in m : Twins(l, r, now)
    BY DEF LinksSame
  <2>3. f[l] \in n /\ Twins(f[l], y, now)
    BY <2>1, <2>2 DEF Turned
  <2> QED
    BY <2>3
<1> QED
  BY <1>1, <1>2, <1>3, <1>4 DEF LinksSame

LEMMA LinkedAlike ==
  ASSUME AccountBooksInv, NEW h, NEW id
  PROVE  /\ \A l \in maps.links : l \in Linked(maps, h, id) <=> l.id = id /\ l.user = h
         /\ \A r \in sheets.links : r \in Linked(sheets, h, id) <=> r.id = id /\ r.user = h
         /\ Linked(maps, h, id) \subseteq maps.links /\ Linked(sheets, h, id) \subseteq sheets.links
         /\ (Linked(maps, h, id) # {}) = (Linked(sheets, h, id) # {})
<1>1. LinksSame(maps.links, sheets.links, hour)
  BY StoresAre DEF BooksSame
<1>2. /\ \A l \in maps.links : l \in Linked(maps, h, id) <=> l.id = id /\ l.user = h
      /\ \A r \in sheets.links : r \in Linked(sheets, h, id) <=> r.id = id /\ r.user = h
      /\ Linked(maps, h, id) \subseteq maps.links /\ Linked(sheets, h, id) \subseteq sheets.links
  BY DEF Linked, Of
<1>3. Linked(maps, h, id) # {} => Linked(sheets, h, id) # {}
  <2>1. SUFFICES ASSUME NEW l \in Linked(maps, h, id)  PROVE Linked(sheets, h, id) # {}
    OBVIOUS
  <2>2. PICK r \in sheets.links : Twins(l, r, hour)
    BY <1>1, <1>2, <2>1, TwinOf
  <2> QED
    BY <1>2, <2>1, <2>2 DEF Twins, AlikeLinks
<1>4. Linked(sheets, h, id) # {} => Linked(maps, h, id) # {}
  <2>1. SUFFICES ASSUME NEW r \in Linked(sheets, h, id)  PROVE Linked(maps, h, id) # {}
    OBVIOUS
  <2>2. PICK l \in maps.links : Twins(l, r, hour)
    BY <1>1, <1>2, <2>1, TwinOf
  <2> QED
    BY <1>2, <2>1, <2>2 DEF Twins, AlikeLinks
<1> QED
  BY <1>2, <1>3, <1>4

\* What a twin is taken from is taken from the other.
LEMMA LinksDrop ==
  ASSUME NEW m, NEW s, NEW now, LinksSame(m, s, now), NEW n, n \subseteq m, NEW t, t \subseteq s,
         \A l \in m, r \in s : AlikeLinks(l, r) => (l \in n <=> r \in t)
  PROVE  LinksSame(n, t, now)
<1>1. n \subseteq LinkRow /\ t \subseteq LinkRow /\ Identified(n) /\ Identified(t)
  BY DEF LinksSame, Identified
<1>2. ASSUME NEW x \in n  PROVE \E y \in t : y.id = x.id
  <2>1. PICK r \in s : Twins(x, r, now)
    BY TwinOf
  <2> QED
    BY <2>1 DEF Twins, AlikeLinks
<1>3. ASSUME NEW y \in t  PROVE \E x \in n : Twins(x, y, now)
  <2>1. PICK l \in m : Twins(l, y, now)
    BY TwinOf
  <2> QED
    BY <2>1 DEF Twins
<1> QED
  BY <1>1, <1>2, <1>3 DEF LinksSame

LEMMA LinkAdds ==
  ASSUME NEW m, NEW s, NEW now, LinksSame(m, s, now), NEW l \in LinkRow, l.status # "syncing",
         \A q \in m : q.id # l.id, \A q \in s : q.id # l.id, NEW n, n = m \cup {l}, NEW t, t = s \cup {l}
  PROVE  LinksSame(n, t, now)
<1>1. n \subseteq LinkRow /\ t \subseteq LinkRow /\ Identified(n) /\ Identified(t)
  BY DEF LinksSame, Identified
<1>2. ASSUME NEW x \in n  PROVE \E y \in t : y.id = x.id
  BY DEF LinksSame
<1>3. ASSUME NEW y \in t  PROVE \E x \in n : Twins(x, y, now)
  <2>1. CASE y = l
    BY <2>1 DEF Twins, AlikeLinks
  <2>2. CASE y \in s
    BY <2>2 DEF LinksSame
  <2> QED
    BY <1>3, <2>1, <2>2
<1> QED
  BY <1>1, <1>2, <1>3 DEF LinksSame

\* Jobs that are taken out of both.
LEMMA JobsDrop ==
  ASSUME NEW m, NEW s, JobsSame(m, s), NEW t, t \subseteq s,
         NEW n, DOMAIN n \subseteq DOMAIN m, \A k \in DOMAIN n : n[k] = m[k],
         \A r \in s : r \in t <=> r.id \in DOMAIN n
  PROVE  JobsSame(n, t)
<1>1. t \subseteq JobRow /\ Identified(t)
  BY DEF JobsSame, Identified
<1>2. ASSUME NEW k \in DOMAIN n  PROVE n[k] \in JobRow /\ n[k].id = k /\ \E r \in t : r.id = k
  BY DEF JobsSame
<1>3. ASSUME NEW r \in t  PROVE r.id \in DOMAIN n /\ AlikeJobs(n[r.id], r)
  BY DEF JobsSame
<1> QED
  BY <1>1, <1>2, <1>3 DEF JobsSame

LEMMA LinksKeep ==
  ASSUME AccountBooksInv, chapter \in {"links", "jobs"}, CallLinks
  PROVE  AccountBooksInv'
<1> DEFINE ml == maps.links
           sl == sheets.links
           mj == maps.jobs
           sj == sheets.jobs
<1>1. /\ {"links", "jobs"} \subseteq DOMAIN maps /\ {"links", "jobs"} \subseteq DOMAIN sheets
      /\ "links" \notin MapBooks /\ BooksSame(maps, sheets, hour)
  BY StoresAre DEF Books, MapBooks
<1>2. LinksSame(ml, sl, hour) /\ JobsSame(mj, sj)
  BY <1>1 DEF BooksSame
<1>3. ASSUME NEW id \in Unused("links"), NEW h \in Holders,
             LET l == Link(id, h) IN CallTwo(Pushes(maps, "links", l), Pushes(sheets, "links", l), l, l)
      PROVE  AccountBooksInv'
  <2>1. PICK l : l = Link(id, h)
    OBVIOUS
  <2>2. PICK m, p : m = Pushes(maps, "links", l) /\ p = Pushes(sheets, "links", l)
    OBVIOUS
  <2>3. CallTwo(m, p, l, l)
    BY <1>3, <2>1, <2>2, Zenon
  <2>4. l \in LinkRow /\ l.id = id /\ l.status # "syncing"
    BY <2>1, UnusedIsNew DEF Link, LinkRow, Never
  <2>5. (\A q \in ml : q.id # l.id) /\ \A q \in sl : q.id # l.id
    BY <1>1, <2>4, UnusedIsNew
  <2>6. /\ m.links = ml \cup {l} /\ Only(maps, m, {"links"})
        /\ p.links = sl \cup {l} /\ Only(sheets, p, {"links"})
    BY <1>1, <2>2 DEF Pushes, Only
  <2>7. LinksSame(m.links, p.links, hour)
    BY <1>2, <2>4, <2>5, <2>6, LinkAdds
  <2>8. BooksSame(m, p, hour)
    BY <2>6, <2>7, FrameKeeps
  <2> QED
    BY <1>3, <2>3, <2>6, <2>8, CallIn
<1>4. ASSUME NEW id \in Marks, NEW h \in Holders,
             CallTwo(MemDisconnects(maps, h, id), PgDisconnects(sheets, h, id), Linked(maps, h, id) # {},
                     Linked(sheets, h, id) # {})
      PROVE  AccountBooksInv'
  <2>1. PICK mine, hers : mine = Linked(maps, h, id) /\ hers = Linked(sheets, h, id)
    OBVIOUS
  <2>2. PICK m, p : m = MemDisconnects(maps, h, id) /\ p = PgDisconnects(sheets, h, id)
    OBVIOUS
  <2>3. CallTwo(m, p, mine # {}, hers # {})
    BY <1>4, <2>1, <2>2, Zenon
  <2>4. /\ \A l \in ml : l \in mine <=> l.id = id /\ l.user = h
        /\ \A r \in sl : r \in hers <=> r.id = id /\ r.user = h
        /\ (mine # {}) = (hers # {})
    BY <2>1, LinkedAlike
  <2>5. m.links = ml \ mine /\ Only(maps, m, {"links", "jobs"})
    BY <1>1, <2>1, <2>2 DEF MemDisconnects, Deletes, Drops, Only
  <2>6. m.jobs = [k \in {k \in DOMAIN mj : ~ (mj[k].user = h /\ mj[k].link = id)} |-> mj[k]]
    BY <1>1, <2>2 DEF MemDisconnects, Deletes, Drops
  <2>7. p.links = sl \ hers /\ p.jobs = sj \ {j \in sj : j.user = h /\ j.link = id} /\ Only(sheets, p, {"links", "jobs"})
    BY <1>1, <2>1, <2>2 DEF PgDisconnects, Deletes, Only
  <2>8. LinksSame(m.links, p.links, hour)
    <3>1. m.links \subseteq ml /\ p.links \subseteq sl
      BY <2>5, <2>7
    <3>2. \A l \in ml, r \in sl : AlikeLinks(l, r) => (l \in m.links <=> r \in p.links)
      BY <2>4, <2>5, <2>7 DEF AlikeLinks
    <3> QED
      BY <1>2, <3>1, <3>2, LinksDrop
  <2>9. JobsSame(m.jobs, p.jobs)
    <3>1. p.jobs \subseteq sj
      BY <2>7
    <3>2. DOMAIN m.jobs \subseteq DOMAIN mj /\ \A k \in DOMAIN m.jobs : m.jobs[k] = mj[k]
      BY <2>6
    <3>3. \A r \in sj : r \in p.jobs <=> r.id \in DOMAIN m.jobs
      BY <1>2, <2>6, <2>7 DEF JobsSame, AlikeJobs
    <3> QED
      BY <1>2, <3>1, <3>2, <3>3, JobsDrop
  <2>10. BooksSame(m, p, hour)
    BY <2>5, <2>7, <2>8, <2>9, FrameKeeps
  <2> QED
    BY <1>4, <2>3, <2>4, <2>5, <2>7, <2>10, CallIn
<1> QED
  BY <1>3, <1>4 DEF CallLinks

LEMMA LinkFields ==
  ASSUME NEW l \in LinkRow, hour \in Nat
  PROVE  /\ Starts(l) \in LinkRow /\ Starts(l).id = l.id /\ Starts(l).user = l.user
         /\ Starts(l).status = "syncing" /\ Starts(l).since = hour
  BY DEF Starts, LinkRow

LEMMA SyncsKeep ==
  ASSUME AccountBooksInv, chapter = "links", CallSyncs
  PROVE  AccountBooksInv'
<1> DEFINE ml == maps.links
           sl == sheets.links
<1>1. /\ "links" \in DOMAIN maps /\ "links" \in DOMAIN sheets /\ BooksSame(maps, sheets, hour)
      /\ hour \in Nat /\ Never \in Nat
  BY StoresAre DEF Books, MapBooks, Never
<1>2. LinksSame(ml, sl, hour) /\ ml \subseteq LinkRow /\ sl \subseteq LinkRow
  BY <1>1 DEF BooksSame, LinksSame
<1>3. ASSUME NEW m, NEW p, NEW ma, NEW pa, CallTwo(m, p, ma, pa), ma = pa,
             Only(maps, m, {"links"}), Only(sheets, p, {"links"}), LinksSame(m.links, p.links, hour)
      PROVE  AccountBooksInv'
  <2>1. BooksSame(m, p, hour)
    BY <1>3, FrameKeeps
  <2> QED
    BY <1>3, <2>1, CallIn
<1>4. ASSUME NEW id \in Marks, NEW h \in Holders,
             CallTwo(Turns(maps, "links", Startable(maps, h, id, MemMayStart), Starts),
                     Turns(sheets, "links", Startable(sheets, h, id, PgMayStart), Starts),
                     Startable(maps, h, id, MemMayStart) # {}, Startable(sheets, h, id, PgMayStart) # {})
      PROVE  AccountBooksInv'
  <2>1. PICK mine, hers : mine = Startable(maps, h, id, MemMayStart) /\ hers = Startable(sheets, h, id, PgMayStart)
    OBVIOUS
  <2>2. PICK m, p : m = Turns(maps, "links", mine, Starts) /\ p = Turns(sheets, "links", hers, Starts)
    OBVIOUS
  <2>3. CallTwo(m, p, mine # {}, hers # {})
    BY <1>4, <2>1, <2>2
  <2>4. /\ \A l \in ml : l \in mine <=> l.id = id /\ l.user = h /\ MemMayStart(l)
        /\ \A r \in sl : r \in hers <=> r.id = id /\ r.user = h /\ PgMayStart(r)
        /\ mine \subseteq ml /\ hers \subseteq sl
    BY <2>1, LinkedAlike DEF Startable
  <2>5. ASSUME NEW l \in ml, NEW r \in sl, Twins(l, r, hour)  PROVE l \in mine <=> r \in hers
    <3>1. l.id = r.id /\ l.user = r.user /\ l.status = r.status
      BY <2>5 DEF Twins, AlikeLinks
    <3>2. MemMayStart(l) <=> PgMayStart(r)
      <4>1. l.since \in Nat /\ r.since \in Nat
        BY <1>2 DEF LinkRow
      <4> QED
        BY <1>1, <2>5, <3>1, <4>1 DEF Twins, MemMayStart, PgMayStart
    <3> QED
      BY <2>4, <3>1, <3>2
  <2>6. (mine # {}) = (hers # {})
    <3>1. mine # {} => hers # {}
      BY <1>2, <2>4, <2>5, TwinOf
    <3>2. hers # {} => mine # {}
      BY <1>2, <2>4, <2>5, TwinOf
    <3> QED
      BY <3>1, <3>2
  <2>7. PICK f, g : /\ f = [l \in ml |-> IF l \in mine THEN Starts(l) ELSE l]
                    /\ g = [r \in sl |-> IF r \in hers THEN Starts(r) ELSE r]
    OBVIOUS
  <2>8. m.links = Turned(ml, f) /\ Only(maps, m, {"links"})
    BY <1>1, <2>2, <2>7 DEF Turns, Only, Turned
  <2>9. p.links = Turned(sl, g) /\ Only(sheets, p, {"links"})
    BY <1>1, <2>2, <2>7 DEF Turns, Only, Turned
  <2>10. \A l \in ml : f[l] \in LinkRow /\ f[l].id = l.id
    BY <1>1, <1>2, <2>7, LinkFields
  <2>11. \A r \in sl : g[r] \in LinkRow /\ g[r].id = r.id
    BY <1>1, <1>2, <2>7, LinkFields
  <2>12. ASSUME NEW l \in ml, NEW r \in sl, Twins(l, r, hour)  PROVE Twins(f[l], g[r], hour)
    <3>1. CASE l \in mine
      <4>1. f[l] = Starts(l) /\ g[r] = Starts(r)
        BY <2>5, <2>7, <2>12, <3>1
      <4>2. /\ Starts(l).id = l.id /\ Starts(l).user = l.user /\ Starts(l).status = "syncing" /\ Starts(l).since = hour
            /\ Starts(r).id = r.id /\ Starts(r).user = r.user /\ Starts(r).status = "syncing" /\ Starts(r).since = hour
        BY <1>1, <1>2, LinkFields
      <4>3. hour <= hour
        BY <1>1
      <4> QED
        BY <2>12, <4>1, <4>2, <4>3 DEF Twins, AlikeLinks
    <3>2. CASE l \notin mine
      BY <2>5, <2>7, <2>12, <3>2
    <3> QED
      BY <3>1, <3>2
  <2>13. LinksSame(m.links, p.links, hour)
    BY <1>2, <2>8, <2>9, <2>10, <2>11, <2>12, LinksTurn
  <2> QED
    BY <1>3, <2>3, <2>6, <2>8, <2>9, <2>13
<1>5. ASSUME NEW id \in Marks, NEW h \in Holders, NEW status \in {"healthy", "error", "revoked"},
             CallTwo(MemUpdatesLink(maps, h, id, status), PgUpdatesLink(sheets, h, id, status),
                     Linked(maps, h, id) # {}, Linked(sheets, h, id) # {})
      PROVE  AccountBooksInv'
  <2>1. PICK mine, hers : mine = Linked(maps, h, id) /\ hers = Linked(sheets, h, id)
    OBVIOUS
  <2>2. PICK m, p : m = MemUpdatesLink(maps, h, id, status) /\ p = PgUpdatesLink(sheets, h, id, status)
    OBVIOUS
  <2>3. CallTwo(m, p, mine # {}, hers # {})
    BY <1>5, <2>1, <2>2, Zenon
  <2>4. /\ \A l \in ml : l \in mine <=> l.id = id /\ l.user = h
        /\ \A r \in sl : r \in hers <=> r.id = id /\ r.user = h
        /\ (mine # {}) = (hers # {})
    BY <2>1, LinkedAlike
  <2>5. PICK f, g : /\ f = [l \in ml |-> IF l \in mine THEN [l EXCEPT !.status = status, !.since = Never] ELSE l]
                    /\ g = [r \in sl |-> IF r \in hers THEN [r EXCEPT !.status = status, !.since = hour] ELSE r]
    OBVIOUS
  <2>6. m.links = Turned(ml, f) /\ Only(maps, m, {"links"})
    BY <1>1, <2>1, <2>2, <2>5 DEF MemUpdatesLink, Turns, Only, Turned
  <2>7. p.links = Turned(sl, g) /\ Only(sheets, p, {"links"})
    BY <1>1, <2>1, <2>2, <2>5 DEF PgUpdatesLink, Turns, Only, Turned
  <2>8. ASSUME NEW l \in ml
        PROVE  f[l] \in LinkRow /\ f[l].id = l.id /\ f[l].user = l.user /\ (l \in mine => f[l].status = status)
    <3>1. PICK d : d = [l EXCEPT !.status = status, !.since = Never]
      OBVIOUS
    <3>2. d \in LinkRow /\ d.id = l.id /\ d.user = l.user /\ d.status = status
      BY <1>1, <1>2, <3>1 DEF LinkRow
    <3> QED
      BY <1>2, <2>5, <3>1, <3>2
  <2>9. ASSUME NEW r \in sl
        PROVE  g[r] \in LinkRow /\ g[r].id = r.id /\ g[r].user = r.user /\ (r \in hers => g[r].status = status)
    <3>1. PICK d : d = [r EXCEPT !.status = status, !.since = hour]
      OBVIOUS
    <3>2. d \in LinkRow /\ d.id = r.id /\ d.user = r.user /\ d.status = status
      BY <1>1, <1>2, <3>1 DEF LinkRow
    <3> QED
      BY <1>2, <2>5, <3>1, <3>2
  <2>10. ASSUME NEW l \in ml, NEW r \in sl, Twins(l, r, hour)  PROVE Twins(f[l], g[r], hour)
    <3>1. l.id = r.id /\ l.user = r.user /\ (l \in mine <=> r \in hers)
      BY <2>4, <2>10 DEF Twins, AlikeLinks
    <3>2. CASE l \in mine
      <4>1. f[l].status = status /\ g[r].status = status /\ status # "syncing"
        BY <2>8, <2>9, <3>1, <3>2
      <4>2. f[l].id = g[r].id /\ f[l].user = g[r].user
        BY <2>8, <2>9, <3>1
      <4> QED
        BY <4>1, <4>2 DEF Twins, AlikeLinks
    <3>3. CASE l \notin mine
      BY <2>5, <2>10, <3>1, <3>3
    <3> QED
      BY <3>2, <3>3
  <2>11. LinksSame(m.links, p.links, hour)
    BY <1>2, <2>6, <2>7, <2>8, <2>9, <2>10, LinksTurn
  <2> QED
    BY <1>3, <2>3, <2>4, <2>6, <2>7, <2>11
<1> QED
  BY <1>4, <1>5 DEF CallSyncs

-----------------------------------------------------------------------------
(* AccountStores: the queue of webhooks *)

\* Jobs that change alike.
LEMMA JobsTurn ==
  ASSUME NEW m, NEW s, JobsSame(m, s), NEW g, \A r \in s : g[r] \in JobRow /\ g[r].id = r.id,
         NEW n, DOMAIN n = DOMAIN m, \A k \in DOMAIN m : n[k] \in JobRow /\ n[k].id = k,
         \A r \in s : AlikeJobs(n[r.id], g[r]), NEW t, t = Turned(s, g)
  PROVE  JobsSame(n, t)
<1>1. t \subseteq JobRow /\ Identified(t)
  BY DEF JobsSame, Identified, Turned
<1>2. ASSUME NEW k \in DOMAIN n  PROVE n[k] \in JobRow /\ n[k].id = k /\ \E r \in t : r.id = k
  <2>1. PICK r \in s : r.id = k
    BY DEF JobsSame
  <2>2. g[r] \in t /\ g[r].id = k
    BY <2>1 DEF Turned
  <2> QED
    BY <2>2
<1>3. ASSUME NEW y \in t  PROVE y.id \in DOMAIN n /\ AlikeJobs(n[y.id], y)
  <2>1. PICK r \in s : y = g[r]
    BY DEF Turned
  <2>2. r.id \in DOMAIN m /\ y.id = r.id
    BY <2>1 DEF JobsSame
  <2> QED
    BY <2>1, <2>2
<1> QED
  BY <1>1, <1>2, <1>3 DEF JobsSame

LEMMA JobFields ==
  ASSUME NEW j \in JobRow, hour \in Nat
  PROVE  /\ j.attempts \in Nat /\ j.updated \in Nat /\ j.at \in Nat
         /\ Worked(j) \in JobRow /\ Worked(j).id = j.id
         /\ Worked(j) = [id |-> j.id, user |-> j.user, link |-> j.link, status |-> "processing",
                         attempts |-> j.attempts + 1, at |-> j.at, created |-> j.created, updated |-> hour]
<1>1. j.attempts \in Nat /\ j.updated \in Nat /\ j.at \in Nat
  BY DEF JobRow
<1>2. PICK n : n = j.attempts + 1
  OBVIOUS
<1>3. Worked(j) = [j EXCEPT !.status = "processing", !.attempts = n, !.updated = hour]
  BY <1>2, Zenon DEF Worked
<1>4. Worked(j) = [id |-> j.id, user |-> j.user, link |-> j.link, status |-> "processing",
                   attempts |-> n, at |-> j.at, created |-> j.created, updated |-> hour]
  BY <1>3 DEF JobRow
<1>5. Worked(j) \in JobRow /\ Worked(j).id = j.id
  BY <1>1, <1>2, <1>4 DEF JobRow
<1> QED
  BY <1>1, <1>2, <1>4, <1>5

\* A job, once it was worked at, is the same in both.
LEMMA WorkedAlike ==
  ASSUME NEW j \in JobRow, NEW k \in JobRow, AlikeJobs(j, k), hour \in Nat
  PROVE  Due(j) = Due(k) /\ Worked(j) = Worked(k) /\ AlikeJobs(Worked(j), Worked(k))
<1>1. Worked(j) = Worked(k)
  BY JobFields DEF AlikeJobs
<1>2. Due(j) = Due(k)
  BY DEF Due, AlikeJobs
<1> QED
  BY <1>1, <1>2 DEF AlikeJobs

LEMMA JobsKeep ==
  ASSUME AccountBooksInv, chapter = "jobs", CallJobs
  PROVE  AccountBooksInv'
<1> DEFINE mj == maps.jobs
           sj == sheets.jobs
<1>1. /\ "jobs" \in DOMAIN maps /\ "jobs" \in DOMAIN sheets /\ "jobs" \in MapBooks
      /\ BooksSame(maps, sheets, hour) /\ hour \in Nat /\ hour + 1 \in Nat
  BY StoresAre DEF Books, MapBooks
<1>2. JobsSame(mj, sj) /\ LinksSame(maps.links, sheets.links, hour)
  BY <1>1 DEF BooksSame
<1>3. ASSUME NEW m, NEW p, NEW ma, NEW pa, CallTwo(m, p, ma, pa), ma = pa,
             Only(maps, m, {"jobs"}), Only(sheets, p, {"jobs"}), JobsSame(m.jobs, p.jobs)
      PROVE  AccountBooksInv'
  <2>1. BooksSame(m, p, hour)
    BY <1>3, FrameKeeps
  <2> QED
    BY <1>3, <2>1, CallIn
<1>4. /\ \A k \in DOMAIN mj : mj[k] \in JobRow /\ mj[k].id = k /\ \E r \in sj : r.id = k /\ AlikeJobs(mj[k], r)
      /\ \A r \in sj : r \in JobRow /\ r.id \in DOMAIN mj /\ AlikeJobs(mj[r.id], r)
  BY <1>2 DEF JobsSame
<1>5. ASSUME NEW id \in Unused("jobs"), NEW l \in sheets.links,
             LET j == Job(id, l) IN
             CallTwo(IF MemRepeats(maps, j) THEN maps ELSE Puts(maps, "jobs", id, j),
                     IF PgRepeats(sheets, j) THEN sheets ELSE Pushes(sheets, "jobs", j),
                     MemRepeats(maps, j), PgRepeats(sheets, j))
      PROVE  AccountBooksInv'
  <2>1. PICK j, ma, pa : j = Job(id, l) /\ ma = MemRepeats(maps, j) /\ pa = PgRepeats(sheets, j)
    OBVIOUS
  <2>2. PICK m, p : /\ m = IF ma THEN maps ELSE Puts(maps, "jobs", id, j)
                    /\ p = IF pa THEN sheets ELSE Pushes(sheets, "jobs", j)
    OBVIOUS
  <2>3. CallTwo(m, p, ma, pa)
    BY <1>5, <2>1, <2>2, Zenon
  <2>4. ma = pa
    <3>1. MemRepeats(maps, j) => PgRepeats(sheets, j)
      BY <1>4 DEF MemRepeats, PgRepeats, Values, AlikeJobs
    <3>2. PgRepeats(sheets, j) => MemRepeats(maps, j)
      BY <1>4 DEF MemRepeats, PgRepeats, Values, AlikeJobs
    <3>3. MemRepeats(maps, j) \in BOOLEAN /\ PgRepeats(sheets, j) \in BOOLEAN
      BY DEF MemRepeats, PgRepeats
    <3> QED
      BY <2>1, <3>1, <3>2, <3>3
  <2>5. CASE pa
    <3>1. m = maps /\ p = sheets
      BY <2>2, <2>4, <2>5
    <3> QED
      BY <2>3, <2>4, <3>1, CallReads
  <2>6. CASE ~ pa
    <3>1. j \in JobRow /\ j.id = id
      <4>1. l \in LinkRow
        BY <1>2 DEF LinksSame
      <4> QED
        BY <1>1, <2>1, <4>1, UnusedIsNew DEF Job, JobRow, LinkRow
    <3>2. id \notin DOMAIN mj /\ \A r \in sj : r.id # id
      BY <1>1, <1>4, UnusedIsNew
    <3>3. m = Puts(maps, "jobs", id, j) /\ p = Pushes(sheets, "jobs", j)
      BY <2>2, <2>4, <2>6
    <3>4. m.jobs = Put(mj, id, j) /\ Only(maps, m, {"jobs"})
      BY <1>1, <3>3 DEF Puts, Only
    <3>5. p.jobs = sj \cup {j} /\ Only(sheets, p, {"jobs"})
      BY <1>1, <3>3 DEF Pushes, Only
    <3>6. DOMAIN m.jobs = DOMAIN mj \cup {id} /\ m.jobs[id] = j /\ \A k \in DOMAIN mj : m.jobs[k] = mj[k]
      BY <3>2, <3>4 DEF Put
    <3>7. p.jobs \subseteq JobRow /\ Identified(p.jobs)
      BY <1>2, <3>1, <3>2, <3>5 DEF JobsSame, Identified
    <3>8. AlikeJobs(j, j)
      BY DEF AlikeJobs
    <3>9. JobsSame(m.jobs, p.jobs)
      BY <1>4, <3>1, <3>5, <3>6, <3>7, <3>8 DEF JobsSame
    <3> QED
      BY <1>3, <2>3, <2>4, <3>4, <3>5, <3>9
  <2> QED
    BY <2>5, <2>6
<1>6. ASSUME CallTwo(MemClaimsJobs(maps), PgClaimsJobs(sheets), Handed(Values(mj)), Handed(sj))
      PROVE  AccountBooksInv'
  <2>1. PICK m, p, ma, pa : /\ m = MemClaimsJobs(maps) /\ p = PgClaimsJobs(sheets)
                            /\ ma = Handed(Values(mj)) /\ pa = Handed(sj)
    OBVIOUS
  <2>2. CallTwo(m, p, ma, pa)
    BY <1>6, <2>1
  <2>3. \A r \in sj : Due(mj[r.id]) = Due(r) /\ Worked(mj[r.id]) = Worked(r) /\ AlikeJobs(Worked(mj[r.id]), Worked(r))
    BY <1>1, <1>4, WorkedAlike
  <2>4. ma = pa
    <3>1. \A x : x \in ma => x \in pa
      <4>1. SUFFICES ASSUME NEW k \in DOMAIN mj, Due(mj[k])  PROVE Worked(mj[k]) \in pa
        BY <2>1 DEF Handed, Values
      <4>2. PICK r \in sj : r.id = k
        BY <1>4
      <4>3. Due(r) /\ Worked(mj[k]) = Worked(r)
        BY <2>3, <4>1, <4>2
      <4> QED
        BY <2>1, <4>3 DEF Handed
    <3>2. \A x : x \in pa => x \in ma
      <4>1. SUFFICES ASSUME NEW r \in sj, Due(r)  PROVE Worked(r) \in ma
        BY <2>1 DEF Handed
      <4>2. r.id \in DOMAIN mj /\ Due(mj[r.id]) /\ Worked(mj[r.id]) = Worked(r)
        BY <1>4, <2>3, <4>1
      <4> QED
        BY <2>1, <4>2 DEF Handed, Values
    <3> QED
      BY <2>1, <3>1, <3>2 DEF Handed
  <2>5. PICK f, g : /\ f = [k \in DOMAIN mj |-> IF Due(mj[k]) THEN Worked(mj[k]) ELSE mj[k]]
                    /\ g = [r \in sj |-> IF Due(r) THEN Worked(r) ELSE r]
    OBVIOUS
  <2>6. m.jobs = f /\ Only(maps, m, {"jobs"})
    BY <1>1, <2>1, <2>5 DEF MemClaimsJobs, Only
  <2>7. p.jobs = Turned(sj, g) /\ Only(sheets, p, {"jobs"})
    <3>1. PICK due : due = {j \in sj : Due(j)}
      OBVIOUS
    <3>2. p = Turns(sheets, "jobs", due, Worked)
      BY <2>1, <3>1, Zenon DEF PgClaimsJobs
    <3>3. p.jobs = {IF r \in due THEN Worked(r) ELSE r : r \in sj} /\ Only(sheets, p, {"jobs"})
      BY <1>1, <3>2 DEF Turns, Only
    <3> QED
      BY <2>5, <3>1, <3>3 DEF Turned
  <2>8. \A k \in DOMAIN mj : f[k] \in JobRow /\ f[k].id = k
    BY <1>1, <1>4, <2>5, JobFields
  <2>9. \A r \in sj : g[r] \in JobRow /\ g[r].id = r.id
    BY <1>1, <1>4, <2>5, JobFields
  <2>10. \A r \in sj : AlikeJobs(f[r.id], g[r])
    BY <1>4, <2>3, <2>5
  <2>11. JobsSame(m.jobs, p.jobs)
    <3>1. DOMAIN m.jobs = DOMAIN mj /\ \A k \in DOMAIN mj : m.jobs[k] \in JobRow /\ m.jobs[k].id = k
      BY <2>5, <2>6, <2>8
    <3>2. \A r \in sj : AlikeJobs(m.jobs[r.id], g[r])
      BY <2>6, <2>10
    <3> QED
      BY <1>2, <2>7, <2>9, <3>1, <3>2, JobsTurn
  <2> QED
    BY <1>3, <2>2, <2>4, <2>6, <2>7, <2>11
<1>7. ASSUME NEW id \in Marks, NEW status \in {"completed", "pending", "failed"},
             CallTwo(MemSettles(maps, id, status, hour + 1), PgSettles(sheets, id, status, hour + 1), TRUE, TRUE)
      PROVE  AccountBooksInv'
  <2>1. PICK m, p, these : /\ m = MemSettles(maps, id, status, hour + 1)
                           /\ p = PgSettles(sheets, id, status, hour + 1)
                           /\ these = Of(sheets, "jobs", id)
    OBVIOUS
  <2>2. CallTwo(m, p, TRUE, TRUE)
    BY <1>7, <2>1, Zenon
  <2>3. \A r \in sj : r \in these <=> r.id = id
    BY <2>1 DEF Of
  <2>4. PICK f, g : /\ f = [k \in DOMAIN mj |->
                              IF k # id THEN mj[k]
                              ELSE IF status = "completed" THEN [mj[k] EXCEPT !.status = status]
                              ELSE [mj[k] EXCEPT !.status = status, !.at = hour + 1, !.updated = hour]]
                    /\ g = [r \in sj |->
                              IF r \in these
                              THEN [r EXCEPT !.status = status, !.updated = hour,
                                             !.at = IF status = "completed" THEN @ ELSE hour + 1] ELSE r]
    OBVIOUS
  <2>5. p.jobs = Turned(sj, g) /\ Only(sheets, p, {"jobs"})
    BY <1>1, <2>1, <2>4 DEF PgSettles, Turns, Only, Turned
  <2>6. DOMAIN m.jobs = DOMAIN mj /\ (\A k \in DOMAIN mj : m.jobs[k] = f[k]) /\ Only(maps, m, {"jobs"})
    <3>1. CASE id \in DOMAIN mj
      <4>1. m = [maps EXCEPT !.jobs[id] = IF status = "completed" THEN [@ EXCEPT !.status = status]
                                          ELSE [@ EXCEPT !.status = status, !.at = hour + 1, !.updated = hour]]
        BY <2>1, <3>1, Zenon DEF MemSettles
      <4>2. PICK d : d = IF status = "completed" THEN [mj[id] EXCEPT !.status = status]
                         ELSE [mj[id] EXCEPT !.status = status, !.at = hour + 1, !.updated = hour]
        OBVIOUS
      <4>3. m = [maps EXCEPT !.jobs = [mj EXCEPT ![id] = d]]
        BY <1>1, <3>1, <4>1, <4>2
      <4>4. m.jobs = [mj EXCEPT ![id] = d] /\ Only(maps, m, {"jobs"})
        BY <1>1, <4>3 DEF Only
      <4>5. f[id] = d /\ \A k \in DOMAIN mj : k # id => f[k] = mj[k]
        BY <2>4, <3>1, <4>2
      <4> QED
        BY <3>1, <4>4, <4>5
    <3>2. CASE id \notin DOMAIN mj
      <4>1. m = maps
        BY <2>1, <3>2 DEF MemSettles
      <4> QED
        BY <2>4, <3>2, <4>1 DEF Only
    <3> QED
      BY <3>1, <3>2
  <2>7. ASSUME NEW k \in DOMAIN mj  PROVE f[k] \in JobRow /\ f[k].id = k
    <3>1. mj[k] \in JobRow /\ mj[k].id = k
      BY <1>4
    <3>2. PICK d, e : d = [mj[k] EXCEPT !.status = status] /\ e = [mj[k] EXCEPT !.status = status, !.at = hour + 1, !.updated = hour]
      OBVIOUS
    <3>3. d \in JobRow /\ d.id = k /\ e \in JobRow /\ e.id = k
      BY <1>1, <3>1, <3>2 DEF JobRow
    <3> QED
      BY <2>4, <3>1, <3>2, <3>3
  <2>8. ASSUME NEW r \in sj  PROVE g[r] \in JobRow /\ g[r].id = r.id
    <3>1. PICK at : at = IF status = "completed" THEN r.at ELSE hour + 1
      OBVIOUS
    <3>2. at \in Nat /\ r \in JobRow
      BY <1>1, <1>4, <3>1, JobFields
    <3>3. r \in these => g[r] = [r EXCEPT !.status = status, !.updated = hour, !.at = at]
      BY <2>4, <3>1, Zenon
    <3>4. PICK d : d = [r EXCEPT !.status = status, !.updated = hour, !.at = at]
      OBVIOUS
    <3>5. d \in JobRow /\ d.id = r.id
      BY <1>1, <3>2, <3>4 DEF JobRow
    <3>6. r \notin these => g[r] = r
      BY <2>4
    <3> QED
      BY <3>2, <3>3, <3>4, <3>5, <3>6
  <2>9. ASSUME NEW r \in sj  PROVE AlikeJobs(f[r.id], g[r])
    <3>1. r.id \in DOMAIN mj /\ AlikeJobs(mj[r.id], r) /\ r \in JobRow /\ mj[r.id] \in JobRow
      BY <1>4
    <3>2. CASE r.id # id
      BY <2>3, <2>4, <3>1, <3>2
    <3>3. CASE r.id = id
      <4>1. PICK j : j = mj[r.id]
        OBVIOUS
      <4>2. f[r.id] = IF status = "completed" THEN [j EXCEPT !.status = status]
                      ELSE [j EXCEPT !.status = status, !.at = hour + 1, !.updated = hour]
        BY <2>4, <3>1, <3>3, <4>1
      <4>3. g[r] = [r EXCEPT !.status = status, !.updated = hour,
                             !.at = IF status = "completed" THEN @ ELSE hour + 1]
        BY <2>3, <2>4, <3>3
      <4>4. j \in JobRow /\ AlikeJobs(j, r)
        BY <3>1, <4>1
      <4>5. CASE status = "completed"
        <5>1. f[r.id] = [j EXCEPT !.status = status]
          BY <4>2, <4>5
        <5>2. g[r] = [r EXCEPT !.status = status, !.updated = hour]
          BY <3>1, <4>3, <4>5 DEF JobRow
        <5> QED
          BY <3>1, <4>4, <4>5, <5>1, <5>2 DEF AlikeJobs, JobRow
      <4>6. CASE status # "completed"
        <5>1. f[r.id] = [j EXCEPT !.status = status, !.at = hour + 1, !.updated = hour]
          BY <4>2, <4>6
        <5>2. g[r] = [r EXCEPT !.status = status, !.updated = hour, !.at = hour + 1]
          BY <4>3, <4>6
        <5> QED
          BY <3>1, <4>4, <4>6, <5>1, <5>2 DEF AlikeJobs, JobRow
      <4> QED
        BY <4>5, <4>6
    <3> QED
      BY <3>2, <3>3
  <2>10. JobsSame(m.jobs, p.jobs)
    <3>1. \A k \in DOMAIN mj : m.jobs[k] \in JobRow /\ m.jobs[k].id = k
      BY <2>6, <2>7
    <3>2. \A r \in sj : AlikeJobs(m.jobs[r.id], g[r])
      BY <1>4, <2>6, <2>9
    <3> QED
      BY <1>2, <2>5, <2>6, <2>8, <3>1, <3>2, JobsTurn
  <2> QED
    BY <1>3, <2>2, <2>5, <2>6, <2>10
<1> QED
  BY <1>5, <1>6, <1>7 DEF CallJobs

-----------------------------------------------------------------------------
(* AccountStores: users *)

LEMMA UserOf ==
  ASSUME NEW mu, NEW mp, NEW su, UsersSame(mu, mp, su)
  PROVE  \A h \in DOMAIN mu : mu[h] \in UserRow /\ mu[h].id = h /\ \E u \in su : u.id = h /\ AlikeUsers(mu[h], u)
<1>1. SUFFICES ASSUME NEW h \in DOMAIN mu
               PROVE  mu[h] \in UserRow /\ mu[h].id = h /\ \E u \in su : u.id = h /\ AlikeUsers(mu[h], u)
  OBVIOUS
<1>2. PICK u \in su : u.id = h
  BY DEF UsersSame
<1>3. AlikeUsers(mu[h], u)
  BY <1>2 DEF UsersSame
<1> QED
  BY <1>2, <1>3 DEF UsersSame, AlikeUsers

\* What a change leaves of the users, and of who waits for deletion.
KeepsUsers(su, g) == \A u \in su : g[u] \in UserRow /\ g[u].id = u.id /\ g[u].user = u.user
UsersAre(n, su, g) == (\A h \in DOMAIN n : n[h] \in UserRow) /\ \A u \in su : AlikeUsers(n[u.id], g[u])
PendingAre(np, su, g) ==
    /\ \A h \in DOMAIN np : \E u \in su : u.id = h /\ g[u].status = "pending"
    /\ \A u \in su : g[u].status = "pending" => u.id \in DOMAIN np /\ np[u.id] = g[u].due

\* Users that change alike.
LEMMA UsersTurn ==
  ASSUME NEW mu, NEW mp, NEW su, UsersSame(mu, mp, su), NEW g, KeepsUsers(su, g),
         NEW n, DOMAIN n = DOMAIN mu, UsersAre(n, su, g), NEW np, PendingAre(np, su, g),
         NEW t, t = Turned(su, g)
  PROVE  UsersSame(n, np, t) /\ HoldersOf(t) = HoldersOf(su)
<1>0. /\ \A u \in su : g[u] \in UserRow /\ g[u].id = u.id /\ g[u].user = u.user /\ AlikeUsers(n[u.id], g[u])
      /\ \A h \in DOMAIN n : n[h] \in UserRow
  BY DEF KeepsUsers, UsersAre
<1>1. t \subseteq UserRow /\ Identified(t) /\ \A u \in t : u.user = u.id
  BY <1>0 DEF UsersSame, Identified, Turned
<1>2. ASSUME NEW h \in DOMAIN n  PROVE n[h] \in UserRow /\ \E u \in t : u.id = h
  <2>1. PICK u \in su : u.id = h
    BY DEF UsersSame
  <2>2. g[u] \in t /\ g[u].id = h
    BY <1>0, <2>1 DEF Turned
  <2> QED
    BY <1>0, <2>2
<1>3. ASSUME NEW v \in t  PROVE v.id \in DOMAIN n /\ AlikeUsers(n[v.id], v)
                                /\ (v.status = "pending" => v.id \in DOMAIN np /\ np[v.id] = v.due)
  <2>1. PICK u \in su : v = g[u]
    BY DEF Turned
  <2>2. u.id \in DOMAIN mu /\ v.id = u.id
    BY <1>0, <2>1 DEF UsersSame
  <2>3. v.status = "pending" => u.id \in DOMAIN np /\ np[u.id] = v.due
    BY <2>1 DEF PendingAre
  <2> QED
    BY <1>0, <2>1, <2>2, <2>3
<1>4. ASSUME NEW h \in DOMAIN np  PROVE \E v \in t : v.id = h /\ v.status = "pending"
  <2>1. PICK u \in su : u.id = h /\ g[u].status = "pending"
    BY DEF PendingAre
  <2>2. g[u] \in t /\ g[u].id = h
    BY <1>0, <2>1 DEF Turned
  <2> QED
    BY <2>1, <2>2
<1>5. HoldersOf(t) = HoldersOf(su)
  <2>1. \A x : x \in HoldersOf(t) => x \in HoldersOf(su)
    BY <1>0 DEF HoldersOf, Turned
  <2>2. \A x : x \in HoldersOf(su) => x \in HoldersOf(t)
    BY <1>0 DEF HoldersOf, Turned
  <2>3. HoldersOf(t) = {u.id : u \in t} /\ HoldersOf(su) = {u.id : u \in su}
    BY DEF HoldersOf
  <2> QED
    BY <2>1, <2>2, <2>3
<1> QED
  BY <1>1, <1>2, <1>3, <1>4, <1>5 DEF UsersSame

\* A call that is about users, and leaves who they are.
LEMMA UsersAlike ==
  ASSUME AccountBooksInv, NEW m, NEW p, NEW ma, NEW pa, CallTwo(m, p, ma, pa), ma = pa,
         Only(maps, m, {"users", "pending"}), Only(sheets, p, {"users", "pending"}),
         UsersSame(m.users, m.pending, p.users), HoldersOf(p.users) = HoldersOf(sheets.users)
  PROVE  AccountBooksInv'
<1>1. m.actions = maps.actions /\ p.actions = sheets.actions /\ m.ceremonies = maps.ceremonies
      /\ p.ceremonies = sheets.ceremonies
  BY StoresAre DEF Only, Books, MapBooks
<1>2. /\ ActionsSame(maps.actions, sheets.actions, HoldersOf(sheets.users))
      /\ CeremoniesSame(maps.ceremonies, sheets.ceremonies, HoldersOf(sheets.users))
  BY StoresAre DEF BooksSame
<1>3. /\ ActionsSame(m.actions, p.actions, HoldersOf(p.users))
      /\ CeremoniesSame(m.ceremonies, p.ceremonies, HoldersOf(p.users))
  BY <1>1, <1>2, Zenon
<1>4. BooksSame(m, p, hour)
  BY <1>3, FrameKeeps
<1> QED
  BY <1>4, CallIn

LEMMA UsersKeep ==
  ASSUME AccountBooksInv, chapter = "users", CallUsers
  PROVE  AccountBooksInv'
<1> DEFINE mu == maps.users
           mp == maps.pending
           su == sheets.users
<1>1. /\ {"users", "pending", "consents"} \subseteq DOMAIN maps /\ {"users", "consents"} \subseteq DOMAIN sheets
      /\ BooksSame(maps, sheets, hour) /\ hour \in Nat /\ hour # Never
      /\ maps.actions = {} /\ DOMAIN maps.ceremonies = {}
  BY StoresAre DEF Books, MapBooks, AccountBooksInv
<1>2. UsersSame(mu, mp, su) /\ maps.consents = sheets.consents
  BY <1>1 DEF BooksSame
<1>3. \A h \in DOMAIN mu : mu[h] \in UserRow /\ mu[h].id = h /\ \E u \in su : u.id = h /\ AlikeUsers(mu[h], u)
  BY <1>2, UserOf
<1>4. \A h : Present(h) <=> h \in DOMAIN mu
  BY <1>2 DEF Present, Of, UsersSame
<1>5. ASSUME NEW h \in Holders, CallTwo(MemRegister(maps, h), PgRegister(sheets, h), h \in DOMAIN mu, Present(h))
      PROVE  AccountBooksInv'
  <2>1. PICK m, p, ma, pa : /\ m = MemRegister(maps, h) /\ p = PgRegister(sheets, h)
                            /\ ma = (h \in DOMAIN mu) /\ pa = Present(h)
    OBVIOUS
  <2>2. CallTwo(m, p, ma, pa)
    BY <1>5, <2>1, Zenon
  <2>3. ma = pa
    <3>1. Present(h) \in BOOLEAN
      BY DEF Present
    <3> QED
      BY <1>4, <2>1, <3>1
  <2>4. CASE Present(h)
    <3>1. m = maps /\ p = sheets
      BY <1>4, <2>1, <2>4 DEF MemRegister, PgRegister, Present
    <3> QED
      BY <2>2, <2>3, <3>1, CallReads
  <2>5. CASE ~ Present(h)
    <3> DEFINE S == {"users", "consents"}
    <3>1. PICK a, c : a = Account(h) /\ c = Terms(h)
      OBVIOUS
    <3>2. m = Pushes(Puts(maps, "users", h, a), "consents", c) /\ p = Pushes(Pushes(sheets, "users", a), "consents", c)
      BY <1>4, <2>1, <2>5, <3>1 DEF MemRegister, PgRegister, Present
    <3>3. m.users = Put(mu, h, a) /\ m.pending = mp /\ m.consents = maps.consents \cup {c} /\ Only(maps, m, S)
      BY <1>1, <3>2 DEF Pushes, Puts, Only
    <3>4. p.users = su \cup {a} /\ p.consents = sheets.consents \cup {c} /\ Only(sheets, p, S)
      BY <1>1, <3>2 DEF Pushes, Only
    <3>5. a \in UserRow /\ a.id = h /\ a.user = h /\ a.status = "active"
      BY <3>1 DEF Account, UserRow, Never
    <3>6. DOMAIN m.users = DOMAIN mu \cup {h} /\ m.users[h] = a /\ \A k \in DOMAIN mu : m.users[k] = mu[k]
      BY <1>4, <2>5, <3>3 DEF Put
    <3>7. \A u \in su : u.id # h
      BY <1>2, <1>4, <2>5 DEF UsersSame
    <3>8. UsersSame(m.users, mp, p.users)
      <4>1. p.users \subseteq UserRow /\ Identified(p.users) /\ \A u \in p.users : u.user = u.id
        BY <1>2, <3>4, <3>5, <3>7 DEF UsersSame, Identified
      <4>2. \A k \in DOMAIN m.users : m.users[k] \in UserRow /\ \E u \in p.users : u.id = k
        BY <1>3, <3>4, <3>5, <3>6
      <4>3. \A u \in p.users : u.id \in DOMAIN m.users /\ AlikeUsers(m.users[u.id], u)
        <5>1. AlikeUsers(a, a)
          BY DEF AlikeUsers
        <5> QED
          BY <1>2, <3>4, <3>5, <3>6, <5>1 DEF UsersSame
      <4>4. \A k \in DOMAIN mp : \E u \in p.users : u.id = k /\ u.status = "pending"
        BY <1>2, <3>4 DEF UsersSame
      <4>5. \A u \in p.users : u.status = "pending" => u.id \in DOMAIN mp /\ mp[u.id] = u.due
        BY <1>2, <3>4, <3>5 DEF UsersSame
      <4> QED
        BY <4>1, <4>2, <4>3, <4>4, <4>5 DEF UsersSame
    <3>9. ActionsSame(m.actions, p.actions, HoldersOf(p.users))
      <4>1. m.actions = {} /\ p.actions = sheets.actions
        BY <1>1, <3>3, <3>4, StoresAre DEF Only, Books, MapBooks
      <4>2. sheets.actions = {}
        BY <1>1 DEF BooksSame, ActionsSame
      <4> QED
        BY <4>1, <4>2 DEF ActionsSame, Identified
    <3>10. CeremoniesSame(m.ceremonies, p.ceremonies, HoldersOf(p.users))
      <4>1. m.ceremonies = maps.ceremonies /\ p.ceremonies = sheets.ceremonies
        BY <1>1, <3>3, <3>4, StoresAre DEF Only, Books, MapBooks
      <4>2. \A r \in sheets.ceremonies : FALSE
        BY <1>1 DEF BooksSame, CeremoniesSame
      <4> QED
        BY <1>1, <4>1, <4>2 DEF CeremoniesSame
    <3>11. UsersSame(m.users, m.pending, p.users) /\ m.consents = p.consents
      <4>1. m.consents = p.consents
        BY <1>2, <3>3, <3>4
      <4> QED
        BY <3>3, <3>8, <4>1
    <3>12. BooksSame(m, p, hour)
      BY <3>3, <3>4, <3>9, <3>10, <3>11, FrameKeeps
    <3> QED
      BY <2>2, <2>3, <3>3, <3>4, <3>12, CallIn
  <2> QED
    BY <2>4, <2>5
<1>6. ASSUME NEW g, NEW m, NEW p, CallTwo(m, p, TRUE, TRUE), KeepsUsers(su, g),
             \A u \in su : g[u].status = u.status /\ g[u].due = u.due,
             DOMAIN m.users = DOMAIN mu, UsersAre(m.users, su, g), Only(maps, m, {"users"}),
             p.users = Turned(su, g), Only(sheets, p, {"users"})
      PROVE  AccountBooksInv'
  <2>1. m.pending = mp
    BY <1>1, <1>6 DEF Only
  <2>2. PendingAre(mp, su, g)
    BY <1>2, <1>6 DEF UsersSame, PendingAre
  <2>3. PICK n, t : n = m.users /\ t = Turned(su, g)
    OBVIOUS
  <2>4. DOMAIN n = DOMAIN mu /\ UsersAre(n, su, g) /\ KeepsUsers(su, g)
    BY <1>6, <2>3
  <2>5. UsersSame(n, mp, t) /\ HoldersOf(t) = HoldersOf(su)
    <3> HIDE DEF mu, mp, su
    <3> QED
      BY <1>2, <2>2, <2>3, <2>4, UsersTurn
  <2>6. UsersSame(m.users, m.pending, p.users) /\ HoldersOf(p.users) = HoldersOf(su)
    BY <1>6, <2>1, <2>3, <2>5
  <2>7. Only(maps, m, {"users", "pending"}) /\ Only(sheets, p, {"users", "pending"})
    BY <1>6 DEF Only
  <2> QED
    BY <1>6, <2>6, <2>7, UsersAlike
<1>7. ASSUME NEW h \in Holders, CallTwo(MemVerified(maps, h), PgVerified(sheets, h), TRUE, TRUE)
      PROVE  AccountBooksInv'
  <2>1. PICK m, p, these : m = MemVerified(maps, h) /\ p = PgVerified(sheets, h) /\ these = Of(sheets, "users", h)
    OBVIOUS
  <2>2. CallTwo(m, p, TRUE, TRUE)
    BY <1>7, <2>1
  <2>3. \A u \in su : u \in these <=> u.id = h
    BY <2>1 DEF Of
  <2>4. PICK e, g : /\ e = [mu[h] EXCEPT !.verified = hour]
                    /\ g = [u \in su |-> IF u \in these
                                         THEN [u EXCEPT !.verified = IF @ = Never THEN hour ELSE @] ELSE u]
    OBVIOUS
  <2>5. p.users = Turned(su, g) /\ Only(sheets, p, {"users"})
    BY <1>1, <2>1, <2>4 DEF PgVerified, PgUser, Turns, Only, Turned
  <2>6. \A u \in su : g[u] \in UserRow /\ g[u].id = u.id /\ g[u].user = u.user /\ g[u].status = u.status
                      /\ g[u].due = u.due /\ g[u].hash = u.hash /\ (u.id = h => g[u].verified # Never)
                      /\ (u.id # h => g[u] = u)
    BY <1>1, <1>2, <2>3, <2>4 DEF UserRow, UsersSame
  <2>10. KeepsUsers(su, g)
    BY <2>6 DEF KeepsUsers
  <2>7. CASE h \in DOMAIN mu
    <3>1. m = Puts(maps, "users", h, e)
      BY <2>1, <2>4, <2>7 DEF MemVerified, MemUser
    <3>2. mu[h] \in UserRow /\ mu[h].id = h
      BY <1>3, <2>7
    <3>3. e \in UserRow /\ e.id = h /\ e.hash = mu[h].hash /\ e.status = mu[h].status /\ e.verified = hour
      BY <1>1, <2>4, <3>2 DEF UserRow
    <3>4. \A u \in su : u.id = h => AlikeUsers(e, g[u])
      BY <1>1, <1>2, <2>6, <3>3 DEF UsersSame, AlikeUsers
    <3>5. m.users = Put(mu, h, e) /\ Only(maps, m, {"users"})
      BY <1>1, <3>1 DEF Puts, Only
    <3>6. DOMAIN m.users = DOMAIN mu /\ \A k \in DOMAIN mu : m.users[k] = IF k = h THEN e ELSE mu[k]
      BY <2>7, <3>5 DEF Put
    <3>7. UsersAre(m.users, su, g)
      <4>1. \A k \in DOMAIN m.users : m.users[k] \in UserRow
        BY <1>3, <3>3, <3>6
      <4>2. ASSUME NEW u \in su  PROVE AlikeUsers(m.users[u.id], g[u])
        <5>1. u.id \in DOMAIN mu /\ AlikeUsers(mu[u.id], u)
          BY <1>2 DEF UsersSame
        <5>2. m.users[u.id] = IF u.id = h THEN e ELSE mu[u.id]
          BY <3>6, <5>1
        <5>3. CASE u.id = h
          BY <3>4, <5>2, <5>3
        <5>4. CASE u.id # h
          BY <2>6, <5>1, <5>2, <5>4
        <5> QED
          BY <5>3, <5>4
      <4> QED
        BY <4>1, <4>2 DEF UsersAre
    <3> QED
      BY <1>6, <2>2, <2>5, <2>6, <2>10, <3>5, <3>6, <3>7
  <2>8. CASE h \notin DOMAIN mu
    <3>1. m = maps
      BY <2>1, <2>8 DEF MemVerified, MemUser
    <3>2. \A u \in su : u.id # h
      BY <1>2, <2>8 DEF UsersSame
    <3>3. m.users = mu /\ Only(maps, m, {"users"}) /\ \A k \in DOMAIN mu : m.users[k] \in UserRow
      BY <1>3, <3>1 DEF Only
    <3>4. UsersAre(m.users, su, g)
      BY <1>2, <2>6, <3>2, <3>3 DEF UsersSame, UsersAre
    <3> QED
      BY <1>6, <2>2, <2>5, <2>6, <2>10, <3>3, <3>4
  <2> QED
    BY <2>7, <2>8
<1>8. ASSUME NEW h \in Holders, NEW hash \in Marks,
             LET into(u) == [u EXCEPT !.hash = hash] IN
             CallTwo(MemUser(maps, h, into), PgUser(sheets, h, into), TRUE, TRUE)
      PROVE  AccountBooksInv'
  <2> DEFINE into(u) == [u EXCEPT !.hash = hash]
  <2>1. PICK m, p, these : m = MemUser(maps, h, into) /\ p = PgUser(sheets, h, into) /\ these = Of(sheets, "users", h)
    OBVIOUS
  <2>2. CallTwo(m, p, TRUE, TRUE)
    BY <1>8, <2>1
  <2>3. \A u \in su : u \in these <=> u.id = h
    BY <2>1 DEF Of
  <2>4. PICK e, g : /\ e = [mu[h] EXCEPT !.hash = hash]
                    /\ g = [u \in su |-> IF u \in these THEN [u EXCEPT !.hash = hash] ELSE u]
    OBVIOUS
  <2>5. p.users = Turned(su, g) /\ Only(sheets, p, {"users"})
    BY <1>1, <2>1, <2>4 DEF PgUser, Turns, Only, Turned
  <2>6. hash \in Nat
    BY AccountStoresAssumption
  <2>7. \A u \in su : g[u] \in UserRow /\ g[u].id = u.id /\ g[u].user = u.user /\ g[u].status = u.status
                      /\ g[u].due = u.due /\ g[u].verified = u.verified /\ (u.id = h => g[u].hash = hash)
                      /\ (u.id # h => g[u] = u)
    BY <1>1, <1>2, <2>3, <2>4, <2>6 DEF UserRow, UsersSame
  <2>10. KeepsUsers(su, g)
    BY <2>7 DEF KeepsUsers
  <2>8. CASE h \in DOMAIN mu
    <3>1. m = Puts(maps, "users", h, e)
      BY <2>1, <2>4, <2>8 DEF MemUser
    <3>2. mu[h] \in UserRow /\ mu[h].id = h
      BY <1>3, <2>8
    <3>3. e \in UserRow /\ e.id = h /\ e.hash = hash /\ e.status = mu[h].status /\ e.verified = mu[h].verified
      BY <1>1, <2>4, <2>6, <3>2 DEF UserRow
    <3>4. \A u \in su : u.id = h => AlikeUsers(e, g[u])
      BY <1>1, <1>2, <2>7, <3>3 DEF UsersSame, AlikeUsers
    <3>5. m.users = Put(mu, h, e) /\ Only(maps, m, {"users"})
      BY <1>1, <3>1 DEF Puts, Only
    <3>6. DOMAIN m.users = DOMAIN mu /\ \A k \in DOMAIN mu : m.users[k] = IF k = h THEN e ELSE mu[k]
      BY <2>8, <3>5 DEF Put
    <3>7. UsersAre(m.users, su, g)
      <4>1. \A k \in DOMAIN m.users : m.users[k] \in UserRow
        BY <1>3, <3>3, <3>6
      <4>2. ASSUME NEW u \in su  PROVE AlikeUsers(m.users[u.id], g[u])
        <5>1. u.id \in DOMAIN mu /\ AlikeUsers(mu[u.id], u)
          BY <1>2 DEF UsersSame
        <5>2. m.users[u.id] = IF u.id = h THEN e ELSE mu[u.id]
          BY <3>6, <5>1
        <5>3. CASE u.id = h
          BY <3>4, <5>2, <5>3
        <5>4. CASE u.id # h
          BY <2>7, <5>1, <5>2, <5>4
        <5> QED
          BY <5>3, <5>4
      <4> QED
        BY <4>1, <4>2 DEF UsersAre
    <3> QED
      BY <1>6, <2>2, <2>5, <2>7, <2>10, <3>5, <3>6, <3>7
  <2>9. CASE h \notin DOMAIN mu
    <3>1. m = maps
      BY <2>1, <2>9 DEF MemUser
    <3>2. \A u \in su : u.id # h
      BY <1>2, <2>9 DEF UsersSame
    <3>3. m.users = mu /\ Only(maps, m, {"users"}) /\ \A k \in DOMAIN mu : m.users[k] \in UserRow
      BY <1>3, <3>1 DEF Only
    <3>4. UsersAre(m.users, su, g)
      BY <1>2, <2>7, <3>2, <3>3 DEF UsersSame, UsersAre
    <3> QED
      BY <1>6, <2>2, <2>5, <2>7, <2>10, <3>3, <3>4
  <2> QED
    BY <2>8, <2>9
<1>9. ASSUME NEW h \in Holders, NEW given \in BOOLEAN,
             LET c == [user |-> h, granted |-> given, at |-> hour] IN
             CallTwo(Pushes(maps, "consents", c), Pushes(sheets, "consents", c), c, c)
      PROVE  AccountBooksInv'
  <2>1. PICK c : c = [user |-> h, granted |-> given, at |-> hour]
    OBVIOUS
  <2>2. PICK m, p : m = Pushes(maps, "consents", c) /\ p = Pushes(sheets, "consents", c)
    OBVIOUS
  <2>3. CallTwo(m, p, c, c)
    BY <1>9, <2>1, <2>2
  <2>4. m.consents = p.consents /\ Only(maps, m, {"consents"}) /\ Only(sheets, p, {"consents"})
    BY <1>1, <1>2, <2>2 DEF Pushes, Only
  <2>5. BooksSame(m, p, hour)
    BY <2>4, FrameKeeps
  <2> QED
    BY <2>3, <2>4, <2>5, CallIn
<1> QED
  BY <1>5, <1>7, <1>8, <1>9 DEF CallUsers

-----------------------------------------------------------------------------
(* AccountStores: requests for deletion, and those taken back *)

LEMMA RequestsKeep ==
  ASSUME AccountBooksInv, NEW h \in Holders,
         CallTwo(MemRequests(maps, h), PgRequests(sheets, h), MayRequest(Values(maps.users), h),
                 MayRequest(sheets.users, h))
  PROVE  AccountBooksInv'
<1> DEFINE mu == maps.users
           mp == maps.pending
           su == sheets.users
<1>1. /\ {"users", "pending"} \subseteq DOMAIN maps /\ "users" \in DOMAIN sheets
      /\ BooksSame(maps, sheets, hour) /\ hour + 1 \in Nat
  BY StoresAre DEF Books, MapBooks
<1>2. UsersSame(mu, mp, su)
  BY <1>1 DEF BooksSame
<1>3. \A k \in DOMAIN mu : mu[k] \in UserRow /\ mu[k].id = k /\ \E u \in su : u.id = k /\ AlikeUsers(mu[k], u)
  BY <1>2, UserOf
<1>4. PICK m, p, these : /\ m = MemRequests(maps, h) /\ p = PgRequests(sheets, h)
                         /\ these = {u \in su : u.id = h /\ u.status = "active"}
  OBVIOUS
<1>5. PICK ma, pa : ma = MayRequest(Values(mu), h) /\ pa = MayRequest(su, h)
  OBVIOUS
<1>6. CallTwo(m, p, ma, pa)
  BY <1>4, <1>5, Zenon
<1>7. ma = pa /\ (pa <=> h \in DOMAIN mu /\ mu[h].status = "active") /\ (pa <=> these # {}) /\ pa \in BOOLEAN
  <2>1. ma <=> h \in DOMAIN mu /\ mu[h].status = "active"
    BY <1>3, <1>5 DEF MayRequest, Values
  <2>2. pa <=> h \in DOMAIN mu /\ mu[h].status = "active"
    BY <1>2, <1>3, <1>5 DEF MayRequest, UsersSame, AlikeUsers
  <2>3. ma \in BOOLEAN /\ pa \in BOOLEAN
    BY <1>5 DEF MayRequest
  <2>4. pa <=> these # {}
    BY <1>4, <1>5 DEF MayRequest
  <2> QED
    BY <2>1, <2>2, <2>3, <2>4
<1>8. CASE ~ pa
  <2>1. these = {} /\ ~ MayRequest(Values(mu), h)
    BY <1>5, <1>7, <1>8
  <2>2. m = maps
    BY <1>4, <2>1 DEF MemRequests
  <2>3. p.users = su /\ Only(sheets, p, {"users", "pending"})
    BY <1>1, <1>4, <2>1 DEF PgRequests, Turns, Only
  <2>4. m.users = mu /\ m.pending = mp /\ Only(maps, m, {"users", "pending"})
    BY <2>2 DEF Only
  <2> QED
    BY <1>2, <1>6, <1>7, <2>3, <2>4, UsersAlike
<1>9. CASE pa
  <2>1. PICK e, g : /\ e = [mu[h] EXCEPT !.status = "pending"]
                    /\ g = [u \in su |-> IF u \in these THEN [u EXCEPT !.status = "pending", !.due = hour + 1]
                                         ELSE u]
    OBVIOUS
  <2>2. h \in DOMAIN mu /\ mu[h] \in UserRow /\ mu[h].id = h /\ mu[h].status = "active"
    BY <1>3, <1>7, <1>9
  <2>3. PICK v \in su : v.id = h /\ AlikeUsers(mu[h], v)
    BY <1>3, <2>2
  <2>4. \A u \in su : (u \in these <=> u.id = h) /\ (u.id = h <=> u = v)
    BY <1>2, <1>4, <2>2, <2>3 DEF UsersSame, Identified, AlikeUsers
  <2>5. \A u \in su : /\ g[u] \in UserRow /\ g[u].id = u.id /\ g[u].user = u.user
                      /\ u.id # h => g[u] = u
                      /\ u.id = h => g[u].status = "pending" /\ g[u].due = hour + 1 /\ g[u].hash = u.hash
                                      /\ g[u].verified = u.verified
    <3>1. ASSUME NEW u \in su, u.id # h  PROVE g[u] = u /\ u \in UserRow
      BY <1>2, <2>1, <2>4, <3>1 DEF UsersSame
    <3>2. ASSUME NEW u \in su, u.id = h
          PROVE  /\ g[u] \in UserRow /\ g[u].id = u.id /\ g[u].user = u.user /\ g[u].status = "pending"
                 /\ g[u].due = hour + 1 /\ g[u].hash = u.hash /\ g[u].verified = u.verified
      <4>1. u \in UserRow
        BY <1>2 DEF UsersSame
      <4>2. PICK w, d : w = [u EXCEPT !.status = "pending", !.due = d] /\ d = hour + 1
        OBVIOUS
      <4>3. g[u] = w /\ d \in Nat
        BY <1>1, <2>1, <2>4, <3>2, <4>2
      <4>4. /\ w \in UserRow /\ w.status = "pending" /\ w.due = d
            /\ w.id = u.id /\ w.user = u.user /\ w.hash = u.hash /\ w.verified = u.verified
        BY <4>1, <4>2, <4>3 DEF UserRow
      <4> QED
        BY <4>2, <4>3, <4>4
    <3> QED
      BY <3>1, <3>2
  <2>6. g[v].status = "pending" /\ g[v].due = hour + 1 /\ g[v].hash = v.hash /\ g[v].verified = v.verified
        /\ g[v].id = h
    BY <2>3, <2>5
  <2>7. e \in UserRow /\ e.status = "pending" /\ e.id = h /\ e.hash = mu[h].hash /\ e.verified = mu[h].verified
    BY <2>1, <2>2 DEF UserRow
  <2>8. AlikeUsers(e, g[v])
    BY <2>3, <2>6, <2>7 DEF AlikeUsers
  <2>9. m = Puts(Puts(maps, "pending", h, hour + 1), "users", h, e)
    BY <1>1, <1>4, <1>5, <1>7, <1>9, <2>1, <2>2 DEF MemRequests, MemUser, Puts
  <2>10. m.users = Put(mu, h, e) /\ m.pending = Put(mp, h, hour + 1) /\ Only(maps, m, {"users", "pending"})
    BY <1>1, <2>9 DEF Puts, Only
  <2>11. p.users = Turned(su, g) /\ Only(sheets, p, {"users", "pending"})
    BY <1>1, <1>4, <2>1 DEF PgRequests, Turns, Only, Turned
  <2>12. DOMAIN m.users = DOMAIN mu /\ \A k \in DOMAIN mu : m.users[k] = IF k = h THEN e ELSE mu[k]
    BY <2>2, <2>10 DEF Put
  <2>13. UsersAre(m.users, su, g)
    <3>1. \A k \in DOMAIN m.users : m.users[k] \in UserRow
      BY <1>3, <2>7, <2>12
    <3>2. ASSUME NEW u \in su  PROVE AlikeUsers(m.users[u.id], g[u])
      <4>1. u.id \in DOMAIN mu /\ AlikeUsers(mu[u.id], u)
        BY <1>2 DEF UsersSame
      <4>2. m.users[u.id] = IF u.id = h THEN e ELSE mu[u.id]
        BY <2>12, <4>1
      <4>3. CASE u.id = h
        BY <2>4, <2>8, <4>2, <4>3
      <4>4. CASE u.id # h
        BY <2>5, <4>1, <4>2, <4>4
      <4> QED
        BY <4>3, <4>4
    <3> QED
      BY <3>1, <3>2 DEF UsersAre
  <2>14. PendingAre(m.pending, su, g)
    <3>1. DOMAIN m.pending = DOMAIN mp \cup {h}
          /\ \A k \in DOMAIN m.pending : m.pending[k] = IF k = h THEN hour + 1 ELSE mp[k]
      BY <2>10 DEF Put
    <3>2. ASSUME NEW k \in DOMAIN m.pending  PROVE \E u \in su : u.id = k /\ g[u].status = "pending"
      <4>1. CASE k = h
        BY <2>3, <2>6, <4>1
      <4>2. CASE k # h
        <5>1. PICK u \in su : u.id = k /\ u.status = "pending"
          BY <1>2, <3>1, <3>2, <4>2 DEF UsersSame
        <5> QED
          BY <2>5, <4>2, <5>1
      <4> QED
        BY <4>1, <4>2
    <3>3. ASSUME NEW u \in su, g[u].status = "pending"
          PROVE  u.id \in DOMAIN m.pending /\ m.pending[u.id] = g[u].due
      <4>1. CASE u.id = h
        BY <2>4, <2>6, <3>1, <4>1
      <4>2. CASE u.id # h
        <5>1. g[u] = u /\ u.id \in DOMAIN mp /\ mp[u.id] = u.due
          BY <1>2, <2>5, <3>3, <4>2 DEF UsersSame
        <5> QED
          BY <3>1, <4>2, <5>1
      <4> QED
        BY <4>1, <4>2
    <3> QED
      BY <3>2, <3>3 DEF PendingAre
  <2>15. KeepsUsers(su, g)
    BY <2>5 DEF KeepsUsers
  <2>16. PICK n, np, t : n = m.users /\ np = m.pending /\ t = Turned(su, g)
    OBVIOUS
  <2>17. UsersSame(n, np, t) /\ HoldersOf(t) = HoldersOf(su)
    <3>1. DOMAIN n = DOMAIN mu /\ UsersAre(n, su, g) /\ PendingAre(np, su, g)
      BY <2>12, <2>13, <2>14, <2>16
    <3> HIDE DEF mu, mp, su
    <3> QED
      BY <1>2, <2>15, <2>16, <3>1, UsersTurn
  <2>18. UsersSame(m.users, m.pending, p.users) /\ HoldersOf(p.users) = HoldersOf(su)
    BY <2>11, <2>16, <2>17
  <2> QED
    BY <1>6, <1>7, <2>10, <2>11, <2>18, UsersAlike
<1> QED
  BY <1>8, <1>9, <1>7

LEMMA CancelsKeep ==
  ASSUME AccountBooksInv, NEW h \in Holders,
         CallTwo(MemCancels(maps, h), PgCancels(sheets, h), MemMayCancel(maps, h), PgMayCancel(sheets, h) # {})
  PROVE  AccountBooksInv'
<1> DEFINE mu == maps.users
           mp == maps.pending
           su == sheets.users
<1>1. /\ {"users", "pending"} \subseteq DOMAIN maps /\ "users" \in DOMAIN sheets
      /\ BooksSame(maps, sheets, hour)
  BY StoresAre DEF Books, MapBooks
<1>2. UsersSame(mu, mp, su)
  BY <1>1 DEF BooksSame
<1>3. \A k \in DOMAIN mu : mu[k] \in UserRow /\ mu[k].id = k /\ \E u \in su : u.id = k /\ AlikeUsers(mu[k], u)
  BY <1>2, UserOf
<1>4. PICK m, p, these : m = MemCancels(maps, h) /\ p = PgCancels(sheets, h) /\ these = PgMayCancel(sheets, h)
  OBVIOUS
<1>5. PICK ma, pa : ma = MemMayCancel(maps, h) /\ pa = (these # {})
  OBVIOUS
<1>6. CallTwo(m, p, ma, pa)
  BY <1>4, <1>5, Zenon
<1>7. ma = pa /\ (pa <=> h \in DOMAIN mu /\ mu[h].status = "pending") /\ (pa <=> these # {}) /\ pa \in BOOLEAN
  <2>1. MemMayCancel(maps, h) <=> h \in DOMAIN mp /\ h \in DOMAIN mu /\ mu[h].status = "pending"
    BY <1>3 DEF MemMayCancel, Values
  <2>2. these # {} <=> h \in DOMAIN mu /\ mu[h].status = "pending"
    BY <1>2, <1>3, <1>4 DEF PgMayCancel, UsersSame, AlikeUsers
  <2>3. h \in DOMAIN mu /\ mu[h].status = "pending" => h \in DOMAIN mp
    BY <1>2, <1>3 DEF UsersSame, AlikeUsers
  <2>4. ma \in BOOLEAN /\ pa \in BOOLEAN
    BY <1>5 DEF MemMayCancel
  <2> QED
    BY <1>5, <2>1, <2>2, <2>3, <2>4
<1>8. CASE ~ pa
  <2>1. these = {} /\ ~ MemMayCancel(maps, h)
    BY <1>5, <1>7, <1>8
  <2>2. m = maps
    BY <1>4, <2>1 DEF MemCancels
  <2>3. p.users = su /\ Only(sheets, p, {"users", "pending"})
    BY <1>1, <1>4, <2>1 DEF PgCancels, Turns, Only
  <2>4. m.users = mu /\ m.pending = mp /\ Only(maps, m, {"users", "pending"})
    BY <2>2 DEF Only
  <2> QED
    BY <1>2, <1>6, <1>7, <2>3, <2>4, UsersAlike
<1>9. CASE pa
  <2>1. PICK e, np, g : /\ e = [mu[h] EXCEPT !.status = "active"]
                        /\ np = [k \in DOMAIN mp \ {h} |-> mp[k]]
                        /\ g = [u \in su |-> IF u \in these THEN [u EXCEPT !.status = "active", !.due = Never]
                                             ELSE u]
    OBVIOUS
  <2>2. h \in DOMAIN mu /\ mu[h] \in UserRow /\ mu[h].id = h /\ mu[h].status = "pending"
    BY <1>3, <1>7, <1>9
  <2>3. PICK v \in su : v.id = h /\ AlikeUsers(mu[h], v)
    BY <1>3, <2>2
  <2>4. \A u \in su : (u \in these <=> u.id = h) /\ (u.id = h <=> u = v)
    BY <1>2, <1>4, <2>2, <2>3 DEF UsersSame, Identified, AlikeUsers, PgMayCancel
  <2>5. \A u \in su : /\ g[u] \in UserRow /\ g[u].id = u.id /\ g[u].user = u.user
                      /\ u.id # h => g[u] = u
                      /\ u.id = h => g[u].status = "active" /\ g[u].due = Never /\ g[u].hash = u.hash
                                      /\ g[u].verified = u.verified
    <3>1. ASSUME NEW u \in su, u.id # h  PROVE g[u] = u /\ u \in UserRow
      BY <1>2, <2>1, <2>4, <3>1 DEF UsersSame
    <3>2. ASSUME NEW u \in su, u.id = h
          PROVE  /\ g[u] \in UserRow /\ g[u].id = u.id /\ g[u].user = u.user /\ g[u].status = "active"
                 /\ g[u].due = Never /\ g[u].hash = u.hash /\ g[u].verified = u.verified
      <4>1. u \in UserRow
        BY <1>2 DEF UsersSame
      <4>2. PICK w, d : w = [u EXCEPT !.status = "active", !.due = d] /\ d = Never
        OBVIOUS
      <4>3. g[u] = w /\ d \in Nat
        BY <1>1, <2>1, <2>4, <3>2, <4>2 DEF Never
      <4>4. /\ w \in UserRow /\ w.status = "active" /\ w.due = d
            /\ w.id = u.id /\ w.user = u.user /\ w.hash = u.hash /\ w.verified = u.verified
        BY <4>1, <4>2, <4>3 DEF UserRow
      <4> QED
        BY <4>2, <4>3, <4>4
    <3> QED
      BY <3>1, <3>2
  <2>6. g[v].status = "active" /\ g[v].due = Never /\ g[v].hash = v.hash /\ g[v].verified = v.verified
        /\ g[v].id = h
    BY <2>3, <2>5
  <2>7. e \in UserRow /\ e.status = "active" /\ e.id = h /\ e.hash = mu[h].hash /\ e.verified = mu[h].verified
    BY <2>1, <2>2 DEF UserRow
  <2>8. AlikeUsers(e, g[v])
    BY <2>3, <2>6, <2>7 DEF AlikeUsers
  <2>9. m = Puts([maps EXCEPT !.pending = np], "users", h, e)
    BY <1>1, <1>4, <1>5, <1>7, <1>9, <2>1, <2>2 DEF MemCancels, MemUser, Puts
  <2>10. m.users = Put(mu, h, e) /\ m.pending = np /\ Only(maps, m, {"users", "pending"})
    BY <1>1, <2>9 DEF Puts, Only
  <2>11. p.users = Turned(su, g) /\ Only(sheets, p, {"users", "pending"})
    BY <1>1, <1>4, <2>1 DEF PgCancels, Turns, Only, Turned
  <2>12. DOMAIN m.users = DOMAIN mu /\ \A k \in DOMAIN mu : m.users[k] = IF k = h THEN e ELSE mu[k]
    BY <2>2, <2>10 DEF Put
  <2>13. UsersAre(m.users, su, g)
    <3>1. \A k \in DOMAIN m.users : m.users[k] \in UserRow
      BY <1>3, <2>7, <2>12
    <3>2. ASSUME NEW u \in su  PROVE AlikeUsers(m.users[u.id], g[u])
      <4>1. u.id \in DOMAIN mu /\ AlikeUsers(mu[u.id], u)
        BY <1>2 DEF UsersSame
      <4>2. m.users[u.id] = IF u.id = h THEN e ELSE mu[u.id]
        BY <2>12, <4>1
      <4>3. CASE u.id = h
        BY <2>4, <2>8, <4>2, <4>3
      <4>4. CASE u.id # h
        BY <2>5, <4>1, <4>2, <4>4
      <4> QED
        BY <4>3, <4>4
    <3> QED
      BY <3>1, <3>2 DEF UsersAre
  <2>14. PendingAre(np, su, g)
    <3>1. ASSUME NEW k \in DOMAIN np  PROVE \E u \in su : u.id = k /\ g[u].status = "pending"
      <4>1. PICK u \in su : u.id = k /\ u.status = "pending" /\ k # h
        BY <1>2, <2>1, <3>1 DEF UsersSame
      <4> QED
        BY <2>5, <4>1
    <3>2. ASSUME NEW u \in su, g[u].status = "pending"
          PROVE  u.id \in DOMAIN np /\ np[u.id] = g[u].due
      <4>1. u.id # h
        BY <2>4, <2>6, <3>2
      <4>2. g[u] = u /\ u.id \in DOMAIN mp /\ mp[u.id] = u.due
        BY <1>2, <2>5, <3>2, <4>1 DEF UsersSame
      <4> QED
        BY <2>1, <4>1, <4>2
    <3> QED
      BY <3>1, <3>2 DEF PendingAre
  <2>15. KeepsUsers(su, g)
    BY <2>5 DEF KeepsUsers
  <2>16. PICK n, t : n = m.users /\ t = Turned(su, g)
    OBVIOUS
  <2>17. UsersSame(n, np, t) /\ HoldersOf(t) = HoldersOf(su)
    <3>1. DOMAIN n = DOMAIN mu /\ UsersAre(n, su, g)
      BY <2>12, <2>13, <2>16
    <3> HIDE DEF mu, mp, su
    <3> QED
      BY <1>2, <2>14, <2>15, <2>16, <3>1, UsersTurn
  <2>18. UsersSame(m.users, m.pending, p.users) /\ HoldersOf(p.users) = HoldersOf(su)
    BY <2>10, <2>11, <2>16, <2>17
  <2> QED
    BY <1>6, <1>7, <2>10, <2>11, <2>18, UsersAlike
<1> QED
  BY <1>8, <1>9, <1>7

-----------------------------------------------------------------------------
(* AccountStores: the purge, book by book *)

\* What a purge of these leaves: of a map, of a table.
KeptRows(n, m, D) == /\ \A k : k \in DOMAIN n <=> k \in DOMAIN m /\ m[k].user \notin D
                 /\ \A k \in DOMAIN n : n[k] = m[k]
KeptKeys(n, m, D) == /\ \A k : k \in DOMAIN n <=> k \in DOMAIN m /\ k \notin D
                     /\ \A k \in DOMAIN n : n[k] = m[k]
Spared(t, s, D) == \A r : r \in t <=> r \in s /\ r.user \notin D
SparedEvents(t, s, D) == \A e : e \in t <=> e \in s /\ e.user \notin D /\ e.email \notin D

LEMMA UsersPurged ==
  ASSUME NEW mu, NEW mp, NEW su, UsersSame(mu, mp, su), NEW D,
         NEW n, KeptKeys(n, mu, D),
         NEW np, KeptKeys(np, mp, D),
         NEW t, Spared(t, su, D)
  PROVE  UsersSame(n, np, t) /\ \A x : x \in HoldersOf(t) <=> x \in HoldersOf(su) /\ x \notin D
<1>1. \A u : u \in t <=> u \in su /\ u.id \notin D
  BY DEF Spared, UsersSame
<1>2. t \subseteq UserRow /\ Identified(t) /\ \A u \in t : u.user = u.id
  BY <1>1 DEF UsersSame, Identified
<1>3. \A h \in DOMAIN n : n[h] \in UserRow /\ \E u \in t : u.id = h
  BY <1>1 DEF UsersSame, KeptKeys
<1>4. \A u \in t : u.id \in DOMAIN n /\ AlikeUsers(n[u.id], u)
  BY <1>1 DEF UsersSame, KeptKeys
<1>5. \A h \in DOMAIN np : \E u \in t : u.id = h /\ u.status = "pending"
  BY <1>1 DEF UsersSame, KeptKeys
<1>6. \A u \in t : u.status = "pending" => u.id \in DOMAIN np /\ np[u.id] = u.due
  BY <1>1 DEF UsersSame, KeptKeys
<1>7. \A x : x \in HoldersOf(t) <=> x \in HoldersOf(su) /\ x \notin D
  BY <1>1 DEF HoldersOf
<1> QED
  BY <1>2, <1>3, <1>4, <1>5, <1>6, <1>7 DEF UsersSame

LEMMA SessionsPurged ==
  ASSUME NEW m, NEW s, SessionsSame(m, s), NEW D, NEW n, KeptRows(n, m, D), NEW t, Spared(t, s, D)
  PROVE  SessionsSame(n, t)
<1>1. MapOf("id", m, s) /\ s \subseteq SessionRow /\ IsFiniteSet(s)
  BY DEF SessionsSame
<1>2. t \subseteq s
  BY DEF Spared
<1>3. \A k : k \in DOMAIN n <=> k \in DOMAIN m /\ m[k] \in t
  BY <1>1 DEF KeptRows, Spared, MapOf
<1>4. \A k \in DOMAIN n : n[k] = m[k]
  BY DEF KeptRows
<1>5. MapOf("id", n, t)
  BY <1>1, <1>2, <1>3, <1>4, MapDrop
<1>6. IsFiniteSet(t)
  BY <1>1, <1>2, FS_Subset
<1> QED
  BY <1>1, <1>2, <1>5, <1>6 DEF SessionsSame

\* Who is alive after it.
LEMMA AliveAfter ==
  ASSUME NEW holders, NEW left, NEW D, \A x : x \in left <=> x \in holders /\ x \notin D, Nobody \notin D, NEW h
  PROVE  Alive(h, left) <=> Alive(h, holders) /\ h \notin D
  BY DEF Alive

LEMMA ActionsPurged ==
  ASSUME NEW m, NEW s, NEW holders, ActionsSame(m, s, holders), NEW D, Nobody \notin D,
         NEW left, \A x : x \in left <=> x \in holders /\ x \notin D, NEW t, Spared(t, s, D)
  PROVE  ActionsSame(m, t, left)
<1>1. m \subseteq ActionRow /\ Identified(m) /\ t \subseteq m
  BY DEF ActionsSame, Spared
<1>2. ASSUME NEW r \in m  PROVE r \in t <=> Alive(r.user, left)
  <2>1. Alive(r.user, left) <=> Alive(r.user, holders) /\ r.user \notin D
    BY AliveAfter
  <2> QED
    BY <1>2, <2>1 DEF ActionsSame, Spared
<1> QED
  BY <1>1, <1>2 DEF ActionsSame

LEMMA CeremoniesPurged ==
  ASSUME NEW m, NEW s, NEW holders, CeremoniesSame(m, s, holders), NEW D, Nobody \notin D,
         NEW left, \A x : x \in left <=> x \in holders /\ x \notin D, NEW t, Spared(t, s, D)
  PROVE  CeremoniesSame(m, t, left)
<1>1. ASSUME NEW k \in DOMAIN m
      PROVE  m[k] \in CeremonyRow /\ m[k].id = k /\ (m[k] \in t <=> Alive(m[k].user, left))
  <2>1. m[k] \in CeremonyRow /\ m[k].id = k /\ (m[k] \in s <=> Alive(m[k].user, holders))
    BY <1>1 DEF CeremoniesSame
  <2>2. m[k] \in t <=> m[k] \in s /\ m[k].user \notin D
    BY DEF Spared
  <2>3. Alive(m[k].user, left) <=> Alive(m[k].user, holders) /\ m[k].user \notin D
    BY AliveAfter
  <2> QED
    BY <2>1, <2>2, <2>3
<1>2. \A r \in t : r.id \in DOMAIN m /\ r = m[r.id]
  BY DEF CeremoniesSame, Spared
<1> QED
  BY <1>1, <1>2 DEF CeremoniesSame

\* The codes go with whose they are.
LEMMA FactorsPurged ==
  ASSUME NEW mf, NEW mc, NEW sf, NEW sc, FactorsSame(mf, mc, sf, sc), NEW D,
         NEW n, KeptKeys(n, mf, D),
         NEW nc, KeptKeys(nc, mc, D),
         NEW t, Spared(t, sf, D), NEW tc, Spared(tc, sc, D)
  PROVE  FactorsSame(n, nc, t, tc)
<1>1. MapOf("user", mf, sf) /\ sf \subseteq FactorRow /\ CodesSame(mc, sf, sc)
  BY DEF FactorsSame
<1>2. t \subseteq sf /\ tc \subseteq sc
  BY DEF Spared
<1>3. \A k : k \in DOMAIN n <=> k \in DOMAIN mf /\ mf[k] \in t
  BY <1>1 DEF Spared, MapOf, KeptKeys
<1>4. MapOf("user", n, t)
  <2>1. \A k \in DOMAIN n : n[k] = mf[k]
    BY DEF KeptKeys
  <2> QED
    BY <1>1, <1>2, <1>3, <2>1, MapDrop
<1>5. CodesSame(nc, t, tc)
  <2>1. tc \subseteq CodeRow
    BY <1>1, <1>2 DEF CodesSame
  <2>2. ASSUME NEW f \in t, f.enabled = Never  PROVE \A c \in tc : c.user # f.user
    BY <1>1, <1>2, <2>2 DEF CodesSame
  <2>3. ASSUME NEW f \in t, f.enabled # Never
        PROVE  /\ f.user \in DOMAIN nc
               /\ \A c \in nc[f.user] : c \in tc /\ c.user = f.user
               /\ \A c \in tc : c.user = f.user => c \in nc[f.user]
               /\ Identified(nc[f.user])
    <3>1. f \in sf /\ f.user \notin D
      BY DEF Spared
    <3>2. /\ f.user \in DOMAIN mc
          /\ \A c \in mc[f.user] : c \in sc /\ c.user = f.user
          /\ \A c \in sc : c.user = f.user => c \in mc[f.user]
          /\ Identified(mc[f.user])
      BY <1>1, <2>3, <3>1 DEF CodesSame
    <3>3. f.user \in DOMAIN nc /\ nc[f.user] = mc[f.user]
      BY <3>1, <3>2 DEF KeptKeys
    <3> QED
      BY <3>1, <3>2, <3>3 DEF Spared
  <2> QED
    BY <2>1, <2>2, <2>3 DEF CodesSame
<1> QED
  BY <1>1, <1>2, <1>4, <1>5 DEF FactorsSame

LEMMA ChallengesPurged ==
  ASSUME NEW m, NEW s, ChallengesSame(m, s), NEW D, NEW n, KeptRows(n, m, D), NEW t, Spared(t, s, D)
  PROVE  ChallengesSame(n, t)
  BY DEF ChallengesSame, KeptRows, Spared, Identified

LEMMA CustomersPurged ==
  ASSUME NEW m, NEW s, MapOf("user", m, s), NEW D,
         NEW n, KeptKeys(n, m, D),
         NEW t, Spared(t, s, D)
  PROVE  MapOf("user", n, t) /\ t \subseteq s
<1>1. t \subseteq s
  BY DEF Spared
<1>2. (\A k : k \in DOMAIN n <=> k \in DOMAIN m /\ m[k] \in t) /\ \A k \in DOMAIN n : n[k] = m[k]
  BY DEF Spared, MapOf, KeptKeys
<1> QED
  BY <1>1, <1>2, MapDrop

LEMMA LinksPurged ==
  ASSUME NEW m, NEW s, NEW now, LinksSame(m, s, now), NEW D, NEW n, Spared(n, m, D), NEW t, Spared(t, s, D)
  PROVE  LinksSame(n, t, now)
<1>1. n \subseteq m /\ t \subseteq s
  BY DEF Spared
<1>2. \A l \in m, r \in s : AlikeLinks(l, r) => (l \in n <=> r \in t)
  BY DEF Spared, AlikeLinks
<1> QED
  BY <1>1, <1>2, LinksDrop

LEMMA JobsPurged ==
  ASSUME NEW m, NEW s, JobsSame(m, s), NEW D, NEW n, KeptRows(n, m, D), NEW t, Spared(t, s, D)
  PROVE  JobsSame(n, t)
<1>1. t \subseteq s /\ DOMAIN n \subseteq DOMAIN m /\ \A k \in DOMAIN n : n[k] = m[k]
  BY DEF Spared, KeptRows
<1>2. \A r \in s : r \in t <=> r.id \in DOMAIN n
  BY DEF Spared, KeptRows, JobsSame, AlikeJobs
<1> QED
  BY <1>1, <1>2, JobsDrop

LEMMA DueAlike ==
  ASSUME AccountBooksInv
  PROVE  /\ \A h : h \in MemDue(maps) <=> h \in PgDue(sheets)
         /\ MemDue(maps) = PgDue(sheets) /\ Nobody \notin MemDue(maps)
<1>1. UsersSame(maps.users, maps.pending, sheets.users)
  BY StoresAre DEF BooksSame
<1>2. ASSUME NEW h \in MemDue(maps)  PROVE h \in PgDue(sheets) /\ h \in Holders
  <2>1. h \in DOMAIN maps.pending /\ maps.pending[h] <= hour
    BY <1>2 DEF MemDue
  <2>2. PICK u \in sheets.users : u.id = h /\ u.status = "pending"
    BY <1>1, <2>1 DEF UsersSame
  <2>3. maps.pending[h] = u.due /\ u \in UserRow
    BY <1>1, <2>2 DEF UsersSame
  <2> QED
    BY <2>1, <2>2, <2>3 DEF PgDue, UserRow
<1>3. ASSUME NEW h \in PgDue(sheets)  PROVE h \in MemDue(maps)
  <2>1. PICK u \in sheets.users : u.id = h /\ u.status = "pending" /\ u.due <= hour
    BY <1>3 DEF PgDue
  <2>2. h \in DOMAIN maps.pending /\ maps.pending[h] = u.due
    BY <1>1, <2>1 DEF UsersSame
  <2> QED
    BY <2>1, <2>2 DEF MemDue
<1>4. MemDue(maps) \subseteq PgDue(sheets) /\ PgDue(sheets) \subseteq MemDue(maps)
  BY <1>2, <1>3
<1>5. MemDue(maps) = PgDue(sheets)
  BY <1>4, Zenon
<1> QED
  BY <1>2, <1>3, <1>5, AccountStoresAssumption

\* What each book of the maps is after it, and each table.
LEMMA MapsPurged ==
  ASSUME AccountBooksInv, NEW m, m = MemErases(maps)
  PROVE  /\ DOMAIN m = DOMAIN maps
         /\ m.actions = maps.actions /\ m.ceremonies = maps.ceremonies /\ m.seen = maps.seen
         /\ SparedEvents(m.events, maps.events, MemDue(maps))
         /\ \A b \in {"pending", "factors", "codes", "customers", "users"} : KeptKeys(m[b], maps[b], MemDue(maps))
         /\ \A b \in {"sessions", "challenges", "jobs"} : KeptRows(m[b], maps[b], MemDue(maps))
         /\ \A b \in {"passkeys", "consents", "links"} : Spared(m[b], maps[b], MemDue(maps))
<1> DEFINE D == MemDue(maps)
<1>1. Books \cup MapBooks = DOMAIN maps
  BY StoresAre
<1>2. m = [b \in DOMAIN maps |->
            CASE b \in Untouched -> maps[b]
              [] b = "events" -> {e \in maps[b] : e.user \notin D /\ e.email \notin D}
              [] b \in {"pending", "factors", "codes", "customers",
                        "users"} -> [h \in DOMAIN maps[b] \ D |-> maps[b][h]]
              [] b \in {"sessions", "challenges",
                        "jobs"} -> [k \in {k \in DOMAIN maps[b] : maps[b][k].user \notin D} |-> maps[b][k]]
              [] OTHER -> {r \in maps[b] : r.user \notin D}]
  BY DEF MemErases
<1> HIDE DEF D
<1>3. DOMAIN m = DOMAIN maps
  BY <1>2
<1>4. m.actions = maps.actions /\ m.ceremonies = maps.ceremonies /\ m.seen = maps.seen
  BY <1>1, <1>2 DEF Untouched, Books, MapBooks
<1>5. m.events = {e \in maps.events : e.user \notin D /\ e.email \notin D}
  BY <1>1, <1>2 DEF Untouched, Books, MapBooks
<1>6. ASSUME NEW b \in {"pending", "factors", "codes", "customers", "users"}
      PROVE  KeptKeys(m[b], maps[b], D)
  <2>1. m[b] = [h \in DOMAIN maps[b] \ D |-> maps[b][h]]
    BY <1>1, <1>2, <1>6 DEF Untouched, Books, MapBooks
  <2> QED
    BY <2>1 DEF KeptKeys
<1>7. ASSUME NEW b \in {"sessions", "challenges", "jobs"}
      PROVE  KeptRows(m[b], maps[b], D)
  <2>1. m[b] = [k \in {k \in DOMAIN maps[b] : maps[b][k].user \notin D} |-> maps[b][k]]
    BY <1>1, <1>2, <1>7 DEF Untouched, Books, MapBooks
  <2> QED
    BY <2>1 DEF KeptRows
<1>8. ASSUME NEW b \in {"passkeys", "consents", "links"}
      PROVE  Spared(m[b], maps[b], D)
  <2>1. m[b] = {r \in maps[b] : r.user \notin D}
    BY <1>1, <1>2, <1>8 DEF Untouched, Books, MapBooks
  <2> QED
    BY <2>1 DEF Spared
<1>9. SparedEvents(m.events, maps.events, D)
  BY <1>5 DEF SparedEvents
<1> QED
  BY <1>3, <1>4, <1>6, <1>7, <1>8, <1>9 DEF D

LEMMA SheetsPurged ==
  ASSUME NEW p, p = PgErases(sheets)
  PROVE  /\ DOMAIN p = Books
         /\ SparedEvents(p.events, sheets.events, PgDue(sheets))
         /\ \A b \in Books \ {"events"} : Spared(p[b], sheets[b], PgDue(sheets))
<1> DEFINE D == PgDue(sheets)
<1>1. p = [b \in Books |-> {r \in sheets[b] : r.user \notin D /\ (b = "events" => r.email \notin D)}]
  BY DEF PgErases
<1> HIDE DEF D
<1>2. DOMAIN p = Books
  BY <1>1
<1>3. SparedEvents(p.events, sheets.events, D)
  BY <1>1 DEF Books, SparedEvents
<1>4. ASSUME NEW b \in Books \ {"events"}  PROVE Spared(p[b], sheets[b], D)
  BY <1>1 DEF Spared
<1> QED
  BY <1>2, <1>3, <1>4 DEF D

LEMMA SetsEqual ==
  ASSUME NEW s, NEW t, \A x : x \in s <=> x \in t
  PROVE  s = t
  OBVIOUS

LEMMA PurgeKeeps ==
  ASSUME AccountBooksInv,
         CallTwo(MemErases(maps), PgErases(sheets), Cardinality(MemDue(maps)), Cardinality(PgDue(sheets)))
  PROVE  AccountBooksInv'
<1>1. PICK D, m, p, ma, pa : /\ D = MemDue(maps) /\ m = MemErases(maps) /\ p = PgErases(sheets)
                             /\ ma = Cardinality(MemDue(maps)) /\ pa = Cardinality(PgDue(sheets))
  OBVIOUS
<1>2. CallTwo(m, p, ma, pa)
  BY <1>1, Zenon
<1>3. D = PgDue(sheets) /\ Nobody \notin D
  BY <1>1, DueAlike
<1>4. ma = pa
  BY <1>1, DueAlike, Zenon
<1>5. /\ DOMAIN m = DOMAIN maps
      /\ m.actions = maps.actions /\ m.ceremonies = maps.ceremonies /\ m.seen = maps.seen
      /\ SparedEvents(m.events, maps.events, D)
      /\ \A b \in {"pending", "factors", "codes", "customers", "users"} : KeptKeys(m[b], maps[b], D)
      /\ \A b \in {"sessions", "challenges", "jobs"} : KeptRows(m[b], maps[b], D)
      /\ \A b \in {"passkeys", "consents", "links"} : Spared(m[b], maps[b], D)
  BY <1>1, MapsPurged
<1>6. DOMAIN p = DOMAIN sheets /\ SparedEvents(p.events, sheets.events, D)
  BY <1>1, <1>3, SheetsPurged, StoresAre
<1>7. BooksSame(maps, sheets, hour)
  BY StoresAre
<1>8. \A b \in Books \ {"events"} : Spared(p[b], sheets[b], D)
  BY <1>1, <1>3, SheetsPurged
<1>10. UsersSame(m.users, m.pending, p.users) /\ \A x : x \in HoldersOf(p.users) <=> x \in HoldersOf(sheets.users) /\ x \notin D
  <2>1. Spared(p.users, sheets.users, D) /\ UsersSame(maps.users, maps.pending, sheets.users)
    BY <1>7, <1>8 DEF Books, BooksSame
  <2>2. KeptKeys(m.users, maps.users, D) /\ KeptKeys(m.pending, maps.pending, D)
    BY <1>5
  <2> QED
    BY <2>1, <2>2, UsersPurged
<1>11. SessionsSame(m.sessions, p.sessions)
  <2>1. SessionsSame(maps.sessions, sheets.sessions) /\ KeptRows(m.sessions, maps.sessions, D)
        /\ Spared(p.sessions, sheets.sessions, D)
    BY <1>5, <1>7, <1>8 DEF Books, BooksSame
  <2> QED
    BY <2>1, SessionsPurged
<1>12. m.events = p.events
  <2>1. maps.events = sheets.events
    BY <1>7 DEF BooksSame
  <2>2. \A e : e \in m.events <=> e \in p.events
    BY <1>5, <1>6, <2>1 DEF SparedEvents
  <2> QED
    BY <2>2, SetsEqual
<1>13. ActionsSame(m.actions, p.actions, HoldersOf(p.users))
  <2>1. ActionsSame(maps.actions, sheets.actions, HoldersOf(sheets.users)) /\ Spared(p.actions, sheets.actions, D)
    BY <1>7, <1>8 DEF Books, BooksSame
  <2>2. ActionsSame(maps.actions, p.actions, HoldersOf(p.users))
    BY <1>3, <1>10, <2>1, ActionsPurged
  <2> QED
    BY <1>5, <2>2
<1>14. FactorsSame(m.factors, m.codes, p.factors, p.codes)
  <2>1. /\ FactorsSame(maps.factors, maps.codes, sheets.factors, sheets.codes)
        /\ Spared(p.factors, sheets.factors, D) /\ Spared(p.codes, sheets.codes, D)
    BY <1>7, <1>8 DEF Books, BooksSame
  <2>2. KeptKeys(m.factors, maps.factors, D) /\ KeptKeys(m.codes, maps.codes, D)
    BY <1>5
  <2> QED
    BY <2>1, <2>2, FactorsPurged
<1>15. ChallengesSame(m.challenges, p.challenges)
  <2>1. ChallengesSame(maps.challenges, sheets.challenges) /\ KeptRows(m.challenges, maps.challenges, D)
        /\ Spared(p.challenges, sheets.challenges, D)
    BY <1>5, <1>7, <1>8 DEF Books, BooksSame
  <2> QED
    BY <2>1, ChallengesPurged
<1>16. CeremoniesSame(m.ceremonies, p.ceremonies, HoldersOf(p.users))
  <2>1. /\ CeremoniesSame(maps.ceremonies, sheets.ceremonies, HoldersOf(sheets.users))
        /\ Spared(p.ceremonies, sheets.ceremonies, D)
    BY <1>7, <1>8 DEF Books, BooksSame
  <2>2. CeremoniesSame(maps.ceremonies, p.ceremonies, HoldersOf(p.users))
    BY <1>3, <1>10, <2>1, CeremoniesPurged
  <2> QED
    BY <1>5, <2>2
<1>17. m.passkeys = p.passkeys /\ p.passkeys \subseteq PasskeyRow
  <2>1. maps.passkeys = sheets.passkeys /\ sheets.passkeys \subseteq PasskeyRow
    BY <1>7 DEF BooksSame
  <2>2. \A k : (k \in m.passkeys <=> k \in p.passkeys) /\ (k \in p.passkeys => k \in sheets.passkeys)
    BY <1>5, <1>8, <2>1 DEF Spared, Books
  <2>3. m.passkeys = p.passkeys
    BY <2>2, SetsEqual
  <2> QED
    BY <2>1, <2>2, <2>3
<1>18. p.customers \subseteq CustomerRow /\ MapOf("user", m.customers, p.customers)
  <2>1. /\ MapOf("user", maps.customers, sheets.customers) /\ sheets.customers \subseteq CustomerRow
        /\ Spared(p.customers, sheets.customers, D)
    BY <1>7, <1>8 DEF Books, BooksSame
  <2>2. KeptKeys(m.customers, maps.customers, D)
    BY <1>5
  <2>3. MapOf("user", m.customers, p.customers) /\ p.customers \subseteq sheets.customers
    BY <2>1, <2>2, CustomersPurged
  <2> QED
    BY <2>1, <2>3
<1>19. m.seen = p.seen /\ \A c \in p.seen : c = [id |-> c.id, user |-> Nobody]
  <2>1. /\ maps.seen = sheets.seen /\ \A c \in sheets.seen : c = [id |-> c.id, user |-> Nobody]
        /\ Spared(p.seen, sheets.seen, D)
    BY <1>7, <1>8 DEF Books, BooksSame
  <2>2. \A c \in sheets.seen : c.user = Nobody
    BY <2>1
  <2>3. \A c : c \in p.seen <=> c \in sheets.seen
    BY <1>3, <2>1, <2>2 DEF Spared
  <2>4. p.seen = sheets.seen
    BY <2>3, SetsEqual
  <2> QED
    BY <1>5, <2>1, <2>4
<1>20. m.consents = p.consents
  <2>1. maps.consents = sheets.consents
    BY <1>7 DEF BooksSame
  <2>2. \A c : c \in m.consents <=> c \in p.consents
    BY <1>5, <1>8, <2>1 DEF Spared, Books
  <2> QED
    BY <2>2, SetsEqual
<1>21. LinksSame(m.links, p.links, hour)
  <2>1. LinksSame(maps.links, sheets.links, hour) /\ Spared(p.links, sheets.links, D)
    BY <1>7, <1>8 DEF Books, BooksSame
  <2>2. Spared(m.links, maps.links, D)
    BY <1>5
  <2> QED
    BY <2>1, <2>2, LinksPurged
<1>22. JobsSame(m.jobs, p.jobs)
  <2>1. JobsSame(maps.jobs, sheets.jobs) /\ KeptRows(m.jobs, maps.jobs, D) /\ Spared(p.jobs, sheets.jobs, D)
    BY <1>5, <1>7, <1>8 DEF Books, BooksSame
  <2> QED
    BY <2>1, JobsPurged
<1>23. BooksSame(m, p, hour)
  BY <1>10, <1>11, <1>12, <1>13, <1>14, <1>15, <1>16, <1>17, <1>18, <1>19, <1>20, <1>21, <1>22 DEF BooksSame
<1>24. chapter = "users" => m.actions = {} /\ DOMAIN m.ceremonies = {}
  BY <1>5 DEF AccountBooksInv
<1> QED
  BY <1>2, <1>4, <1>5, <1>6, <1>23, <1>24, AnswersKeep

LEMMA DeletionKeeps ==
  ASSUME AccountBooksInv, CallDeletion
  PROVE  AccountBooksInv'
  BY RequestsKeep, CancelsKeep, PurgeKeeps DEF CallDeletion

-----------------------------------------------------------------------------
(* AccountStores: the hour, and the first state *)

LEMMA HourKeeps ==
  ASSUME AccountBooksInv, Hour
  PROVE  AccountBooksInv'
<1>1. /\ BooksSame(maps, sheets, hour) /\ hour \in Nat \ {0} /\ hour' = hour + 1
      /\ maps' = maps /\ sheets' = sheets /\ agree' = agree /\ chapter' = chapter
  BY DEF Hour, AccountBooksInv
<1>2. ASSUME NEW l \in maps.links, NEW r \in sheets.links, Twins(l, r, hour)
      PROVE  Twins(l, r, hour + 1)
  <2>1. l \in LinkRow
    BY <1>1 DEF BooksSame, LinksSame
  <2>2. l.since \in Nat
    BY <2>1 DEF LinkRow
  <2> QED
    BY <1>1, <1>2, <2>2 DEF Twins
<1>3. LinksSame(maps.links, sheets.links, hour + 1)
  BY <1>1, <1>2 DEF BooksSame, LinksSame
<1>4. BooksSame(maps, sheets, hour + 1)
  BY <1>1, <1>3 DEF BooksSame
<1>5. BooksSame(maps', sheets', hour')
  BY <1>1, <1>4
<1>6. hour' \in Nat \ {0}
  BY <1>1
<1> QED
  BY <1>1, <1>5, <1>6 DEF AccountBooksInv

LEMMA AccountBooksInit ==
  ASSUME AccountStoresInit
  PROVE  AccountBooksInv
<1>1. PICK first : /\ first = IF chapter = "users" THEN {} ELSE Holders
                   /\ maps = [b \in Books \cup MapBooks |->
                                CASE b = "users" -> [h \in first |-> Account(h)]
                                  [] b \in MapBooks \ {"users"} -> [x \in {} |-> Never]
                                  [] OTHER -> {}]
                   /\ sheets = [b \in Books |-> IF b = "users" THEN {Account(h) : h \in first} ELSE {}]
  BY DEF AccountStoresInit
<1>2. first \subseteq Holders
  BY <1>1
<1>3. /\ DOMAIN maps = Books \cup MapBooks /\ maps.users = [h \in first |-> Account(h)]
      /\ \A b \in MapBooks \ {"users"} : DOMAIN maps[b] = {}
      /\ \A b \in Books \ MapBooks : maps[b] = {}
  BY <1>1 DEF Books, MapBooks
<1>4. /\ DOMAIN sheets = Books /\ sheets.users = {Account(h) : h \in first}
      /\ \A b \in Books \ {"users"} : sheets[b] = {}
  BY <1>1 DEF Books
<1>5. agree /\ hour = 1
  BY DEF AccountStoresInit
<1>6. \A h \in first : Account(h) \in UserRow /\ Account(h).id = h /\ Account(h).user = h
                       /\ Account(h).status = "active" /\ AlikeUsers(Account(h), Account(h))
  BY <1>2 DEF Account, UserRow, Never, AlikeUsers
<1>7. UsersSame(maps.users, maps.pending, sheets.users)
  <2>1. DOMAIN maps.pending = {}
    BY <1>3 DEF MapBooks
  <2> QED
    BY <1>3, <1>4, <1>6, <2>1 DEF UsersSame, Identified
<1>8. SessionsSame(maps.sessions, sheets.sessions)
  <2>1. DOMAIN maps.sessions = {} /\ sheets.sessions = {}
    BY <1>3, <1>4 DEF Books, MapBooks
  <2> QED
    BY <2>1, FS_EmptySet DEF SessionsSame, MapOf
<1>9. /\ maps.events = sheets.events /\ maps.consents = sheets.consents
      /\ maps.passkeys = sheets.passkeys /\ sheets.passkeys \subseteq PasskeyRow
      /\ maps.seen = sheets.seen /\ \A c \in sheets.seen : c = [id |-> c.id, user |-> Nobody]
  BY <1>3, <1>4 DEF Books, MapBooks
<1>10. ActionsSame(maps.actions, sheets.actions, HoldersOf(sheets.users))
  <2>1. maps.actions = {} /\ sheets.actions = {}
    BY <1>3, <1>4 DEF Books, MapBooks
  <2> QED
    BY <2>1 DEF ActionsSame, Identified
<1>11. FactorsSame(maps.factors, maps.codes, sheets.factors, sheets.codes)
  <2>1. DOMAIN maps.factors = {} /\ sheets.factors = {} /\ sheets.codes = {}
    BY <1>3, <1>4 DEF Books, MapBooks
  <2> QED
    BY <2>1 DEF FactorsSame, MapOf, CodesSame
<1>12. ChallengesSame(maps.challenges, sheets.challenges)
  <2>1. DOMAIN maps.challenges = {} /\ sheets.challenges = {}
    BY <1>3, <1>4 DEF Books, MapBooks
  <2> QED
    BY <2>1 DEF ChallengesSame, Identified
<1>13. CeremoniesSame(maps.ceremonies, sheets.ceremonies, HoldersOf(sheets.users))
  <2>1. DOMAIN maps.ceremonies = {} /\ sheets.ceremonies = {}
    BY <1>3, <1>4 DEF Books, MapBooks
  <2> QED
    BY <2>1 DEF CeremoniesSame
<1>14. sheets.customers \subseteq CustomerRow /\ MapOf("user", maps.customers, sheets.customers)
  <2>1. DOMAIN maps.customers = {} /\ sheets.customers = {}
    BY <1>3, <1>4 DEF Books, MapBooks
  <2> QED
    BY <2>1 DEF MapOf
<1>15. LinksSame(maps.links, sheets.links, hour)
  <2>1. maps.links = {} /\ sheets.links = {}
    BY <1>3, <1>4 DEF Books, MapBooks
  <2> QED
    BY <2>1 DEF LinksSame, Identified
<1>16. JobsSame(maps.jobs, sheets.jobs)
  <2>1. DOMAIN maps.jobs = {} /\ sheets.jobs = {}
    BY <1>3, <1>4 DEF Books, MapBooks
  <2> QED
    BY <2>1 DEF JobsSame, Identified
<1>17. BooksSame(maps, sheets, hour)
  BY <1>7, <1>8, <1>9, <1>10, <1>11, <1>12, <1>13, <1>14, <1>15, <1>16 DEF BooksSame
<1>18. maps.actions = {} /\ DOMAIN maps.ceremonies = {}
  BY <1>3 DEF Books, MapBooks
<1> QED
  BY <1>3, <1>4, <1>5, <1>17, <1>18 DEF AccountBooksInv

-----------------------------------------------------------------------------
(* AccountStores: what a caller sees *)

LEMMA UsersSeen ==
  ASSUME NEW mu, NEW mp, NEW su, UsersSame(mu, mp, su)
  PROVE  /\ {SeenUser(u) : u \in Values(mu)} = {SeenUser(u) : u \in su}
         /\ {<<h, mp[h]>> : h \in DOMAIN mp} = {<<u.id, u.due>> : u \in {u \in su : u.status = "pending"}}
<1>1. ASSUME NEW u, NEW v, AlikeUsers(u, v)  PROVE SeenUser(u) = SeenUser(v)
  BY <1>1 DEF AlikeUsers, SeenUser
<1>2. ASSUME NEW u \in Values(mu)  PROVE \E v \in su : SeenUser(u) = SeenUser(v)
  BY <1>1, <1>2, UserOf DEF Values
<1>3. ASSUME NEW v \in su  PROVE \E u \in Values(mu) : SeenUser(u) = SeenUser(v)
  <2>1. v.id \in DOMAIN mu /\ AlikeUsers(mu[v.id], v)
    BY DEF UsersSame
  <2>2. mu[v.id] \in Values(mu)
    BY <2>1 DEF Values
  <2> QED
    BY <1>1, <2>1, <2>2
<1>4. ASSUME NEW h \in DOMAIN mp
      PROVE  <<h, mp[h]>> \in {<<u.id, u.due>> : u \in {u \in su : u.status = "pending"}}
  BY DEF UsersSame
<1>5. ASSUME NEW u \in su, u.status = "pending"  PROVE u.id \in DOMAIN mp /\ mp[u.id] = u.due
  BY <1>5 DEF UsersSame
<1>6. {SeenUser(u) : u \in Values(mu)} = {SeenUser(u) : u \in su}
  BY <1>2, <1>3
<1> QED
  BY <1>4, <1>5, <1>6

LEMMA LinksSeen ==
  ASSUME NEW m, NEW s, NEW now, LinksSame(m, s, now)
  PROVE  {SeenLink(l) : l \in m} = {SeenLink(l) : l \in s}
<1>1. ASSUME NEW l, NEW r, Twins(l, r, now)  PROVE SeenLink(l) = SeenLink(r)
  BY <1>1 DEF Twins, AlikeLinks, SeenLink
<1>2. (\A r \in s : \E l \in m : Twins(l, r, now)) /\ \A l \in m : \E r \in s : Twins(l, r, now)
  BY TwinOf
<1>3. \A r \in s : \E l \in m : SeenLink(l) = SeenLink(r)
  BY <1>1, <1>2
<1>4. \A l \in m : \E r \in s : SeenLink(l) = SeenLink(r)
  BY <1>1, <1>2
<1> QED
  BY <1>3, <1>4

LEMMA JobsSeen ==
  ASSUME NEW m, NEW s, JobsSame(m, s)
  PROVE  {SeenJob(j) : j \in Values(m)} = {SeenJob(j) : j \in s}
<1>1. ASSUME NEW j \in JobRow, NEW k \in JobRow, AlikeJobs(j, k)  PROVE SeenJob(j) = SeenJob(k)
  BY <1>1 DEF AlikeJobs, SeenJob, JobRow
<1>2. ASSUME NEW r \in s
      PROVE  r \in JobRow /\ r.id \in DOMAIN m /\ m[r.id] \in JobRow /\ AlikeJobs(m[r.id], r)
  BY <1>2 DEF JobsSame
<1>3. ASSUME NEW r \in s  PROVE \E j \in Values(m) : SeenJob(j) = SeenJob(r)
  <2>1. m[r.id] \in Values(m)
    BY <1>2, <1>3 DEF Values
  <2> QED
    BY <1>1, <1>2, <1>3, <2>1
<1>4. ASSUME NEW j \in Values(m)  PROVE \E r \in s : SeenJob(j) = SeenJob(r)
  <2>1. PICK k \in DOMAIN m : j = m[k]
    BY <1>4 DEF Values
  <2>2. PICK r \in s : r.id = k
    BY <2>1 DEF JobsSame
  <2>3. SeenJob(j) = SeenJob(r)
    BY <1>1, <1>2, <2>1, <2>2
  <2> QED
    BY <2>3
<1> QED
  BY <1>3, <1>4

LEMMA BooksSeen ==
  ASSUME AccountBooksInv
  PROVE  SameAccounts
<1>1. BooksSame(maps, sheets, hour) /\ agree
  BY StoresAre
<1>2. \A h \in Holders : Present(h) <=> h \in HoldersOf(sheets.users)
  BY DEF Present, Of, HoldersOf
<1>3. /\ {SeenUser(u) : u \in Values(maps.users)} = {SeenUser(u) : u \in sheets.users}
      /\ {<<h, maps.pending[h]>> : h \in DOMAIN maps.pending}
           = {<<u.id, u.due>> : u \in {u \in sheets.users : u.status = "pending"}}
  BY <1>1, UsersSeen DEF BooksSame
<1>4. \A b \in {"sessions", "factors", "customers"} : Values(maps[b]) = sheets[b]
  <2>1. MapOf("id", maps.sessions, sheets.sessions) /\ MapOf("user", maps.factors, sheets.factors)
        /\ MapOf("user", maps.customers, sheets.customers)
    BY <1>1 DEF BooksSame, SessionsSame, FactorsSame
  <2> QED
    BY <2>1, MapValues
<1>5. \A b \in {"events", "passkeys", "seen", "consents"} : maps[b] = sheets[b]
  BY <1>1 DEF BooksSame
<1>6. OfSomebody(maps.actions) = sheets.actions
  <2>1. ActionsSame(maps.actions, sheets.actions, HoldersOf(sheets.users))
    BY <1>1 DEF BooksSame
  <2>2. \A r \in maps.actions : Alive(r.user, HoldersOf(sheets.users)) <=> r.user = Nobody \/ Present(r.user)
    BY <1>2, <2>1 DEF ActionsSame, ActionRow, Alive
  <2>3. \A r : r \in OfSomebody(maps.actions) <=> r \in sheets.actions
    BY <2>1, <2>2 DEF ActionsSame, OfSomebody
  <2> QED
    BY <2>3, SetsEqual
<1>7. OfSomebody(Values(maps.ceremonies)) = sheets.ceremonies
  <2>1. CeremoniesSame(maps.ceremonies, sheets.ceremonies, HoldersOf(sheets.users))
    BY <1>1 DEF BooksSame
  <2>2. \A k \in DOMAIN maps.ceremonies : maps.ceremonies[k] \in sheets.ceremonies
                <=> maps.ceremonies[k].user = Nobody \/ Present(maps.ceremonies[k].user)
    BY <1>2, <2>1 DEF CeremoniesSame, CeremonyRow, Alive
  <2>3. \A r : r \in OfSomebody(Values(maps.ceremonies)) <=> r \in sheets.ceremonies
    BY <2>1, <2>2 DEF CeremoniesSame, OfSomebody, Values
  <2> QED
    BY <2>3, SetsEqual
<1>8. ASSUME NEW h \in Holders, Enrolled(h)  PROVE MemUnspent(maps, h) = PgUnspent(sheets, h)
  <2>1. PICK f \in sheets.factors : f.user = h /\ f.enabled # Never
    BY <1>8 DEF Enrolled
  <2>2. /\ h \in DOMAIN maps.codes
        /\ \A c \in maps.codes[h] : c \in sheets.codes /\ c.user = h
        /\ \A c \in sheets.codes : c.user = h => c \in maps.codes[h]
    BY <1>1, <2>1 DEF BooksSame, FactorsSame, CodesSame
  <2> QED
    BY <2>2 DEF MemUnspent, PgUnspent
<1>9. Values(maps.challenges) \subseteq sheets.challenges
  BY <1>1 DEF BooksSame, ChallengesSame, Values
<1>10. {SeenLink(l) : l \in maps.links} = {SeenLink(l) : l \in sheets.links}
  BY <1>1, LinksSeen DEF BooksSame
<1>11. {SeenJob(j) : j \in Values(maps.jobs)} = {SeenJob(j) : j \in sheets.jobs}
  BY <1>1, JobsSeen DEF BooksSame
<1> QED
  BY <1>1, <1>3, <1>4, <1>5, <1>6, <1>7, <1>8, <1>9, <1>10, <1>11 DEF SameAccounts

\* AccountBooksInv is inductive: a port's call, in whatever chapter, a deletion requested, taken back or
\* carried out, and the passing of time leave the two adapters alike, book by book.
THEOREM AccountBooksKept == AccountStoresSpec => []AccountBooksInv
<1>1. ASSUME AccountBooksInv, AccountStoresNext  PROVE AccountBooksInv'
  <2>1. CASE chapter = "users" /\ CallUsers
    BY <1>1, <2>1, UsersKeep
  <2>2. CASE chapter = "sessions" /\ CallSessions
    BY <1>1, <2>2, SessionsKeep
  <2>3. CASE chapter = "events" /\ CallEvents
    BY <1>1, <2>3, EventsKeep
  <2>4. CASE chapter = "actions" /\ CallActions
    BY <1>1, <2>4, ActionsKeep
  <2>5. CASE chapter \in {"factors", "challenges"} /\ CallEnrolments
    BY <1>1, <2>5, EnrolmentsKeep
  <2>6. CASE chapter = "factors" /\ CallFactors
    BY <1>1, <2>6, FactorsKeep
  <2>7. CASE chapter = "challenges" /\ CallChallenges
    BY <1>1, <2>7, ChallengesKeep
  <2>8. CASE chapter = "passkeys" /\ CallPasskeys
    BY <1>1, <2>8, PasskeysKeep
  <2>9. CASE chapter = "ceremonies" /\ CallCeremonies
    BY <1>1, <2>9, CeremoniesKeep
  <2>10. CASE chapter = "billing" /\ CallBilling
    BY <1>1, <2>10, BillingKeeps
  <2>11. CASE chapter \in {"links", "jobs"} /\ CallLinks
    BY <1>1, <2>11, LinksKeep
  <2>12. CASE chapter = "links" /\ CallSyncs
    BY <1>1, <2>12, SyncsKeep
  <2>13. CASE chapter = "jobs" /\ CallJobs
    BY <1>1, <2>13, JobsKeep
  <2>14. CASE CallDeletion
    BY <1>1, <2>14, DeletionKeeps
  <2>15. CASE Hour
    BY <1>1, <2>15, HourKeeps
  <2> QED
    BY <1>1, <2>1, <2>2, <2>3, <2>4, <2>5, <2>6, <2>7, <2>8, <2>9, <2>10, <2>11, <2>12, <2>13, <2>14, <2>15
       DEF AccountStoresNext
<1>2. ASSUME AccountBooksInv, UNCHANGED accountStoresVars  PROVE AccountBooksInv'
  <2>1. /\ maps' = maps /\ sheets' = sheets /\ agree' = agree /\ chapter' = chapter /\ hour' = hour
    BY <1>2 DEF accountStoresVars
  <2> QED
    BY <1>2, <2>1 DEF AccountBooksInv
<1> QED
  BY <1>1, <1>2, AccountBooksInit, PTL DEF AccountStoresSpec

\* Whatever the holders, the identifiers and the hour, and whichever ports are called, in-memory and
\* PostgreSQL adapters answer every call alike, and hold the same rows of those who have an account, as
\* far as a caller can see them (the contract in-memory-store.ts states of itself).
THEOREM AccountsAreTheSame == AccountStoresSpec => []SameAccounts
  BY AccountBooksKept, BooksSeen, PTL
=============================================================================
