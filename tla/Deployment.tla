------------------------------ MODULE Deployment ------------------------------
(***************************************************************************)
(* Releases of the API on one database: what a process makes of its        *)
(* environment, the migrations it applies, the role it provisions and      *)
(* serves as, and the keys it seals data with.  A process is a server or   *)
(* the release step `npm run migrate`; several of them, of two releases,   *)
(* run at once and die anywhere.                                           *)
(*                                                                         *)
(* The environment is the set of settings that are given, those that are   *)
(* given a value the code refuses, and the roles of the two database URLs. *)
(***************************************************************************)
EXTENDS Integers, Sequences, FiniteSets, SequencesExt, FiniteSetsExt

CONSTANTS
    Environments,   \* environments of a deployment
    Releases,       \* images, by the number of migrations in them
    Roles,          \* database roles
    Owner,          \* the one that owns the schema
    Powers,         \* what a role may be allowed: some of "super", "bypass", "createdb"
    NoRole,         \* the role of a URL that is not set
    MaxProcesses    \* bound: processes

ASSUME DeploymentAssumption ==
    Releases \subseteq Nat /\ MaxProcesses \in Nat /\ NoRole \notin Roles
    /\ Owner \in Roles /\ \A e \in Environments : {e.owner, e.app} \subseteq Roles \cup {NoRole}

VARIABLES
    env,        \* the environment of the deployment
    process,    \* the processes in the order they were started
    anyTable,   \* whether the owner has made a table yet
    schema,     \* the migrations in effect, in the order they were applied
    recorded,   \* schema_migrations
    lock,       \* the process whose connection has the advisory lock, or 0
    power,      \* the powers of a role, NoRole for one that does not exist
    granted,    \* the migrations whose tables and functions the runtime role may use
    sealed      \* the keys of what was encrypted into the database, or signed: <<setting, key>>

deploymentVars == <<env, process, anyTable, schema, recorded, lock, power, granted, sealed>>

-----------------------------------------------------------------------------
(* The environment *)

Given(setting) == setting \in env.given
Sound(setting) == setting \notin env.wrong

\* STORE, or what the environment can support.
ReadStoreDriver ==
    IF env.store # "" THEN env.store
    ELSE IF {env.owner, env.app} # {NoRole} THEN "postgres" ELSE "memory"

\* Mutant: the lack of one is not refused.
KeysIfGiven == \A k \in {"JWT_SECRET", "MFA_KEY", "STATEMENT_KEY"} : Sound(k)

\* A key of too few bytes is refused, and in production the lack of one.
ResolveKeys == \A k \in {"JWT_SECRET", "MFA_KEY",
                         "STATEMENT_KEY"} : Sound(k) /\ (env.production => Given(k))

\* An allowlist, or in development any origin.
ResolveCorsOrigins == env.production => Given("CORS_ORIGINS")
ResolveReleaseSha == Sound("GIT_SHA") /\ (env.production => Given("GIT_SHA"))

\* Two documents, each with its version and its HTTPS address, or in development none.
ResolveLegalConfig ==
    /\ Sound("TERMS") /\ Sound("PRIVACY")
    /\ Given("TERMS") <=> Given("PRIVACY")
    /\ env.production => Given("TERMS")

\* Where a checkout returns to has to be HTTPS once something is sold.
ResolveBillingConfig == env.production /\ Given("STRIPE_KEY") => Given("BILLING_URLS")
ResolveStripe ==
    Given("STRIPE_KEY") => Given("STRIPE_WEBHOOK_SECRET") /\ ~(env.production /\ Given("STRIPE_TEST"))
ResolvePlaid == env.production /\ Given("PLAID") => Given("PLAID_PRODUCTION")

\* Settings that are optional, but refused when they are malformed.
ResolveOptional ==
    \A s \in {"METRICS_TOKEN", "IOS_LINK", "WEBAUTHN", "PUSH", "SENTRY", "PORTS"} : Sound(s)

\* Screening and the statement worker are on in production unless they are turned off, which is refused.
ResolveRequired ==
    \A s \in {"HIBP_OFF", "ASYNC_OFF"} : Sound(s) /\ (env.production => ~Given(s))

\* Where the data is: in production in PostgreSQL, by a role that is not the schema's owner, with the
\* migrations a step of their own.
ResolveDatabase ==
    /\ ReadStoreDriver \in {"postgres", "memory"}
    /\ ReadStoreDriver = "postgres" => {env.owner, env.app} # {NoRole}
    /\ env.migrateOnBoot /\ ReadStoreDriver = "postgres" => env.owner # NoRole
    /\ env.production => /\ ReadStoreDriver = "postgres"
                         /\ env.app # NoRole
                         /\ env.owner # env.app
                         /\ ~env.migrateOnBoot

BuildConfig ==
    /\ ResolveKeys /\ ResolveRequired /\ ResolveDatabase /\ ResolveStripe /\ ResolvePlaid
    /\ ResolveCorsOrigins /\ ResolveLegalConfig /\ ResolveBillingConfig /\ ResolveOptional
    /\ ResolveReleaseSha

\* What Nest needs to construct the other providers.
Providers ==
    /\ Given("PLAID") => Given("BANK_KEY")
    /\ Sound("SMTP") /\ (env.production => Given("SMTP"))

\* Every request is served as one role: the owner when the other URL is not set.
GetAppPool == IF env.app = NoRole THEN env.owner ELSE env.app

\* All ports are of one kind: arrays of the process, or the tables, through the pool of that role.
StoreProviders ==
    IF ReadStoreDriver = "memory" THEN [durable |-> FALSE, role |-> NoRole]
    ELSE [durable |-> TRUE, role |-> GetAppPool]

\* A key of the environment, or one of the process.
Key(p, setting) == IF Given(setting) THEN <<"env", setting>> ELSE <<"random", p>>

-----------------------------------------------------------------------------
(* Processes *)

DeploymentInit ==
    /\ env \in Environments
    /\ power \in [Roles -> (SUBSET Powers) \cup {{NoRole}}]
    /\ power[Owner] # {NoRole}
    /\ process = <<>> /\ anyTable = FALSE /\ schema = <<>> /\ recorded = {} /\ lock = 0
    /\ granted = 0 /\ sealed = {}

At(p, pc) == process[p].pc = pc
Goto(p, pc) == process' = [process EXCEPT ![p].pc = pc]

\* A process that ends takes its connections along, and the lock of one of them.
Unlocked(p) == IF lock = p THEN 0 ELSE lock
Stop(p) == Goto(p, "stopped") /\ lock' = Unlocked(p)

\* A server, or `npm run migrate`, which is given the URL of the owner and that of the runtime role.
Launch(server, release) ==
    /\ Len(process) < MaxProcesses
    /\ process' = Append(process, [server |-> server, release |-> release, pending |-> {},
                                   stores |-> [durable |-> FALSE, role |-> NoRole],
                                   pc |-> IF server THEN "configure" ELSE "migrate"])
    /\ UNCHANGED <<env, anyTable, schema, recorded, lock, power, granted, sealed>>

\* loadConfig throws, or the configuration is the one the process keeps.
Configure(p) ==
    /\ At(p, "configure")
    /\ Goto(p, IF ~BuildConfig THEN "stopped"
               ELSE IF ReadStoreDriver = "postgres" /\ env.migrateOnBoot THEN "migrate" ELSE "assert")
    /\ UNCHANGED <<env, anyTable, schema, recorded, lock, power, granted, sealed>>

\* runMigrations: the advisory lock, or nothing.
TryLock(p) ==
    /\ At(p, "migrate")
    /\ IF lock = 0 THEN Goto(p, "inspect") /\ lock' = p
       ELSE Goto(p, "stopped") /\ UNCHANGED lock
    /\ UNCHANGED <<env, anyTable, schema, recorded, power, granted, sealed>>

\* A database with migrations this image does not have is not for it.
InspectMigrations(p) ==
    LET files == 1..process[p].release IN
    /\ At(p, "inspect") /\ anyTable' = TRUE
    /\ IF recorded \ files # {} THEN Stop(p)
       ELSE /\ process' = [process EXCEPT ![p].pc = "apply", ![p].pending = files \ recorded]
            /\ UNCHANGED lock
    /\ UNCHANGED <<env, schema, recorded, power, granted, sealed>>

\* Mutant: the record of a migration that is there already is passed over.
ApplyAgain(p) ==
    LET file == Min(process[p].pending) IN
    /\ At(p, "apply") /\ process[p].pending # {}
    /\ schema' = Append(schema, file) /\ recorded' = recorded \cup {file}
    /\ process' = [process EXCEPT ![p].pending = @ \ {file}]
    /\ UNCHANGED <<env, anyTable, lock, power, granted, sealed>>

\* The next file and its record in one transaction, which fails when the record is there.
ApplyMigration(p) ==
    LET file == Min(process[p].pending) IN
    /\ At(p, "apply") /\ process[p].pending # {}
    /\ IF file \in recorded THEN Stop(p) /\ UNCHANGED <<schema, recorded>>
       ELSE /\ schema' = Append(schema, file) /\ recorded' = recorded \cup {file}
            /\ process' = [process EXCEPT ![p].pending = @ \ {file}]
            /\ UNCHANGED lock
    /\ UNCHANGED <<env, anyTable, power, granted, sealed>>

\* The lock is given back on its connection; without the connection that fails, and the process with it.
Unlock(p) ==
    /\ At(p, "apply") /\ process[p].pending = {}
    /\ IF lock # p THEN Stop(p)
       ELSE /\ lock' = 0
            /\ Goto(p, IF env.app # NoRole THEN "provision"
                       ELSE IF process[p].server THEN "assert" ELSE "done")
    /\ UNCHANGED <<env, anyTable, schema, recorded, power, granted, sealed>>

\* Creates the role with the defaults, or refuses the one that is there; the grants are of what there is.
ProvisionAppRole(p) ==
    /\ At(p, "provision")
    /\ IF power[env.app] \notin {{}, {NoRole}} THEN Stop(p) /\ UNCHANGED <<power, granted>>
       ELSE /\ power' = [power EXCEPT ![env.app] = {}]
            /\ granted' = Len(schema)
            /\ Goto(p, IF process[p].server THEN "assert" ELSE "done")
            /\ UNCHANGED lock
    /\ UNCHANGED <<env, anyTable, schema, recorded, sealed>>

\* Neither above the policies nor the owner of a table; false of a role that does not exist.
IsRestricted(role) == power[role] \cap {"super", "bypass", NoRole} = {} /\ (role = Owner => ~anyTable)

\* In production the connection says which role it is.
AssertRestrictedRuntimeRole(p) ==
    /\ At(p, "assert")
    /\ Goto(p, IF env.production /\ ~IsRestricted(GetAppPool) THEN "stopped" ELSE "wire")
    /\ UNCHANGED <<env, anyTable, schema, recorded, lock, power, granted, sealed>>

\* The modules are made, and the port is opened.
Listen(p) ==
    /\ At(p, "wire")
    /\ process' = IF Providers THEN [process EXCEPT ![p].pc = "serving", ![p].stores = StoreProviders]
                  ELSE [process EXCEPT ![p].pc = "stopped"]
    /\ UNCHANGED <<env, anyTable, schema, recorded, lock, power, granted, sealed>>

\* A statement or a second factor is encrypted into the database, a bank token too, or a session signed.
Seal(p, setting) ==
    /\ At(p, "serving")
    /\ setting = "MFA_KEY" => Given("MFA_KEY")
    /\ setting = "BANK_KEY" => Given("PLAID")
    /\ ~process[p].stores.durable => setting = "JWT_SECRET"
    /\ sealed' = sealed \cup {<<setting, Key(p, setting)>>}
    /\ UNCHANGED <<env, process, anyTable, schema, recorded, lock, power, granted>>

\* SIGTERM, a crash, or an exception that nobody catches.
Exit(p) ==
    /\ process[p].pc \notin {"stopped", "done"}
    /\ Stop(p)
    /\ UNCHANGED <<env, anyTable, schema, recorded, power, granted, sealed>>

\* The connection with the lock is lost, and the process has not noticed.
LoseLock ==
    /\ lock # 0 /\ lock' = 0
    /\ UNCHANGED <<env, process, anyTable, schema, recorded, power, granted, sealed>>

\* An administrator.
AlterRole(role, powers) ==
    /\ power[role] # {NoRole} /\ power[role] # powers
    /\ power' = [power EXCEPT ![role] = powers]
    /\ UNCHANGED <<env, process, anyTable, schema, recorded, lock, granted, sealed>>

DeploymentNext ==
    \/ \E server \in BOOLEAN, r \in Releases : Launch(server, r)
    \/ \E p \in DOMAIN process :
          \/ Configure(p) \/ TryLock(p) \/ InspectMigrations(p) \/ ApplyMigration(p) \/ Unlock(p)
          \/ ProvisionAppRole(p) \/ AssertRestrictedRuntimeRole(p) \/ Listen(p) \/ Exit(p)
          \/ \E s \in {"JWT_SECRET", "MFA_KEY", "STATEMENT_KEY", "BANK_KEY"} : Seal(p, s)
    \/ LoseLock
    \/ \E role \in Roles, powers \in SUBSET Powers : AlterRole(role, powers)

DeploymentSpec == DeploymentInit /\ [][DeploymentNext]_deploymentVars

-----------------------------------------------------------------------------
(* Properties *)

\* What the load balancer is told.
Health(p) ==
    LET stores == process[p].stores IN
    /\ At(p, "serving")
    /\ stores.durable => power[stores.role] # {NoRole} /\ (env.production => IsRestricted(stores.role))

\* Whichever servers and release steps overlap, lose their lock or die: every migration is in effect once
\* and in order, the records are those of the migrations in effect, a server that migrates on boot serves
\* a schema no older than itself, and a release step that has succeeded has left the runtime role with
\* the tables and the functions of its release.
MigratedOnce ==
    /\ schema = [i \in 1..Len(schema) |-> i]
    /\ recorded = ToSet(schema)
    /\ \A p \in DOMAIN process :
          /\ process[p].stores.durable /\ env.migrateOnBoot => Len(schema) >= process[p].release
          /\ At(p, "done") /\ env.app # NoRole => granted >= process[p].release

\* A production server that is in traffic keeps its data in PostgreSQL, as a role with no power over the
\* policies and no table of its own, whatever was done to that role since it was provisioned; and what one
\* of the servers has encrypted or signed, every other one and every later one can read.
ServedAsDeployed ==
    \A p \in DOMAIN process : env.production /\ Health(p) =>
       /\ process[p].stores.durable
       /\ power[process[p].stores.role] \subseteq Powers \ {"super", "bypass"}
       /\ process[p].stores.role = Owner => schema = <<>>
       /\ \A s \in sealed : s[2] = Key(p, s[1])
=============================================================================
