------------------------------ MODULE MCAccess ------------------------------
(***************************************************************************)
(* Who is let in, and to what: registration, the lock on failed logins,    *)
(* the second factor, passkeys, the rate limit, the subscription and the   *)
(* environment a server boots in share no state, so each behaviour follows *)
(* one of them and leaves the others where they start.                     *)
(***************************************************************************)
EXTENDS Billing, Factors, Lockout, Passkeys, Throttle, Registrations, Deployment, TLC
CONSTANTS h1, h2, s1, s2, r1, r2, c1, c2, c3, c4, l1, l2, k1, eve, none, schemaOwner, runtime
VARIABLE part

\* Two passwords of different ranges, and a cache of one range.
AllPasswords ==
    {[prefix |-> p, length |-> 12, distinct |-> 3, common |-> FALSE, names |-> none] : p \in {1, 2}}

Symmetric == Permutations({r1, r2}) \cup Permutations({h1, h2})

-----------------------------------------------------------------------------
(* Deployment: complete environments, and those with one setting missing, refused or wrong *)

Required == {"JWT_SECRET", "MFA_KEY", "STATEMENT_KEY", "TERMS", "PRIVACY", "CORS_ORIGINS", "GIT_SHA",
             "SMTP"}
Sold == {"STRIPE_KEY", "STRIPE_WEBHOOK_SECRET", "BILLING_URLS", "PLAID", "PLAID_PRODUCTION", "BANK_KEY"}
Optional == {"METRICS_TOKEN", "IOS_LINK", "WEBAUTHN", "PUSH", "SENTRY", "PORTS", "HIBP_OFF", "ASYNC_OFF"}
Production == [production |-> TRUE, store |-> "", owner |-> none, app |-> runtime, migrateOnBoot |-> FALSE,
               given |-> Required \cup Sold, wrong |-> {}]
Development == [Production EXCEPT !.production = FALSE, !.given = {}, !.migrateOnBoot = TRUE]
AllEnvironments ==
    {Production, Development}
    \cup {[Production EXCEPT !.given = @ \ {s}] : s \in Required \cup Sold}
    \cup {[Production EXCEPT !.given = @ \cup {s}] : s \in {"STRIPE_TEST", "HIBP_OFF", "ASYNC_OFF"}}
    \cup {[Production EXCEPT !.wrong = {s}] : s \in Required \cup Optional}
    \cup {[Production EXCEPT !.store = s] : s \in {"memory", "sqlite"}}
    \cup {[Production EXCEPT !.migrateOnBoot = TRUE], [Production EXCEPT !.app = schemaOwner]}
    \cup {[Production EXCEPT !.owner = schemaOwner, !.app = a] : a \in {schemaOwner, none}}
    \cup {[Development EXCEPT !.owner = schemaOwner, !.app = a] : a \in {runtime, none}}
    \cup {[Development EXCEPT !.app = none]}

-----------------------------------------------------------------------------
(* Access *)

AccessInit ==
    /\ part \in {"billing", "factors", "lockout", "passkeys", "throttle", "registration",
                "deployment"}
    /\ BillingInit /\ FactorsInit /\ LockoutInit /\ PasskeysInit /\ ThrottleInit
    /\ RegistrationsInit /\ (part # "registration" => required /\ legal = 0)
    /\ DeploymentInit /\ (part # "deployment" => env = Production)
    /\ part # "deployment" \/ env # Production => power = [r \in Roles |-> {}]

\* Bound: a second code is mailed only where no password is ever published; the properties of codes and
\* of screened passwords share no state.
CodesOrLeaks == Len(codes) < 2 \/ \A s \in Passwords : leaked[s] = Never

\* A step of one part leaves the others alone.
LoginVars == <<factorsVars, lockoutVars, passkeysVars, throttleVars>>

AccessNext ==
    /\ UNCHANGED part
    /\ \/ part = "billing" /\ BillingNext /\ UNCHANGED <<LoginVars, registrationsVars, deploymentVars>>
       \/ /\ part = "registration" /\ RegistrationsNext /\ CodesOrLeaks'
          /\ UNCHANGED <<LoginVars, billingVars, deploymentVars>>
       \/ part = "deployment" /\ DeploymentNext /\ UNCHANGED <<LoginVars, billingVars, registrationsVars>>
       \/ /\ UNCHANGED <<billingVars, registrationsVars, deploymentVars>>
          /\ \/ part = "factors" /\ FactorsNext /\ UNCHANGED <<lockoutVars, passkeysVars, throttleVars>>
             \/ part = "lockout" /\ LockoutNext /\ UNCHANGED <<factorsVars, passkeysVars, throttleVars>>
             \/ part = "passkeys" /\ PasskeysNext /\ UNCHANGED <<factorsVars, lockoutVars, throttleVars>>
             \/ part = "throttle" /\ ThrottleNext /\ UNCHANGED <<factorsVars, lockoutVars, passkeysVars>>

AccessSpec == AccessInit /\ [][AccessNext]_<<part, LoginVars, billingVars, registrationsVars, deploymentVars>>

=============================================================================
