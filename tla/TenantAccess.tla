---------------------------- MODULE TenantAccess ----------------------------
(***************************************************************************)
(* From a verified token to rows of one tenant: resolve_context              *)
(* (identity/auth.py), the sessions it and the handlers run in               *)
(* (platform/db.py, api/deps.py), the row-level policies (migration 0001),   *)
(* and the administration of memberships (identity/service.py).              *)
(*                                                                         *)
(* Every session is a transaction on a connection of one pool.  set_config   *)
(* with is_local sets a value for the transaction; what a statement sets     *)
(* otherwise stays with the connection, for whoever gets it next.            *)
(***************************************************************************)
EXTENDS SigningKeys, FiniteSets

CONSTANTS
    Users, Tenants,
    Enabled,        \* the users with an active row of app_user
    Roles,          \* [role -> its capabilities], the catalogue role_capability
    Shipped,        \* the roles RoleCode knows
    PlatformAdmin,
    Tokens,         \* what a token says: [kid, user, tenant], tenant None if it names none
    Connections,    \* pool_size plus max_overflow
    Memberships     \* the memberships at first

ASSUME AccessAssumption ==
    /\ Enabled \subseteq Users /\ PlatformAdmin \in Shipped /\ Shipped \subseteq DOMAIN Roles
    /\ \A token \in Tokens :
        token.kid \in Kids /\ token.user \in Users /\ token.tenant \in Tenants \cup {None}
    /\ \A m \in DOMAIN Memberships : Memberships[m] \in DOMAIN Roles
    /\ None \notin Users \cup Tenants \cup DOMAIN Roles \cup Tokens \cup Requests

VARIABLES
    member,         \* [Users \X Tenants -> Membership], role None without a row
    live,           \* tenants whose row exists
    conn,           \* [Connections -> Connection]: settings of the
                    \*   transaction, and of the connection itself
    request         \* [Requests -> its position, its context and what it read]

accessVars == <<member, live, conn, request>>

NoSettings == [tenant |-> None, user |-> None]
Settings == [tenant : Tenants \cup {None}, user : Users \cup {None}]

Membership == [role : DOMAIN Roles \cup {None}, active : BOOLEAN]

Connection == [holder : Requests \cup {None}, local : Settings, kept : Settings]

\* granted (history): the memberships of its user that were active since it began.
NoRequest == [pc |-> "idle", token |-> None, tenant |-> None, role |-> None,
              caps |-> {}, rows |-> {}, granted |-> {}]

\* The sessions of a request, in their order; "rows" is the handler's.
InSession == {"principal", "memberships", "capabilities", "slug", "rows", "leave"}

AccessTypeOK ==
    /\ member \in [Users \X Tenants -> Membership]
    /\ live \subseteq Tenants
    /\ conn \in [Connections -> Connection]
    /\ \A r \in Requests :
        /\ request[r].token \in Tokens \cup {None}
        /\ request[r].tenant \in Tenants \cup {None}
        /\ request[r].pc \in InSession =>
             Cardinality({c \in Connections : conn[c].holder = r}) = 1
        /\ request[r].pc \notin InSession => \A c \in Connections : conn[c].holder # r
    /\ \A c \in Connections : conn[c].holder = None => conn[c].local = NoSettings

AccessInit ==
    /\ member = [m \in Users \X Tenants |->
                    IF m \in DOMAIN Memberships THEN [role |-> Memberships[m], active |-> TRUE]
                                                ELSE [role |-> None, active |-> FALSE]]
    /\ live = Tenants
    /\ conn = [c \in Connections |-> [holder |-> None, local |-> NoSettings, kept |-> NoSettings]]
    /\ request = [r \in Requests |-> NoRequest]

-----------------------------------------------------------------------------
(* Sessions and row-level security.                                        *)

Held(r) == CHOOSE c \in Connections : conn[c].holder = r

\* current_setting: the transaction's value before the connection's.
Setting(c, name) == IF conn[c].local[name] # None THEN conn[c].local[name] ELSE conn[c].kept[name]

\* Mutant: the setting outlives its transaction.
LocalForever(c, settings) ==
    [conn[c] EXCEPT !.kept = [name \in DOMAIN @ |->
        IF settings[name] # None THEN settings[name] ELSE @[name]]]

\* set_config(..., is_local => true), on a connection just taken.
Local(c, settings) == [conn[c] EXCEPT !.local = settings]

\* factory() and session.begin(), then set_config where the session has a scope.
Open(r, settings, pc) ==
    \E c \in Connections :
        /\ conn[c].holder = None
        /\ conn' = [conn EXCEPT ![c] = [Local(c, settings) EXCEPT !.holder = r]]
        /\ request' = [request EXCEPT ![r].pc = pc]

\* COMMIT or ROLLBACK, and the connection goes back to the pool.
Returned(r) == [conn EXCEPT ![Held(r)] = [@ EXCEPT !.holder = None, !.local = NoSettings]]

Close(r, now) ==
    /\ conn' = Returned(r)
    /\ request' = [request EXCEPT ![r] = now]

Live == {m \in DOMAIN member : member[m].role # None}

\* The permissive policies tenant_isolation and membership_self_select.
Visible(c) == {m \in Live : m[2] = Setting(c, "tenant") \/ m[1] = Setting(c, "user")}

Active(u) == {m \in Live : m[1] = u /\ member[m].active}

\* <<tenant, role>> for each active membership of u.
Grants(u) == {<<m[2], member[m].role>> : m \in Active(u)}

-----------------------------------------------------------------------------
(* resolve_context: three sessions, the second of them the principal's own.*)

At(r, pc) == request[r].pc = pc
User(r) == request[r].token.user
Over(r, answer) == [NoRequest EXCEPT !.pc = answer]

Receive(r, token) ==
    /\ At(r, "idle")
    /\ request' = [request EXCEPT ![r] = [NoRequest EXCEPT
            !.pc = "verifying", !.token = token, !.granted = Grants(token.user)]]
    /\ UNCHANGED <<member, live, conn>>

Authenticated(r) ==
    /\ At(r, "verifying")
    /\ request' = [request EXCEPT ![r].pc = "verified"]
    /\ UNCHANGED <<member, live, conn>>

Unauthenticated(r) ==
    /\ At(r, "verifying")
    /\ request' = [request EXCEPT ![r] = Over(r, "unauthenticated")]
    /\ UNCHANGED <<member, live, conn>>

\* unscoped_session.
OpenUnscoped(r) ==
    /\ \/ At(r, "verified") /\ Open(r, NoSettings, "principal")
       \/ At(r, "resolved") /\ Open(r, NoSettings, "slug")
    /\ UNCHANGED <<member, live>>

\* _load_principal, on a table without row-level security.
LoadPrincipal(r) ==
    /\ At(r, "principal")
    /\ Close(r, IF User(r) \in Enabled THEN [request[r] EXCEPT !.pc = "known"]
                                       ELSE Over(r, "unauthenticated"))
    /\ UNCHANGED <<member, live>>

\* principal_session.
OpenPrincipal(r) ==
    /\ At(r, "known") /\ Open(r, [NoSettings EXCEPT !.user = User(r)], "memberships")
    /\ UNCHANGED <<member, live>>

\* available: the active memberships the session can see.
Available(r) == Visible(Held(r)) \cap Active(User(r))

\* Mutant: the token is believed.
ChosenAsAsked(r) ==
    IF request[r].token.tenant # None THEN {request[r].token.tenant}
    ELSE {m[2] : m \in Available(r)}

\* The tenant the token names, or the only one there is; none in other cases.
Chosen(r) ==
    LET asked == request[r].token.tenant
        tenants == {m[2] : m \in Available(r)}
    IN  IF asked # None THEN tenants \cap {asked}
        ELSE IF Cardinality(tenants) = 1 THEN tenants ELSE {}

ReadMemberships(r) ==
    /\ At(r, "memberships")
    /\ \/ /\ Chosen(r) = {}
          /\ Close(r, Over(r, "forbidden"))
       \/ \E t \in Chosen(r) :
            /\ request' = [request EXCEPT ![r].pc = "capabilities", ![r].tenant = t,
                                          ![r].role = member[<<User(r), t>>].role]
            /\ UNCHANGED conn
    /\ UNCHANGED <<member, live>>

\* _load_capabilities, on global tables.
LoadCapabilities(r) ==
    /\ At(r, "capabilities")
    /\ Close(r, [request[r] EXCEPT !.pc = "resolved", !.caps = Roles[request[r].role]])
    /\ UNCHANGED <<member, live>>

\* The slug of a tenant that was offboarded meanwhile does not exist, and
\* RoleCode refuses a role it does not know.
ReadSlug(r) ==
    /\ At(r, "slug")
    /\ Close(r, IF request[r].tenant \in live /\ request[r].role \in Shipped
                THEN [request[r] EXCEPT !.pc = "context"] ELSE Over(r, "error"))
    /\ UNCHANGED <<member, live>>

-----------------------------------------------------------------------------
(* The handler, in tenant_session.                                         *)

OpenTenant(r) ==
    /\ At(r, "context") /\ Open(r, [NoSettings EXCEPT !.tenant = request[r].tenant], "rows")
    /\ UNCHANGED <<member, live>>

\* list_memberships: a capability, then a query without a condition on the tenant.
ListMemberships(r) ==
    /\ At(r, "rows")
    /\ \/ /\ "membership.read" \notin request[r].caps
          /\ Close(r, Over(r, "forbidden"))
       \/ /\ "membership.read" \in request[r].caps
          /\ request' = [request EXCEPT ![r].pc = "leave", ![r].rows = Visible(Held(r))]
          /\ UNCHANGED conn
    /\ UNCHANGED <<member, live>>

\* get_tenant, and get_tenant_by_id for the tenant a URL names.
ReadTenant(r, named) ==
    /\ At(r, "rows")
    /\ \/ /\ "tenant.read" \in request[r].caps
          /\ named = request[r].tenant /\ named \in live
          /\ request' = [request EXCEPT ![r].pc = "leave"]
          /\ UNCHANGED conn
       \/ /\ "tenant.read" \notin request[r].caps \/ named # request[r].tenant \/ named \notin live
          /\ Close(r, Over(r, "forbidden"))
    /\ UNCHANGED <<member, live>>

Leave(r) ==
    /\ At(r, "leave") /\ Close(r, [request[r] EXCEPT !.pc = "answered"])
    /\ UNCHANGED <<member, live>>

\* get_platform_context: the capability, the role and a reason.
Elevate(r) ==
    /\ At(r, "context")
    /\ \/ /\ "platform.tenant.provision" \in request[r].caps /\ request[r].role = PlatformAdmin
          /\ request' = [request EXCEPT ![r].pc = "elevated"]
       \/ request' = [request EXCEPT ![r] = Over(r, "forbidden")]
    /\ UNCHANGED <<member, live, conn>>

\* The answer is sent.
Finish(r) ==
    /\ request[r].pc \in {"answered", "forbidden", "unauthenticated", "error"}
    /\ request' = [request EXCEPT ![r] = NoRequest]
    /\ UNCHANGED <<member, live, conn>>

\* Counted with the changes at the provider, which they leave as it is.
Act == Change /\ UNCHANGED <<provider, cache, retired>>

\* The caller goes away: the open transaction is rolled back.
Cancel(r) ==
    /\ Act /\ request[r].pc \in InSession
    /\ Close(r, Over(r, "error"))
    /\ UNCHANGED <<member, live, verify>>

-----------------------------------------------------------------------------
(* Administration, on the role that bypasses row-level security.           *)

\* granted of every request, after a change of the memberships.
Noted(after) ==
    [r \in Requests |->
        IF request[r].token = None THEN request[r]
        ELSE [request[r] EXCEPT !.granted = @ \cup
                {<<t, after[<<User(r), t>>].role>> :
                    t \in {t \in Tenants : after[<<User(r), t>>].active}}]]

Administered(after) == Act /\ member' = after /\ UNCHANGED <<conn, verify>>

\* add_membership, in a platform session: one row for each user and tenant, and no
\* platform role in it.
Grant(r, u, t, role) ==
    /\ At(r, "elevated")
    /\ role # PlatformAdmin /\ t \in live /\ member[<<u, t>>].role = None
    /\ Administered([member EXCEPT ![<<u, t>>] = [role |-> role, active |-> TRUE]])
    /\ request' = [Noted(member') EXCEPT ![r].pc = "answered"]
    /\ UNCHANGED live

\* ConflictError, also for a tenant that does not exist any more.
GrantRefused(r, u, t, role) ==
    /\ At(r, "elevated")
    /\ role = PlatformAdmin \/ t \notin live \/ member[<<u, t>>].role # None
    /\ request' = [request EXCEPT ![r] = Over(r, "forbidden")]
    /\ UNCHANGED <<member, live, conn>>

\* By hand: a membership is suspended or taken up again.
Suspend(u, t) ==
    /\ member[<<u, t>>].role # None
    /\ Administered([member EXCEPT ![<<u, t>>].active = ~@])
    /\ request' = Noted(member')
    /\ UNCHANGED live

\* By hand: the tenant's row is deleted, its memberships with it.
Offboard(t) ==
    /\ t \in live
    /\ Administered([m \in DOMAIN member |->
                  IF m[2] = t THEN [role |-> None, active |-> FALSE] ELSE member[m]])
    /\ request' = Noted(member')
    /\ live' = live \ {t}

Serve(r) ==
    \/ OpenUnscoped(r) \/ LoadPrincipal(r) \/ OpenPrincipal(r) \/ ReadMemberships(r)
    \/ LoadCapabilities(r) \/ ReadSlug(r) \/ OpenTenant(r) \/ ListMemberships(r)
    \/ \E named \in Tenants : ReadTenant(r, named)
    \/ Leave(r) \/ Elevate(r) \/ Finish(r)
    \/ \E u \in Users, t \in Tenants, role \in Shipped : GrantRefused(r, u, t, role)

Administer ==
    \/ \E r \in Requests, u \in Users, t \in Tenants, role \in Shipped : Grant(r, u, t, role)
    \/ \E u \in Users, t \in Tenants : Suspend(u, t)
    \/ \E t \in Tenants : Offboard(t)

-----------------------------------------------------------------------------
(* Properties.                                                             *)

\* A session sees what it was opened for, whoever used its connection before: an
\* unscoped one nothing, the principal's its own memberships, a handler's the
\* tenant's alone, although the two policies are permissive and settings of both
\* kinds live on the same connections (platform/db.py, migration 0001).
SessionsAreConfined ==
    \A r \in Requests : LET seen == Visible(Held(r)) IN
        /\ request[r].pc \in {"principal", "slug"} => seen = {}
        /\ request[r].pc \in {"memberships", "capabilities"} => \A m \in seen : m[1] = User(r)
        /\ request[r].pc \in {"rows", "leave"} => \A m \in seen : m[2] = request[r].tenant

\* The tenant and the role a handler acts with are those of one membership of its
\* user that was active while the request ran, never only what the token asks for
\* (identity/auth.py, resolve_context).
ContextsWereGranted ==
    \A r \in Requests : request[r].tenant # None =>
        <<request[r].tenant, request[r].role>> \in request[r].granted

=============================================================================
