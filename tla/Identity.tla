------------------------------- MODULE Identity -------------------------------
(***************************************************************************)
(* Who may do what: passwords, lockout, refresh tokens, password resets    *)
(* and second factors (src/src/modules/auth), roles, their grants and the  *)
(* permission cache (src/src/modules/rbac), API keys, and the middleware   *)
(* that asks them (src/src/middleware/requireAuth.ts, requireModule.ts).   *)
(*                                                                         *)
(* A handler is a chain of queries, each a transaction of its own, with    *)
(* decisions taken on what an earlier query returned.  A refresh token     *)
(* row is called a session, as in listSessions.  Secrets, tokens and       *)
(* codes are random and taken as never drawn twice.                        *)
(***************************************************************************)
EXTENDS Naturals, FiniteSets, Requests

CONSTANTS
    Users,
    Sessions,    \* ids of refresh tokens
    Resets,      \* ids of password reset tokens
    Secrets,     \* TOTP secrets; each names the recovery codes drawn with it, taken as one
    Keys,        \* ids of API keys
    Roles,       \* role names of the tenant
    Perms,       \* permission keys
    Defaults,    \* DEFAULT_ROLE_PERMISSIONS
    MaxFailures, \* MAX_FAILED_ATTEMPTS
    MaxPassword  \* bound: the last number stands for all later passwords of a user

Areas == {"password", "factor", "access"}

ASSUME IdentityAssumption ==
    /\ \A m \in Modes : m.areas \subseteq Areas
    /\ Defaults \in [Roles -> SUBSET Perms]
    /\ MaxFailures \in Nat \ {0} /\ MaxPassword \in Nat
    /\ {"NONE", "TOTP"} \cap (Secrets \cup Sessions \cup Resets) = {}

VARIABLES
    user,     \* user[u]: the User row; passwords are numbered in the order they are set
    session,  \* session[t]: the RefreshToken row
    reset,    \* reset[k]: the PasswordResetToken row
    code,     \* code[s]: the MfaRecoveryCode rows drawn with secret s
    guesses,  \* history: wrong passwords logins compared since the last lock, success or reset
    proved,   \* history: the secrets an enableMfa saw a valid code of
    holds,    \* holds[u]: the roles of u's UserRole rows
    grants,   \* grants[o]: the permissions role o has in the database
    cache,    \* cache[o]: the entry of the permission cache
    stored,   \* history: what grants[o] was since cache[o] expired or was cleared
    key       \* key[k]: the ApiKey row

account == <<user, session, reset, code, guesses, proved>>
access  == <<holds, grants, cache, stored, key>>
vars    == <<mode, account, access, req>>

\* Requests of this area are made; an instance may leave some of them out.
In(area)   == area \in mode.areas

NoRow   == [row |-> "absent"]

UserRow ==
    [active : BOOLEAN, password : 0..MaxPassword, failures : 0..(MaxFailures - 1),
     locked : BOOLEAN, mfa : BOOLEAN, secret : Secrets \cup {"NONE"}]
\* live: neither revoked nor expired; history: the password it goes back to, the second
\* factor shown (TOTP, or a recovery code) and the session it was refreshed from.
SessionRow ==
    [of : Users, live : BOOLEAN, password : 0..MaxPassword,
     factor : {"NONE", "TOTP"} \cup Secrets, from : Sessions \cup {"NONE"}]
\* open: neither used nor expired; uses: history, the passwords set with it.
ResetRow == [of : Users, open : BOOLEAN, uses : 0..2]

Login   == [u : Users, password : 0..MaxPassword, factor : {"NONE", "TOTP"} \cup Secrets,
            from : Sessions \cup {"NONE"}]
Request ==
    {Idle}
      \cup [pc : {"fail"}, u : Users, n : 1..MaxFailures]
      \cup [pc : {"findCode", "useCode", "resolve", "rotate"}, in : Login]
      \cup [pc : {"open"}, in : Login, todo : (SUBSET {"clear", "insert"}) \ {{}}]
      \cup [pc : {"revoke"}, t : Sessions]
      \cup [pc : {"password", "spend", "revokeAll"}, u : Users, k : Resets \cup {"NONE"}]
      \cup [pc : {"compare", "ask", "disable"}, u : Users]
      \cup [pc : {"secret", "addCodes", "enable"}, u : Users, s : Secrets]
      \cup [pc : {"dropCodes"}, u : Users, s : Secrets \cup {"NONE"}]
      \cup [pc : {"unassign", "assign"}, u : Users, o : Roles]
      \cup [pc : {"clear"}]
      \cup [pc : {"load"}, o : Roles] \cup [pc : {"store"}, o : Roles, found : SUBSET Perms]
      \cup [pc : {"revokeKey"}, k : Keys] \cup [pc : {"identify"}, u : Users, k : Keys]
      \cup [pc : {"grant"}, o : Roles]

TypeOK ==
    /\ user \in [Users -> UserRow]
    /\ session \in [Sessions -> SessionRow \cup {NoRow}]
    /\ reset \in [Resets -> ResetRow \cup {NoRow}]
    /\ code \in [Secrets -> {NoRow} \cup [of : Users, state : {"unused", "used", "deleted"}]]
    /\ guesses \in [Users -> 0..(MaxFailures + 1)]
    /\ proved \subseteq Secrets
    /\ holds \in [Users -> SUBSET Roles]
    /\ grants \in [Roles -> SUBSET Perms]
    /\ cache \in [Roles -> {NoRow} \cup [found : SUBSET Perms]]
    /\ stored \in [Roles -> SUBSET SUBSET Perms]
    /\ key \in [Keys -> {NoRow} \cup [of : Users, live : BOOLEAN]]
    /\ req \in [Reqs -> Request]

Exists(row) == row # NoRow
Live(t)     == Exists(session[t]) /\ session[t].live

Init ==
    /\ mode \in Modes
    /\ user = [u \in Users |-> [active |-> TRUE, password |-> 0, failures |-> 0,
                                locked |-> FALSE, mfa |-> FALSE, secret |-> "NONE"]]
    /\ session = [t \in Sessions |-> NoRow]
    /\ reset = [k \in Resets |-> NoRow]
    /\ code = [s \in Secrets |-> NoRow]
    /\ guesses = [u \in Users |-> 0]
    /\ proved = {}
    /\ holds \in [Users -> {{o} : o \in Roles}]
    /\ grants \in [Roles -> {{}}] \cup {Defaults}
    /\ cache = [o \in Roles |-> NoRow]
    /\ stored = [o \in Roles |-> {grants[o]}]
    /\ key = [k \in Keys |-> NoRow]
    /\ req = [r \in Reqs |-> Idle]

-----------------------------------------------------------------------------
\* Request bookkeeping.

OfLogin == {"findCode", "useCode", "resolve", "rotate", "open"}
OfUser  == {"fail", "compare", "password", "spend", "revokeAll", "ask", "disable", "secret",
            "addCodes", "enable", "dropCodes"}

Touches(q) ==
    CASE req[q].pc \in OfLogin -> {req[q].in.u}
      [] req[q].pc \in {"unassign", "assign", "identify"} -> {req[q].u} \cup Roles
      [] req[q].pc \in OfUser -> {req[q].u}
      [] req[q].pc = "revoke" -> {session[req[q].t].of}
      [] req[q].pc \in {"load", "store", "grant"} -> {req[q].o}
      [] req[q].pc = "clear" -> Roles
      [] req[q].pc = "revokeKey" -> {key[req[q].k].of}
      [] OTHER -> {}

\* The code serialises nothing (MayOverlap); otherwise requests
\* that touch the same user or role take turns.
MayStart(r, things) ==
    /\ req[r] = Idle
    /\ MayOverlap \/ \A q \in Reqs : Touches(q) \cap things = {}

\* The server stops, or a query fails: earlier queries of r stay committed.
Die(r) ==
    /\ Faults /\ req[r] # Idle
    /\ Done(r)
    /\ UNCHANGED <<account, access>>

-----------------------------------------------------------------------------
\* Signing in.

\* The mutant locks one failure too late.
Mutant_LockingNow(n) == n > MaxFailures
LockingNow(n) == n >= MaxFailures

Guess(u) == guesses' = [guesses EXCEPT ![u] = IF @ > MaxFailures THEN @ ELSE @ + 1]

\* The row is read once, before the password is compared.  Unknown addresses,
\* inactive users and locked users are turned away (and the attempt recorded).
MayTry(u) == user[u].active /\ ~user[u].locked

LoginWrong(r, u) ==
    /\ MayStart(r, {u}) /\ In("password")
    /\ MayTry(u)
    /\ Guess(u)
    /\ Goto(r, [pc |-> "fail", u |-> u, n |-> user[u].failures + 1])
    /\ UNCHANGED <<user, session, reset, code, proved, access>>

RecordFailure(r) ==
    /\ At(r, "fail")
    /\ LET u == req[r].u  n == req[r].n IN
         /\ user' = [user EXCEPT ![u].failures = IF LockingNow(n) THEN 0 ELSE n,
                                 ![u].locked = LockingNow(n)]
         /\ guesses' = [guesses EXCEPT ![u] = IF LockingNow(n) THEN 0 ELSE @]
    /\ Done(r)
    /\ UNCHANGED <<session, reset, code, proved, access>>

\* The right password.  With MFA on, a code is asked for: one of the secret just
\* read, or else a recovery code.  The mutant asks whoever has a secret.
Mutant_AsksFor(u) == user[u].secret # "NONE"
AsksFor(u) == user[u].mfa

LoginRight(r, u, factor) ==
    /\ MayStart(r, {u}) /\ (In("password") \/ In("factor"))
    /\ MayTry(u)
    /\ AsksFor(u) <=> factor # "NONE"             \* else MFA_REQUIRED
    /\ AsksFor(u) => user[u].secret # "NONE"      \* else 500
    /\ LET in == [u |-> u, password |-> user[u].password, factor |-> factor, from |-> "NONE"] IN
         Goto(r, [pc |-> IF factor \in Secrets THEN "findCode" ELSE "resolve", in |-> in])
    /\ UNCHANGED <<account, access>>

\* verifyMfaCode.
Usable(s, u) == Exists(code[s]) /\ code[s].of = u /\ code[s].state = "unused"

FindCode(r) ==
    /\ At(r, "findCode")
    /\ IF Usable(req[r].in.factor, req[r].in.u)
       THEN Goto(r, [req[r] EXCEPT !.pc = "useCode"])
       ELSE Done(r)                               \* MFA_INVALID
    /\ UNCHANGED <<account, access>>

\* A code deleted since it was found is not updated: the query fails.
UseCode(r) ==
    /\ At(r, "useCode")
    /\ LET s == req[r].in.factor IN
         IF code[s].state = "deleted"
         THEN Done(r) /\ UNCHANGED code
         ELSE /\ code' = [code EXCEPT ![s].state = "used"]
              /\ Goto(r, [req[r] EXCEPT !.pc = "resolve"])
    /\ UNCHANGED <<user, session, reset, guesses, proved, access>>

\* getPrimaryRoleName; a user without a role cannot go on.
Resolve(r) ==
    /\ At(r, "resolve")
    /\ LET in == req[r].in IN
         IF holds[in.u] = {} THEN Done(r)
         ELSE IF in.from = "NONE"
         THEN Goto(r, [pc |-> "open", in |-> in, todo |-> {"clear", "insert"}])
         ELSE Goto(r, [pc |-> "rotate", in |-> in])
    /\ UNCHANGED <<account, access>>

\* Promise.all: the failures are cleared and the token is stored in either order.
Finish(r, part) ==
    IF req[r].todo = {part} THEN Done(r) ELSE Goto(r, [req[r] EXCEPT !.todo = @ \ {part}])

ClearFailures(r) ==
    /\ At(r, "open") /\ "clear" \in req[r].todo
    /\ LET u == req[r].in.u IN
         /\ user' = [user EXCEPT ![u].failures = 0, ![u].locked = FALSE]
         /\ guesses' = [guesses EXCEPT ![u] = 0]
    /\ Finish(r, "clear")
    /\ UNCHANGED <<session, reset, code, proved, access>>

IssueTokenPair(r, t) ==
    /\ At(r, "open") /\ "insert" \in req[r].todo
    /\ session[t] = NoRow
    /\ LET in == req[r].in IN
         session' = [session EXCEPT ![t] =
           [of |-> in.u, live |-> TRUE, password |-> in.password, factor |-> in.factor, from |-> in.from]]
    /\ Finish(r, "insert")
    /\ UNCHANGED <<user, reset, code, guesses, proved, access>>

\* LOCKOUT_MS after a lock; it matters where passwords are guessed.
LockExpires(u) ==
    /\ user[u].locked
    /\ user' = [user EXCEPT ![u].locked = FALSE]
    /\ UNCHANGED <<session, reset, code, guesses, proved, access, req>>

-----------------------------------------------------------------------------
\* Sessions.

\* The mutant's refresh would not look at revokedAt.
Mutant_MayRefresh(t) == Exists(session[t]) /\ user[session[t].of].active
MayRefresh(t) == Live(t) /\ user[session[t].of].active

Refresh(r, t) ==
    /\ Exists(session[t])
    /\ MayStart(r, {session[t].of}) /\ In("password")
    /\ MayRefresh(t)                              \* else 401
    /\ LET s == session[t]
           in == [u |-> s.of, password |-> s.password, factor |-> s.factor, from |-> t]
       IN  Goto(r, [pc |-> "resolve", in |-> in])
    /\ UNCHANGED <<account, access>>

\* The presented token is revoked, then a fresh pair is issued.
Rotate(r) ==
    /\ At(r, "rotate")
    /\ LET in == req[r].in IN
         /\ session' = [session EXCEPT ![in.from].live = FALSE]
         /\ Goto(r, [pc |-> "open", in |-> in, todo |-> {"insert"}])
    /\ UNCHANGED <<user, reset, code, guesses, proved, access>>

\* logout by a token, revokeSession by the owner of a session.
Logout(r, t) ==
    /\ Live(t)                                    \* else nothing to do
    /\ MayStart(r, {session[t].of}) /\ In("password")
    /\ Goto(r, [pc |-> "revoke", t |-> t])
    /\ UNCHANGED <<account, access>>

RevokeSession(r, u, t) ==
    /\ Exists(session[t]) /\ session[t].of = u    \* else 404
    /\ MayStart(r, {u}) /\ In("password")
    /\ session[t].live                            \* else nothing to do
    /\ Goto(r, [pc |-> "revoke", t |-> t])
    /\ UNCHANGED <<account, access>>

RevokeWrite(r) ==
    /\ At(r, "revoke")
    /\ session' = [session EXCEPT ![req[r].t].live = FALSE]
    /\ Done(r)
    /\ UNCHANGED <<user, reset, code, guesses, proved, access>>

\* JWT_REFRESH_EXPIRES_IN after it was issued; only the password area asks.
SessionExpires(t) ==
    /\ In("password") /\ Live(t)
    /\ session' = [session EXCEPT ![t].live = FALSE]
    /\ UNCHANGED <<user, reset, code, guesses, proved, access, req>>

-----------------------------------------------------------------------------
\* Passwords.

\* The row is read; a user who is locked may go on.
ChangePassword(r, u) ==
    /\ MayStart(r, {u}) /\ In("password")
    /\ Goto(r, [pc |-> "compare", u |-> u])
    /\ UNCHANGED <<account, access>>

\* The current password given is right or wrong; nothing counts a wrong one.
CompareCurrent(r) ==
    /\ At(r, "compare")
    /\ \/ Goto(r, [pc |-> "password", u |-> req[r].u, k |-> "NONE"])
       \/ Done(r)                                 \* INVALID_CURRENT_PASSWORD
    /\ UNCHANGED <<account, access>>

RequestPasswordReset(r, u) ==
    /\ MayStart(r, {u}) /\ In("password")
    /\ user[u].active                             \* else nothing happens
    /\ Goto(r, [pc |-> "ask", u |-> u])
    /\ UNCHANGED <<account, access>>

InsertReset(r, k) ==
    /\ At(r, "ask")
    /\ reset[k] = NoRow
    /\ reset' = [reset EXCEPT ![k] = [of |-> req[r].u, open |-> TRUE, uses |-> 0]]
    /\ Done(r)
    /\ UNCHANGED <<user, session, code, guesses, proved, access>>

ResetPassword(r, k) ==
    /\ Exists(reset[k])
    /\ MayStart(r, {reset[k].of})
    /\ reset[k].open /\ user[reset[k].of].active  \* else INVALID_RESET_TOKEN
    /\ Goto(r, [pc |-> "password", u |-> reset[k].of, k |-> k])
    /\ UNCHANGED <<account, access>>

\* A reset also lifts the lock.
PasswordWrite(r) ==
    /\ At(r, "password")
    /\ LET u == req[r].u  k == req[r].k IN
         /\ user' = [user EXCEPT ![u].password = IF @ < MaxPassword THEN @ + 1 ELSE @,
                                 ![u].failures = IF k = "NONE" THEN @ ELSE 0,
                                 ![u].locked = @ /\ k = "NONE"]
         /\ guesses' = [guesses EXCEPT ![u] = IF k = "NONE" THEN @ ELSE 0]
         /\ reset' = IF k = "NONE" THEN reset
                     ELSE [reset EXCEPT ![k].uses = IF @ = 2 THEN 2 ELSE @ + 1]
         /\ Goto(r, [req[r] EXCEPT !.pc = IF k = "NONE" THEN "revokeAll" ELSE "spend"])
    /\ UNCHANGED <<session, code, proved, access>>

\* usedAt.
Spent(row) == [row EXCEPT !.open = FALSE]

SpendReset(r) ==
    /\ At(r, "spend")
    /\ reset' = [reset EXCEPT ![req[r].k] = Spent(@)]
    /\ Goto(r, [req[r] EXCEPT !.pc = "revokeAll"])
    /\ UNCHANGED <<user, session, code, guesses, proved, access>>

\* Every session ends, the caller's own included.
EndsWith(t, u) == session[t].of = u

RevokeAll(r) ==
    /\ At(r, "revokeAll")
    /\ session' = [t \in Sessions |->
         IF Live(t) /\ EndsWith(t, req[r].u) THEN [session[t] EXCEPT !.live = FALSE] ELSE session[t]]
    /\ Done(r)
    /\ UNCHANGED <<user, reset, code, guesses, proved, access>>

-----------------------------------------------------------------------------
\* Second factors.

\* A fresh secret; a factor in use is switched off.
NewSecret(row, s) == [row EXCEPT !.secret = s, !.mfa = FALSE]

SetupMfa(r, u, s) ==
    /\ MayStart(r, {u}) /\ In("factor")
    /\ code[s] = NoRow /\ \A v \in Users : user[v].secret # s
    /\ \A q \in Reqs : req[q].pc \in {"secret", "dropCodes", "addCodes"} => req[q].s # s
    /\ Goto(r, [pc |-> "secret", u |-> u, s |-> s])
    /\ UNCHANGED <<account, access>>

SecretWrite(r) ==
    /\ At(r, "secret")
    /\ LET u == req[r].u  s == req[r].s IN
         /\ user' = [user EXCEPT ![u] = NewSecret(@, s)]
         /\ Goto(r, [pc |-> "dropCodes", u |-> u, s |-> s])
    /\ UNCHANGED <<session, reset, code, guesses, proved, access>>

DropCodes(r) ==
    /\ At(r, "dropCodes")
    /\ code' = [s \in Secrets |-> IF Exists(code[s]) /\ code[s].of = req[r].u
                                  THEN [code[s] EXCEPT !.state = "deleted"] ELSE code[s]]
    /\ IF req[r].s = "NONE" THEN Done(r) ELSE Goto(r, [req[r] EXCEPT !.pc = "addCodes"])
    /\ UNCHANGED <<user, session, reset, guesses, proved, access>>

AddCodes(r) ==
    /\ At(r, "addCodes")
    /\ code' = [code EXCEPT ![req[r].s] = [of |-> req[r].u, state |-> "unused"]]
    /\ Done(r)
    /\ UNCHANGED <<user, session, reset, guesses, proved, access>>

\* A code of the pending secret was given.
EnableMfa(r, u) ==
    /\ MayStart(r, {u}) /\ In("factor")
    /\ user[u].secret # "NONE"                    \* else 400
    /\ Goto(r, [pc |-> "enable", u |-> u, s |-> user[u].secret])
    /\ proved' = proved \cup {user[u].secret}
    /\ UNCHANGED <<user, session, reset, code, guesses, access>>

EnableWrite(r) ==
    /\ At(r, "enable")
    /\ user' = [user EXCEPT ![req[r].u].mfa = TRUE]
    /\ Done(r)
    /\ UNCHANGED <<session, reset, code, guesses, proved, access>>

DisableMfa(r, u) ==
    /\ MayStart(r, {u}) /\ In("factor")
    /\ user[u].mfa /\ user[u].secret # "NONE"     \* else MFA_NOT_ENABLED
    /\ Goto(r, [pc |-> "disable", u |-> u])
    /\ UNCHANGED <<account, access>>

DisableWrite(r) ==
    /\ At(r, "disable")
    /\ user' = [user EXCEPT ![req[r].u].mfa = FALSE, ![req[r].u].secret = "NONE"]
    /\ Goto(r, [pc |-> "dropCodes", u |-> req[r].u, s |-> "NONE"])
    /\ UNCHANGED <<session, reset, code, guesses, proved, access>>

-----------------------------------------------------------------------------
\* Roles, grants and the permission cache.

AssignRole(r, u, o) ==
    /\ MayStart(r, {u} \cup Roles) /\ In("access")
    /\ Goto(r, [pc |-> "unassign", u |-> u, o |-> o])
    /\ UNCHANGED <<account, access>>

Without(u) == [holds EXCEPT ![u] = {}]

Unassign(r) ==
    /\ At(r, "unassign")
    /\ holds' = Without(req[r].u)
    /\ Goto(r, [req[r] EXCEPT !.pc = "assign"])
    /\ UNCHANGED <<account, grants, cache, stored, key>>

\* Unique on user and role.
Assign(r) ==
    /\ At(r, "assign")
    /\ LET u == req[r].u  o == req[r].o IN
         IF o \in holds[u] THEN Done(r) /\ UNCHANGED holds
         ELSE /\ holds' = [holds EXCEPT ![u] = @ \cup {o}]
              /\ Goto(r, [pc |-> "clear"])
    /\ UNCHANGED <<account, grants, cache, stored, key>>

\* The mutant's clear would leave the entries.
Mutant_Emptied == cache
Emptied == [o \in Roles |-> NoRow]

\* clearPermissionCache
ClearPermissionCache(r) ==
    /\ At(r, "clear")
    /\ cache' = Emptied
    /\ stored' = [o \in Roles |-> {grants[o]}]
    /\ Done(r)
    /\ UNCHANGED <<account, holds, grants, key>>

\* seedTenantRoles for one role: the role row is there, then its grants are added,
\* those it has already skipped.
SeedRole(r, o) ==
    /\ MayStart(r, {o}) /\ In("access")
    /\ Goto(r, [pc |-> "grant", o |-> o])
    /\ UNCHANGED <<account, access>>

Granted(o, perms) ==
    /\ grants' = [grants EXCEPT ![o] = perms]
    /\ stored' = [stored EXCEPT ![o] = @ \cup {perms}]

GrantPermissions(r) ==
    /\ At(r, "grant")
    /\ Granted(req[r].o, grants[req[r].o] \cup Defaults[req[r].o])
    /\ Done(r)
    /\ UNCHANGED <<account, holds, cache, key>>

\* Grants are data an operator may take away.
RevokeGrant(o, p) ==
    /\ In("access") /\ p \in grants[o]
    /\ Granted(o, grants[o] \ {p})
    /\ UNCHANGED <<account, holds, cache, key, req>>

\* requirePermission for a role: a cached entry answers at once, else the grants are
\* loaded and then stored.
RequirePermission(r, o) ==
    /\ MayStart(r, {o}) /\ In("access")
    /\ cache[o] = NoRow
    /\ Goto(r, [pc |-> "load", o |-> o])
    /\ UNCHANGED <<account, access>>

LoadPermissions(r) ==
    /\ At(r, "load")
    /\ Goto(r, [pc |-> "store", o |-> req[r].o, found |-> grants[req[r].o]])
    /\ UNCHANGED <<account, access>>

StorePermissions(r) ==
    /\ At(r, "store")
    /\ cache' = [cache EXCEPT ![req[r].o] = [found |-> req[r].found]]
    /\ Done(r)
    /\ UNCHANGED <<account, holds, grants, stored, key>>

\* TTL_MS after it was stored.
EntryExpires(o) ==
    /\ Exists(cache[o])
    /\ cache' = [cache EXCEPT ![o] = NoRow]
    /\ stored' = [stored EXCEPT ![o] = {grants[o]}]
    /\ UNCHANGED <<account, holds, grants, key, req>>

-----------------------------------------------------------------------------
\* API keys act as the user who created them, under the user's role of the moment.

CreateApiKey(r, u, k) ==
    /\ MayStart(r, {u}) /\ In("access")
    /\ key[k] = NoRow
    /\ key' = [key EXCEPT ![k] = [of |-> u, live |-> TRUE]]
    /\ UNCHANGED <<account, holds, grants, cache, stored, req>>

RevokeApiKey(r, k) ==
    /\ Exists(key[k])                             \* else 404
    /\ MayStart(r, {key[k].of})
    /\ key[k].live                                \* else nothing to do
    /\ Goto(r, [pc |-> "revokeKey", k |-> k])
    /\ UNCHANGED <<account, access>>

RevokeKeyWrite(r) ==
    /\ At(r, "revokeKey")
    /\ key' = [key EXCEPT ![req[r].k].live = FALSE]
    /\ Done(r)
    /\ UNCHANGED <<account, holds, grants, cache, stored>>

AuthenticateWithApiKey(r, k) ==
    /\ Exists(key[k]) /\ key[k].live /\ user[key[k].of].active     \* else 401
    /\ MayStart(r, {key[k].of} \cup Roles)
    /\ Goto(r, [pc |-> "identify", u |-> key[k].of, k |-> k])
    /\ UNCHANGED <<account, access>>

\* getPrimaryRoleName picks any of the rows, and the role is what requirePermission
\* asks for.
Identify(r) ==
    /\ At(r, "identify")
    /\ \/ holds[req[r].u] = {} /\ Done(r)
       \/ \E o \in holds[req[r].u] :
            IF cache[o] = NoRow THEN Goto(r, [pc |-> "load", o |-> o]) ELSE Done(r)
    /\ UNCHANGED <<account, access>>

\* deleteFaculty (Registry).
Deactivate(u) ==
    /\ In("password") /\ user[u].active
    /\ user' = [user EXCEPT ![u].active = FALSE]
    /\ UNCHANGED <<session, reset, code, guesses, proved, access, req>>

-----------------------------------------------------------------------------
Begin(r) ==
    \/ \E u \in Users :
         \/ LoginWrong(r, u) \/ ChangePassword(r, u) \/ RequestPasswordReset(r, u)
         \/ \E f \in {"NONE", "TOTP"} \cup Secrets : LoginRight(r, u, f)
         \/ \E t \in Sessions : RevokeSession(r, u, t)
         \/ \E s \in Secrets : SetupMfa(r, u, s)
         \/ EnableMfa(r, u) \/ DisableMfa(r, u)
         \/ \E o \in Roles : AssignRole(r, u, o)
         \/ \E k \in Keys : CreateApiKey(r, u, k)
    \/ \E t \in Sessions : Refresh(r, t) \/ Logout(r, t)
    \/ \E k \in Resets : ResetPassword(r, k)
    \/ \E k \in Keys : RevokeApiKey(r, k) \/ AuthenticateWithApiKey(r, k)
    \/ \E o \in Roles : SeedRole(r, o) \/ RequirePermission(r, o)

Continue(r) ==
    \/ RecordFailure(r) \/ FindCode(r) \/ UseCode(r) \/ Resolve(r) \/ ClearFailures(r) \/ Rotate(r)
    \/ \E t \in Sessions : IssueTokenPair(r, t)
    \/ RevokeWrite(r) \/ CompareCurrent(r) \/ PasswordWrite(r) \/ SpendReset(r) \/ RevokeAll(r)
    \/ \E k \in Resets : InsertReset(r, k)
    \/ SecretWrite(r) \/ DropCodes(r) \/ AddCodes(r) \/ EnableWrite(r) \/ DisableWrite(r)
    \/ Unassign(r) \/ Assign(r) \/ ClearPermissionCache(r) \/ GrantPermissions(r)
    \/ LoadPermissions(r) \/ StorePermissions(r) \/ RevokeKeyWrite(r) \/ Identify(r)

Next ==
    /\ \/ \E r \in Reqs : Begin(r) \/ Continue(r) \/ Die(r)
       \/ \E u \in Users : LockExpires(u) \/ Deactivate(u)
       \/ \E t \in Sessions : SessionExpires(t)
       \/ \E o \in Roles : EntryExpires(o) \/ \E p \in Perms : RevokeGrant(o, p)
    /\ UNCHANGED mode

Spec == Init /\ [][Next]_vars

-----------------------------------------------------------------------------
\* Properties.

Served(u)  == \E r \in Reqs : u \in Touches(r)
Calm       == ~MayOverlap /\ ~Faults

\* As long as requests take turns and none dies, no session outlives the password
\* it was opened with, however often it was refreshed: a change or a reset logs the
\* account out everywhere.
SessionsKnowPassword ==
    Calm =>
      \A t \in Sessions :
        Live(t) /\ ~Served(session[t].of) => session[t].password = user[session[t].of].password

\* As long as requests take turns, what is good for one use is used once: a refresh
\* token, a recovery code and, if no request dies, a reset token.
OneUse ==
    ~MayOverlap =>
      /\ \A t, v \in {x \in Sessions : Exists(session[x])} : t # v =>
           /\ session[t].from = session[v].from => session[t].from = "NONE"
           /\ session[t].factor = session[v].factor /\ session[t].factor \in Secrets =>
                {session[t].from, session[v].from} # {"NONE"}
      /\ Calm => \A k \in Resets : Exists(reset[k]) => reset[k].uses <= 1

\* As long as requests take turns and none dies, MAX_FAILED_ATTEMPTS wrong passwords
\* in a row at login lock the user, and no login compares a password while the lock
\* stands.  This is about login alone: changePassword compares the current password
\* whether the user is locked or not, and counts no failure.
LockoutHolds ==
    Calm =>
      \A u \in Users :
        /\ guesses[u] <= MaxFailures
        /\ ~Served(u) => guesses[u] = user[u].failures
        /\ user[u].locked => guesses[u] = 0

\* As long as requests take turns, nobody is asked for codes of a secret that was
\* never seen to work, and if no request dies the codes that can be used are those
\* drawn with the secret in use.
SecondFactorWorks ==
    ~MayOverlap =>
      \A u \in Users :
        /\ user[u].mfa => user[u].secret \in proved
        /\ Calm /\ ~Served(u) => \A s \in Secrets : Usable(s, u) <=> user[u].secret = s /\ code[s].state = "unused"

\* As long as requests take turns, a session is opened by the
\* password of that moment and, with MFA on, a second factor; or it replaces one,
\* which ends.
SessionsEarned ==
    [][~MayOverlap =>
         \A t \in Sessions :
           Exists(session'[t]) /\ ~Exists(session[t]) =>
             LET s == session'[t]  u == user[s.of] IN
             IF s.from = "NONE"
             THEN s.password = u.password /\ (u.mfa <=> s.factor # "NONE") /\ ~u.locked
             ELSE ~Live(s.from) /\ s.factor = session[s.from].factor]_vars

\* As long as requests take turns, a cached entry is what the database granted the
\* role at some moment since the entry before it expired or was cleared; and if no
\* request dies, every user has exactly one role.
AccessIsCurrent ==
    /\ ~MayOverlap => \A o \in Roles : Exists(cache[o]) => cache[o].found \in stored[o]
    /\ Calm => \A u \in Users : ~Served(u) => Cardinality(holds[u]) = 1

\* Sessions end with the password they were opened with, tokens and codes are used
\* once, and the second factor asked for is one that works.
CredentialsSound == TypeOK /\ SessionsKnowPassword /\ OneUse /\ SecondFactorWorks

=============================================================================
