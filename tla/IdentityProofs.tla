---------------------------- MODULE IdentityProofs ----------------------------
(***************************************************************************)
(* Proofs about Identity, for any sets of users, sessions, tokens, keys,   *)
(* roles and permissions, any catalogue, any limit of failures, and        *)
(* requests of all areas at once.                                          *)
(***************************************************************************)
EXTENDS Identity, FiniteSetTheorems, TLAPS

OfRoles == {"unassign", "assign", "identify"}
OfRole  == {"load", "store", "grant"}
OfReset == {"password", "spend", "revokeAll"}
Setup   == {"secret", "dropCodes", "addCodes"}

\* What request x locks while requests take turns.
Locks(x) ==
    CASE x.pc \in OfLogin -> {x.in.u}
      [] x.pc \in OfRoles -> {x.u} \cup Roles
      [] x.pc \in OfUser -> {x.u}
      [] x.pc = "revoke" -> {session[x.t].of}
      [] x.pc \in OfRole -> {x.o}
      [] x.pc = "clear" -> Roles
      [] x.pc = "revokeKey" -> {key[x.k].of}
      [] OTHER -> {}

-----------------------------------------------------------------------------
\* The invariants.

\* Request x relies on rows that stay and keep their owner; a secret being set up is
\* nobody else's.
Knows(x) ==
    /\ x.pc \in OfLogin /\ x.in.from # "NONE" =>
         /\ Exists(session[x.in.from])
         /\ session[x.in.from].of = x.in.u
         /\ session[x.in.from].factor = x.in.factor
    /\ x.pc \in {"findCode", "useCode"} => x.in.factor \in Secrets /\ x.in.from = "NONE"
    /\ x.pc = "useCode" => Exists(code[x.in.factor]) /\ code[x.in.factor].of = x.in.u
    /\ x.pc = "rotate" => x.in.from # "NONE"
    /\ x.pc = "revoke" => Exists(session[x.t])
    /\ x.pc = "revokeKey" => Exists(key[x.k])
    /\ x.pc \in OfReset /\ x.k # "NONE" => Exists(reset[x.k]) /\ reset[x.k].of = x.u
    /\ x.pc = "spend" => x.k # "NONE"
    /\ x.pc = "secret" => code[x.s] = NoRow /\ \A v \in Users : user[v].secret # x.s
    /\ x.pc \in {"dropCodes", "addCodes"} /\ x.s # "NONE" =>
         code[x.s] = NoRow /\ \A v \in Users \ {x.u} : user[v].secret # x.s

SetupsApart ==
    \A q, r \in Reqs :
      q # r /\ req[q].pc \in Setup /\ req[r].pc \in Setup /\ req[q].s = req[r].s => req[q].s = "NONE"

\* However requests overlap and die.
Inv ==
    /\ mode \in Modes
    /\ TypeOK
    /\ \A q \in Reqs : Knows(req[q])
    /\ SetupsApart
    /\ \A t \in Sessions : Exists(session[t]) /\ session[t].from # "NONE" => Exists(session[session[t].from])
    /\ \A o \in Roles : grants[o] \in stored[o]

Turns == \A q, r \in Reqs : q # r => Locks(req[q]) \cap Locks(req[r]) = {}

\* Failures are counted (as long as requests take turns and none dies).
Counted(u) == guesses[u] = user[u].failures /\ (user[u].locked => guesses[u] = 0)
Failing(x, u) == x.pc = "fail" /\ x.u = u

LockInv ==
    /\ \A u \in Users : Counted(u) \/ \E r \in Reqs : Failing(req[r], u)
    /\ \A r \in Reqs : req[r].pc = "fail" =>
         /\ guesses[req[r].u] = req[r].n
         /\ req[r].n = user[req[r].u].failures + 1
         /\ ~user[req[r].u].locked

\* Sessions and logins go back to the present password (turns, no deaths).
Ending(x, u) == x.pc \in {"spend", "revokeAll"} /\ x.u = u

PasswordInv ==
    /\ \A t \in Sessions : Live(t) =>
         \/ session[t].password = user[session[t].of].password
         \/ \E r \in Reqs : Ending(req[r], session[t].of)
    /\ \A r \in Reqs : req[r].pc \in OfLogin => req[r].in.password = user[req[r].in.u].password

\* Reset tokens (turns, no deaths).
Spending(x, k) == x.pc = "spend" /\ x.k = k

ResetInv ==
    /\ \A k \in Resets : Exists(reset[k]) =>
         /\ reset[k].uses <= 1
         /\ reset[k].open => reset[k].uses = 0 \/ \E r \in Reqs : Spending(req[r], k)
    /\ \A r \in Reqs : req[r].pc = "password" /\ req[r].k # "NONE" => reset[req[r].k].uses = 0

\* Refresh tokens and recovery codes are used once (turns).
Stored == {t \in Sessions : Exists(session[t])}
Opened == {t \in Stored : session[t].from = "NONE"}

\* Request x is still to store its token.
Seeking(x) == x.pc \in OfLogin /\ (x.pc = "open" => "insert" \in x.todo)

Refreshing(x) ==
    /\ \A t \in Stored : session[t].from # x.in.from
    /\ x.pc = "open" => ~session[x.in.from].live

Earned(x) ==
    /\ x.in.password = user[x.in.u].password
    /\ user[x.in.u].mfa <=> x.in.factor # "NONE"
    /\ ~user[x.in.u].locked
    /\ x.in.factor \in Secrets /\ x.pc # "findCode" =>
         /\ \A t \in Opened : session[t].factor # x.in.factor
         /\ Exists(code[x.in.factor]) /\ code[x.in.factor].of = x.in.u
         /\ x.pc = "useCode" <=> code[x.in.factor].state = "unused"

Entitled(x) == IF x.in.from = "NONE" THEN Earned(x) ELSE Refreshing(x)

UseInv ==
    /\ \A t \in Stored : session[t].from # "NONE" => ~session[session[t].from].live
    /\ \A t, v \in Stored : session[t].from = session[v].from /\ session[t].from # "NONE" => t = v
    /\ \A t, v \in Opened : session[t].factor = session[v].factor /\ session[t].factor \in Secrets => t = v
    /\ \A t \in Opened : session[t].factor \in Secrets =>
         Exists(code[session[t].factor]) /\ code[session[t].factor].state # "unused"
    /\ \A r \in Reqs : Seeking(req[r]) => Entitled(req[r])

\* The second factor (turns).
FactorInv ==
    /\ \A u \in Users : user[u].mfa => user[u].secret \in proved
    /\ \A r \in Reqs : req[r].pc = "enable" => req[r].s = user[req[r].u].secret /\ req[r].s \in proved

\* Its recovery codes (turns, no deaths).
Dropping(x, u) == x.pc = "dropCodes" /\ x.u = u
Drawing(x, u)  == x.pc \in {"dropCodes", "addCodes"} /\ x.u = u

CodesInv ==
    /\ \A u \in Users, s \in Secrets : Usable(s, u) =>
         user[u].secret = s \/ \E r \in Reqs : Dropping(req[r], u)
    /\ \A u \in Users : user[u].secret # "NONE" =>
         \/ Exists(code[user[u].secret]) /\ code[user[u].secret].of = u
         \/ \E r \in Reqs : Drawing(req[r], u)
    /\ \A r \in Reqs : req[r].pc \in {"dropCodes", "addCodes"} => user[req[r].u].secret = req[r].s

\* The permission cache (turns).
CacheInv ==
    /\ \A o \in Roles : Exists(cache[o]) => cache[o].found \in stored[o]
    /\ \A r \in Reqs : req[r].pc \in {"load", "store"} => cache[req[r].o] = NoRow
    /\ \A r \in Reqs : req[r].pc = "store" => req[r].found \in stored[req[r].o]

\* Roles (turns, no deaths).
Assigning(x, u) == x.pc = "assign" /\ x.u = u

RoleInv ==
    /\ \A u \in Users : (\E o \in Roles : holds[u] = {o}) \/ \E r \in Reqs : Assigning(req[r], u)
    /\ \A r \in Reqs : req[r].pc = "assign" => holds[req[r].u] = {}

SerialInv ==
    /\ Inv
    /\ ~MayOverlap => Turns /\ UseInv /\ FactorInv /\ CacheInv
    /\ Calm => LockInv /\ PasswordInv /\ ResetInv /\ CodesInv /\ RoleInv

-----------------------------------------------------------------------------
\* Rows and requests.

LEMMA ModeSame ==
  ASSUME UNCHANGED mode
  PROVE  MayOverlap' = MayOverlap /\ Faults' = Faults /\ Calm' = Calm
BY DEF MayOverlap, Faults, Calm

LEMMA Limits ==
  /\ MaxFailures \in Nat /\ MaxFailures >= 1 /\ MaxPassword \in Nat
  /\ "NONE" \notin Secrets /\ "TOTP" \notin Secrets /\ "NONE" \notin Sessions /\ "NONE" \notin Resets
<1>1. MaxFailures \in Nat \ {0} /\ MaxPassword \in Nat
  BY IdentityAssumption
<1>2. "NONE" \notin Secrets /\ "TOTP" \notin Secrets /\ "NONE" \notin Sessions /\ "NONE" \notin Resets
  BY IdentityAssumption
<1>3. QED BY <1>1, <1>2

LEMMA RowKinds ==
  /\ \A x \in SessionRow : x # NoRow
  /\ \A x \in ResetRow : x # NoRow
  /\ \A x \in [of : Users, state : {"unused", "used", "deleted"}] : x # NoRow
  /\ \A x \in [found : SUBSET Perms] : x # NoRow
  /\ \A x \in [of : Users, live : BOOLEAN] : x # NoRow
BY DEF NoRow, SessionRow, ResetRow

LEMMA Rows ==
  ASSUME TypeOK
  PROVE  /\ \A u \in Users : user[u] \in UserRow
         /\ \A t \in Sessions : Exists(session[t]) => session[t] \in SessionRow
         /\ \A k \in Resets : Exists(reset[k]) => reset[k] \in ResetRow
         /\ \A s \in Secrets : Exists(code[s]) => code[s] \in [of : Users, state : {"unused", "used", "deleted"}]
         /\ \A k \in Keys : Exists(key[k]) => key[k] \in [of : Users, live : BOOLEAN]
BY DEF TypeOK, Exists

Pcs == {"idle", "fail", "findCode", "useCode", "resolve", "rotate", "open", "revoke", "password", "spend",
        "revokeAll", "compare", "ask", "disable", "secret", "addCodes", "enable", "dropCodes", "unassign", "assign",
        "clear", "load", "store", "revokeKey", "identify", "grant"}

LEMMA RequestShape ==
  ASSUME NEW x \in Request
  PROVE  /\ x.pc \in Pcs
         /\ x.pc = "fail" => x.u \in Users /\ x.n \in 1..MaxFailures
         /\ x.pc \in OfLogin => x.in \in Login
         /\ x.pc = "open" => x.todo \in SUBSET {"clear", "insert"}
         /\ x.pc = "revoke" => x.t \in Sessions
         /\ x.pc \in OfReset => x.u \in Users /\ x.k \in Resets \cup {"NONE"}
         /\ x.pc \in {"compare", "ask", "disable"} => x.u \in Users
         /\ x.pc \in {"secret", "addCodes", "enable"} => x.u \in Users /\ x.s \in Secrets
         /\ x.pc = "dropCodes" => x.u \in Users /\ x.s \in Secrets \cup {"NONE"}
         /\ x.pc \in {"unassign", "assign"} => x.u \in Users /\ x.o \in Roles
         /\ x.pc \in OfRole => x.o \in Roles
         /\ x.pc = "store" => x.found \in SUBSET Perms
         /\ x.pc = "revokeKey" => x.k \in Keys
         /\ x.pc = "identify" => x.u \in Users /\ x.k \in Keys
BY DEF Request, Idle, Pcs, OfLogin, OfReset, OfRole

LEMMA LoginShape ==
  ASSUME NEW y \in Login
  PROVE  /\ y.u \in Users /\ y.password \in 0..MaxPassword
         /\ y.factor \in {"NONE", "TOTP"} \cup Secrets /\ y.from \in Sessions \cup {"NONE"}
BY DEF Login

LEMMA LoginRequest ==
  ASSUME NEW y \in Login
  PROVE  /\ \A pc \in {"findCode", "useCode", "resolve", "rotate"} : [pc |-> pc, in |-> y] \in Request
         /\ \A todo \in (SUBSET {"clear", "insert"}) \ {{}} : [pc |-> "open", in |-> y, todo |-> todo] \in Request
<1>1. ASSUME NEW pc \in {"findCode", "useCode", "resolve", "rotate"} PROVE [pc |-> pc, in |-> y] \in Request
  BY DEF Request
<1>2. ASSUME NEW todo \in (SUBSET {"clear", "insert"}) \ {{}} PROVE [pc |-> "open", in |-> y, todo |-> todo] \in Request
  <2>1. [pc |-> "open", in |-> y, todo |-> todo] \in [pc : {"open"}, in : Login, todo : (SUBSET {"clear", "insert"}) \ {{}}]
    OBVIOUS
  <2>2. QED BY <2>1 DEF Request
<1>3. QED BY <1>1, <1>2

LEMMA Parts ==
  ASSUME NEW todo, todo \subseteq {"clear", "insert"}, todo # {}
  PROVE  todo \in (SUBSET {"clear", "insert"}) \ {{}}
<1>1. todo \in SUBSET {"clear", "insert"}
  OBVIOUS
<1>2. todo \notin {{}}
  OBVIOUS
<1>3. QED BY <1>1, <1>2

LEMMA RequestStep ==
  ASSUME TypeOK, NEW r \in Reqs, NEW x, Goto(r, x)
  PROVE  req'[r] = x /\ \A q \in Reqs \ {r} : req'[q] = req[q]
BY DEF TypeOK, Goto

-----------------------------------------------------------------------------
\* What each query writes.

LEMMA LoginWrongEffect ==
  ASSUME Inv, NEW r \in Reqs, NEW u \in Users, LoginWrong(r, u)
  PROVE  \E x \in Request, g \in 0..(MaxFailures + 1) :
           /\ Goto(r, x) /\ x.pc = "fail" /\ x.u = u /\ x.n = user[u].failures + 1
           /\ guesses' = [guesses EXCEPT ![u] = g]
           /\ guesses[u] <= MaxFailures => g = guesses[u] + 1
<1>1. user[u] \in UserRow /\ guesses[u] \in 0..(MaxFailures + 1)
  BY DEF Inv, TypeOK
<1>2. PICK n \in 1..MaxFailures : n = user[u].failures + 1
  BY <1>1, Limits DEF UserRow
<1>3. PICK x : x = [pc |-> "fail", u |-> u, n |-> n]
  OBVIOUS
<1>4. x \in Request
  BY <1>3 DEF Request
<1>5. Goto(r, x)
  BY <1>2, <1>3 DEF LoginWrong
<1>6. PICK g : g = IF guesses[u] > MaxFailures THEN guesses[u] ELSE guesses[u] + 1
  OBVIOUS
<1>7. g \in 0..(MaxFailures + 1) /\ (guesses[u] <= MaxFailures => g = guesses[u] + 1)
  BY <1>1, <1>6, Limits
<1>8. guesses' = [guesses EXCEPT ![u] = g]
  BY <1>6 DEF LoginWrong, Guess, Inv, TypeOK
<1>9. QED BY <1>2, <1>3, <1>4, <1>5, <1>7, <1>8

FailureRecorded(r, u, n, row, g) ==
    /\ req[r].pc = "fail" /\ req[r].u = u /\ req[r].n = n
    /\ user' = [user EXCEPT ![u] = row]
    /\ row.password = user[u].password /\ row.mfa = user[u].mfa /\ row.secret = user[u].secret
    /\ row.failures = IF n >= MaxFailures THEN 0 ELSE n
    /\ row.locked <=> n >= MaxFailures
    /\ guesses' = [guesses EXCEPT ![u] = g]
    /\ g = IF n >= MaxFailures THEN 0 ELSE guesses[u]

LEMMA RecordFailureEffect ==
  ASSUME Inv, NEW r \in Reqs, RecordFailure(r)
  PROVE  \E u \in Users, n \in 1..MaxFailures, row \in UserRow, g \in 0..(MaxFailures + 1) : FailureRecorded(r, u, n, row, g)
<1>1. PICK y \in Request : y = req[r]
  BY DEF Inv, TypeOK
<1>2. y.pc = "fail" /\ y.u \in Users /\ y.n \in 1..MaxFailures
  BY <1>1, RequestShape DEF RecordFailure, At
<1>3. PICK u \in Users, n \in 1..MaxFailures : u = y.u /\ n = y.n
  BY <1>2
<1>4. PICK old \in UserRow : old = user[u]
  BY DEF Inv, TypeOK
<1>5. PICK f \in 0..(MaxFailures - 1) : f = IF n >= MaxFailures THEN 0 ELSE n
  BY Limits
<1>6. PICK lock \in BOOLEAN : lock <=> n >= MaxFailures
  OBVIOUS
<1>7. PICK row : row = [old EXCEPT !.failures = f, !.locked = lock]
  OBVIOUS
<1>71. /\ row \in UserRow
       /\ row.password = old.password /\ row.mfa = old.mfa /\ row.secret = old.secret
       /\ row.failures = f /\ row.locked = lock
  BY <1>7 DEF UserRow
<1>8. user' = [user EXCEPT ![u] = row]
  <2>1. user' = [user EXCEPT ![u].failures = f, ![u].locked = LockingNow(n)]
    BY <1>1, <1>3, <1>5 DEF RecordFailure, LockingNow
  <2>2. LockingNow(n) = lock
    BY <1>6 DEF LockingNow
  <2>3. user' = [user EXCEPT ![u].failures = f, ![u].locked = lock]
    BY <2>1, <2>2
  <2>4. QED BY <1>4, <1>7, <2>3 DEF Inv, TypeOK
<1>9. PICK g \in 0..(MaxFailures + 1) : g = IF n >= MaxFailures THEN 0 ELSE guesses[u]
  BY Limits DEF Inv, TypeOK
<1>10. guesses' = [guesses EXCEPT ![u] = g]
  BY <1>1, <1>3, <1>9 DEF RecordFailure, LockingNow, Inv, TypeOK
<1>11. QED BY <1>1, <1>2, <1>3, <1>4, <1>5, <1>6, <1>71, <1>8, <1>9, <1>10 DEF FailureRecorded

\* The request goes on as x, or ends, after one part of "open".
LEMMA FinishEffect ==
  ASSUME Inv, NEW r \in Reqs, NEW part \in {"clear", "insert"},
         At(r, "open"), part \in req[r].todo, Finish(r, part)
  PROVE  \E x \in Request : /\ Goto(r, x)
                            /\ x = Idle \/ (x.pc = "open" /\ x.in = req[r].in /\ x.todo = req[r].todo \ {part})
<1>1. PICK y \in Request : y = req[r]
  BY DEF Inv, TypeOK
<1>2. y.pc = "open" /\ y.in \in Login /\ y.todo \in SUBSET {"clear", "insert"} /\ y = [pc |-> "open", in |-> y.in, todo |-> y.todo]
  BY <1>1 DEF At, Request, Idle
<1>3. CASE y.todo = {part}
  <2>1. Goto(r, Idle) /\ Idle \in Request
    BY <1>1, <1>3 DEF Finish, Done, Request
  <2>2. QED BY <2>1
<1>4. CASE y.todo # {part}
  <2>1. PICK x : x = [pc |-> "open", in |-> y.in, todo |-> y.todo \ {part}]
    OBVIOUS
  <2>2. y.todo \ {part} \in (SUBSET {"clear", "insert"}) \ {{}}
    <3>1. PICK rest : rest = y.todo \ {part}
      OBVIOUS
    <3>2. rest # {}
      BY <1>1, <1>4, <3>1
    <3>3. rest \subseteq {"clear", "insert"}
      BY <1>2, <3>1
    <3>4. QED BY <3>1, <3>2, <3>3, Parts
  <2>3. x \in Request
    BY <1>2, <2>1, <2>2, LoginRequest
  <2>4. x = [y EXCEPT !.todo = @ \ {part}]
    BY <1>2, <2>1
  <2>5. Goto(r, x)
    BY <1>1, <1>4, <2>4 DEF Finish
  <2>6. QED BY <1>1, <2>1, <2>3, <2>5
<1>5. QED BY <1>3, <1>4

FailuresCleared(r, u, row, x) ==
    /\ req[r].pc = "open" /\ req[r].in.u = u /\ "clear" \in req[r].todo
    /\ user' = [user EXCEPT ![u] = row]
    /\ row.password = user[u].password /\ row.mfa = user[u].mfa /\ row.secret = user[u].secret
    /\ row.failures = 0 /\ row.locked = FALSE
    /\ guesses' = [guesses EXCEPT ![u] = 0]
    /\ Goto(r, x)
    /\ x = Idle \/ (x.pc = "open" /\ x.in = req[r].in /\ x.todo = req[r].todo \ {"clear"})

LEMMA ClearFailuresEffect ==
  ASSUME Inv, NEW r \in Reqs, ClearFailures(r)
  PROVE  \E u \in Users, row \in UserRow, x \in Request : FailuresCleared(r, u, row, x)
<1>1. PICK y \in Request : y = req[r]
  BY DEF Inv, TypeOK
<1>2. y.pc = "open" /\ y.in \in Login /\ "clear" \in y.todo
  BY <1>1, RequestShape DEF ClearFailures, At, OfLogin
<1>3. PICK u \in Users : u = y.in.u
  BY <1>2, LoginShape
<1>4. PICK old \in UserRow : old = user[u]
  BY DEF Inv, TypeOK
<1>5. PICK row : row = [old EXCEPT !.failures = 0, !.locked = FALSE]
  OBVIOUS
<1>6. 0 \in 0..(MaxFailures - 1)
  BY Limits
<1>7. /\ row \in UserRow
      /\ row.password = old.password /\ row.mfa = old.mfa /\ row.secret = old.secret
      /\ row.failures = 0 /\ row.locked = FALSE
  BY <1>5, <1>6 DEF UserRow
<1>8. user' = [user EXCEPT ![u] = row] /\ guesses' = [guesses EXCEPT ![u] = 0]
  BY <1>1, <1>3, <1>4, <1>5 DEF ClearFailures, Inv, TypeOK
<1>9. PICK x \in Request : Goto(r, x) /\ (x = Idle \/ (x.pc = "open" /\ x.in = req[r].in /\ x.todo = req[r].todo \ {"clear"}))
  BY FinishEffect DEF ClearFailures
<1>10. req[r].pc = "open" /\ req[r].in.u = u /\ "clear" \in req[r].todo
  BY <1>1, <1>2, <1>3
<1>11. FailuresCleared(r, u, row, x)
  BY <1>4, <1>7, <1>8, <1>9, <1>10 DEF FailuresCleared
<1>12. QED BY <1>7, <1>9, <1>11

PasswordWritten(r, u, k, row, x) ==
    /\ req[r].pc = "password" /\ req[r].u = u /\ req[r].k = k
    /\ user' = [user EXCEPT ![u] = row]
    /\ row.mfa = user[u].mfa /\ row.secret = user[u].secret
    /\ k = "NONE" => row.failures = user[u].failures /\ row.locked = user[u].locked /\ UNCHANGED <<guesses, reset>>
    /\ k # "NONE" => /\ row.failures = 0 /\ row.locked = FALSE
                     /\ guesses' = [guesses EXCEPT ![u] = 0]
                     /\ \E token \in ResetRow :
                          /\ reset' = [reset EXCEPT ![k] = token]
                          /\ token.of = reset[k].of /\ token.open = reset[k].open
                          /\ reset[k].uses = 0 => token.uses = 1
    /\ Goto(r, x) /\ x.u = u /\ x.k = k /\ x.pc = IF k = "NONE" THEN "revokeAll" ELSE "spend"

LEMMA PasswordWriteEffect ==
  ASSUME Inv, NEW r \in Reqs, PasswordWrite(r)
  PROVE  \E u \in Users, k \in Resets \cup {"NONE"}, row \in UserRow, x \in Request : PasswordWritten(r, u, k, row, x)
<1>1. PICK y \in Request : y = req[r] /\ Knows(y)
  BY DEF Inv, TypeOK
<1>2. /\ y.pc = "password" /\ y.u \in Users /\ y.k \in Resets \cup {"NONE"}
      /\ y = [pc |-> "password", u |-> y.u, k |-> y.k]
  BY <1>1 DEF PasswordWrite, At, Request, Idle
<1>3. PICK u \in Users, k \in Resets \cup {"NONE"} : u = y.u /\ k = y.k
  BY <1>2
<1>4. PICK old \in UserRow : old = user[u]
  BY DEF Inv, TypeOK
<1>5. PICK p \in 0..MaxPassword : p = IF old.password < MaxPassword THEN old.password + 1 ELSE old.password
  BY <1>4, Limits DEF UserRow
<1>6. PICK row : row = [old EXCEPT !.password = p, !.failures = IF k = "NONE" THEN old.failures ELSE 0,
                                   !.locked = old.locked /\ k = "NONE"]
  OBVIOUS
<1>7. 0 \in 0..(MaxFailures - 1)
  BY Limits
<1>8. /\ row \in UserRow /\ row.mfa = old.mfa /\ row.secret = old.secret
      /\ k = "NONE" => row.failures = old.failures /\ row.locked = old.locked
      /\ k # "NONE" => row.failures = 0 /\ row.locked = FALSE
  BY <1>4, <1>5, <1>6, <1>7 DEF UserRow
<1>9. user' = [user EXCEPT ![u] = row]
  BY <1>1, <1>3, <1>4, <1>5, <1>6 DEF PasswordWrite, Inv, TypeOK
<1>10. k = "NONE" => UNCHANGED <<guesses, reset>>
  BY <1>1, <1>3 DEF PasswordWrite, Inv, TypeOK
<1>11. k # "NONE" => guesses' = [guesses EXCEPT ![u] = 0]
  BY <1>1, <1>3 DEF PasswordWrite
<1>12. ASSUME k # "NONE"
       PROVE  \E token \in ResetRow : /\ reset' = [reset EXCEPT ![k] = token]
                                      /\ token.of = reset[k].of /\ token.open = reset[k].open
                                      /\ reset[k].uses = 0 => token.uses = 1
  <2>1. k \in Resets /\ Exists(reset[k])
    BY <1>1, <1>2, <1>3, <1>12 DEF Knows, OfReset
  <2>2. PICK held \in ResetRow : held = reset[k]
    BY <2>1, Rows DEF Inv
  <2>3. PICK token : token = [held EXCEPT !.uses = IF held.uses = 2 THEN 2 ELSE held.uses + 1]
    OBVIOUS
  <2>4. /\ token \in ResetRow /\ token.of = held.of /\ token.open = held.open
        /\ held.uses = 0 => token.uses = 1
    BY <2>3 DEF ResetRow
  <2>5. reset' = [reset EXCEPT ![k] = token]
    BY <1>1, <1>3, <1>12, <2>1, <2>2, <2>3 DEF PasswordWrite, Inv, TypeOK
  <2>6. QED BY <2>2, <2>4, <2>5
<1>13. PICK x : x = [pc |-> IF k = "NONE" THEN "revokeAll" ELSE "spend", u |-> u, k |-> k]
  OBVIOUS
<1>14. x \in Request
  BY <1>13 DEF Request
<1>15. x = [y EXCEPT !.pc = IF k = "NONE" THEN "revokeAll" ELSE "spend"]
  BY <1>2, <1>3, <1>13
<1>16. Goto(r, x)
  BY <1>1, <1>3, <1>15 DEF PasswordWrite
<1>17. Goto(r, x) /\ x.u = u /\ x.k = k /\ x.pc = IF k = "NONE" THEN "revokeAll" ELSE "spend"
  BY <1>13, <1>16
<1>18. req[r].pc = "password" /\ req[r].u = u /\ req[r].k = k
  BY <1>1, <1>2, <1>3
<1>19. QED BY <1>4, <1>8, <1>9, <1>10, <1>11, <1>12, <1>14, <1>17, <1>18 DEF PasswordWritten

\* Writes of the user row by the second factor.
FactorWritten(r, u, s, row, x) ==
    /\ req[r].u = u
    /\ user' = [user EXCEPT ![u] = row]
    /\ row.password = user[u].password /\ row.failures = user[u].failures /\ row.locked = user[u].locked
    /\ Goto(r, x)
    /\ \/ /\ req[r].pc = "secret" /\ req[r].s = s /\ s \in Secrets
          /\ row.secret = s /\ row.mfa = FALSE
          /\ x.pc = "dropCodes" /\ x.u = u /\ x.s = s
       \/ /\ req[r].pc = "enable"
          /\ row.secret = user[u].secret /\ row.mfa = TRUE
          /\ x = Idle
       \/ /\ req[r].pc = "disable"
          /\ row.secret = "NONE" /\ row.mfa = FALSE
          /\ x.pc = "dropCodes" /\ x.u = u /\ x.s = "NONE"

LEMMA FactorWriteEffect ==
  ASSUME Inv, NEW r \in Reqs, SecretWrite(r) \/ EnableWrite(r) \/ DisableWrite(r)
  PROVE  \E u \in Users, s \in Secrets \cup {"NONE"}, row \in UserRow, x \in Request : FactorWritten(r, u, s, row, x)
<1>1. PICK y \in Request : y = req[r]
  BY DEF Inv, TypeOK
<1>2. y.pc \in {"secret", "enable", "disable"} /\ y.u \in Users
  BY <1>1, RequestShape DEF SecretWrite, EnableWrite, DisableWrite, At
<1>3. PICK u \in Users : u = y.u
  BY <1>2
<1>4. PICK old \in UserRow : old = user[u]
  BY DEF Inv, TypeOK
<1>5. CASE SecretWrite(r)
  <2>1. PICK s \in Secrets : s = y.s /\ y.pc = "secret"
    BY <1>1, <1>5, RequestShape DEF SecretWrite, At
  <2>2. PICK row : row = [old EXCEPT !.secret = s, !.mfa = FALSE]
    OBVIOUS
  <2>3. /\ row \in UserRow /\ row.secret = s /\ row.mfa = FALSE
        /\ row.password = old.password /\ row.failures = old.failures /\ row.locked = old.locked
    BY <2>2 DEF UserRow
  <2>4. PICK x : x = [pc |-> "dropCodes", u |-> u, s |-> s]
    OBVIOUS
  <2>5. x \in Request
    BY <2>4 DEF Request
  <2>6. user' = [user EXCEPT ![u] = row] /\ Goto(r, x)
    BY <1>1, <1>3, <1>4, <1>5, <2>1, <2>2, <2>4 DEF SecretWrite, NewSecret, Inv, TypeOK
  <2>7. x.pc = "dropCodes" /\ x.u = u /\ x.s = s
    BY <2>4
  <2>8. QED BY <1>1, <1>3, <1>4, <2>1, <2>3, <2>5, <2>6, <2>7 DEF FactorWritten
<1>6. CASE EnableWrite(r)
  <2>1. PICK row : row = [old EXCEPT !.mfa = TRUE]
    OBVIOUS
  <2>2. /\ row \in UserRow /\ row.secret = old.secret /\ row.mfa = TRUE
        /\ row.password = old.password /\ row.failures = old.failures /\ row.locked = old.locked
    BY <2>1 DEF UserRow
  <2>3. user' = [user EXCEPT ![u] = row] /\ Goto(r, Idle) /\ Idle \in Request
    BY <1>1, <1>3, <1>4, <1>6, <2>1 DEF EnableWrite, Done, Inv, TypeOK, Request
  <2>4. y.pc = "enable"
    BY <1>1, <1>6 DEF EnableWrite, At
  <2>5. QED BY <1>1, <1>3, <1>4, <2>2, <2>3, <2>4 DEF FactorWritten
<1>7. CASE DisableWrite(r)
  <2>1. PICK row : row = [old EXCEPT !.mfa = FALSE, !.secret = "NONE"]
    OBVIOUS
  <2>2. /\ row \in UserRow /\ row.secret = "NONE" /\ row.mfa = FALSE
        /\ row.password = old.password /\ row.failures = old.failures /\ row.locked = old.locked
    BY <2>1 DEF UserRow
  <2>3. PICK x : x = [pc |-> "dropCodes", u |-> u, s |-> "NONE"]
    OBVIOUS
  <2>4. x \in Request
    BY <2>3 DEF Request
  <2>5. user' = [user EXCEPT ![u] = row] /\ Goto(r, x)
    BY <1>1, <1>3, <1>4, <1>7, <2>1, <2>3 DEF DisableWrite, Inv, TypeOK
  <2>6. x.pc = "dropCodes" /\ x.u = u /\ x.s = "NONE"
    BY <2>3
  <2>7. y.pc = "disable"
    BY <1>1, <1>7 DEF DisableWrite, At
  <2>8. QED BY <1>1, <1>3, <1>4, <2>2, <2>4, <2>5, <2>6, <2>7 DEF FactorWritten
<1>8. QED BY <1>5, <1>6, <1>7

\* A row of session that is stored, or ends.
Ends(t) ==
    \E row \in SessionRow :
      /\ session' = [session EXCEPT ![t] = row]
      /\ row.of = session[t].of /\ row.password = session[t].password
      /\ row.factor = session[t].factor /\ row.from = session[t].from /\ row.live = FALSE

LEMMA EndsEffect ==
  ASSUME Inv, NEW t \in Sessions, Exists(session[t]), session' = [session EXCEPT ![t].live = FALSE]
  PROVE  Ends(t)
<1>1. PICK old \in SessionRow : old = session[t]
  BY Rows DEF Inv
<1>2. PICK row : row = [old EXCEPT !.live = FALSE]
  OBVIOUS
<1>3. /\ row \in SessionRow /\ row.of = old.of /\ row.password = old.password
      /\ row.factor = old.factor /\ row.from = old.from /\ row.live = FALSE
  BY <1>2 DEF SessionRow
<1>4. session' = [session EXCEPT ![t] = row]
  BY <1>1, <1>2 DEF Inv, TypeOK
<1>5. QED BY <1>1, <1>3, <1>4 DEF Ends

TokenIssued(r, t, in, row, x) ==
    /\ req[r].pc = "open" /\ req[r].in = in /\ "insert" \in req[r].todo
    /\ session[t] = NoRow /\ session' = [session EXCEPT ![t] = row]
    /\ row.of = in.u /\ row.password = in.password /\ row.factor = in.factor /\ row.from = in.from
    /\ row.live = TRUE
    /\ Goto(r, x)
    /\ x = Idle \/ (x.pc = "open" /\ x.in = in /\ x.todo = req[r].todo \ {"insert"})

LEMMA IssueTokenPairEffect ==
  ASSUME Inv, NEW r \in Reqs, NEW t \in Sessions, IssueTokenPair(r, t)
  PROVE  \E in \in Login, row \in SessionRow, x \in Request : TokenIssued(r, t, in, row, x)
<1>1. PICK y \in Request : y = req[r]
  BY DEF Inv, TypeOK
<1>2. y.pc = "open" /\ "insert" \in y.todo
  BY <1>1 DEF IssueTokenPair, At
<1>3. PICK in \in Login : in = y.in
  BY <1>2, RequestShape DEF OfLogin
<1>4. PICK row : row = [of |-> in.u, live |-> TRUE, password |-> in.password, factor |-> in.factor, from |-> in.from]
  OBVIOUS
<1>5. row \in SessionRow
  BY <1>4, LoginShape DEF SessionRow
<1>6. session[t] = NoRow /\ session' = [session EXCEPT ![t] = row]
  BY <1>1, <1>3, <1>4 DEF IssueTokenPair
<1>7. PICK x \in Request : Goto(r, x) /\ (x = Idle \/ (x.pc = "open" /\ x.in = req[r].in /\ x.todo = req[r].todo \ {"insert"}))
  BY FinishEffect DEF IssueTokenPair
<1>8. QED BY <1>1, <1>2, <1>3, <1>4, <1>5, <1>6, <1>7 DEF TokenIssued

Rotated(r, x) ==
    /\ req[r].pc = "rotate" /\ req[r].in.from \in Sessions /\ Exists(session[req[r].in.from])
    /\ Ends(req[r].in.from)
    /\ Goto(r, x) /\ x.pc = "open" /\ x.in = req[r].in /\ x.todo = {"insert"}

LEMMA RotateEffect ==
  ASSUME Inv, NEW r \in Reqs, Rotate(r)
  PROVE  \E x \in Request : Rotated(r, x)
<1>1. PICK y \in Request : y = req[r] /\ Knows(y)
  BY DEF Inv, TypeOK
<1>2. y.pc = "rotate" /\ y.in \in Login
  BY <1>1, RequestShape DEF Rotate, At, OfLogin
<1>3. y.in.from \in Sessions /\ Exists(session[y.in.from])
  BY <1>1, <1>2, LoginShape DEF Knows, OfLogin
<1>4. Ends(y.in.from)
  BY <1>1, <1>3, EndsEffect DEF Rotate
<1>5. PICK x : x = [pc |-> "open", in |-> y.in, todo |-> {"insert"}]
  OBVIOUS
<1>6. x \in Request /\ Goto(r, x)
  <2>1. {"insert"} \in (SUBSET {"clear", "insert"}) \ {{}}
    BY Parts
  <2>2. QED BY <1>1, <1>2, <1>5, <2>1, LoginRequest DEF Rotate
<1>7. QED BY <1>1, <1>2, <1>3, <1>4, <1>5, <1>6 DEF Rotated

LEMMA RevokeWriteEffect ==
  ASSUME Inv, NEW r \in Reqs, RevokeWrite(r)
  PROVE  req[r].pc = "revoke" /\ req[r].t \in Sessions /\ Exists(session[req[r].t]) /\ Ends(req[r].t)
<1>1. PICK y \in Request : y = req[r] /\ Knows(y)
  BY DEF Inv, TypeOK
<1>2. y.pc = "revoke" /\ y.t \in Sessions /\ Exists(session[y.t])
  BY <1>1, RequestShape DEF RevokeWrite, At, Knows
<1>3. QED BY <1>1, <1>2, EndsEffect DEF RevokeWrite

\* Every stored row stays, and some end.
SomeEnd ==
    /\ session' \in [Sessions -> SessionRow \cup {NoRow}]
    /\ \A t \in Sessions :
         \/ session'[t] = session[t]
         \/ /\ Exists(session[t]) /\ Exists(session'[t])
            /\ session'[t].of = session[t].of /\ session'[t].password = session[t].password
            /\ session'[t].factor = session[t].factor /\ session'[t].from = session[t].from
            /\ session'[t].live = FALSE

LEMMA EndsSome ==
  ASSUME Inv, NEW t \in Sessions, Exists(session[t]), Ends(t)
  PROVE  SomeEnd
BY RowKinds DEF Inv, TypeOK, Ends, SomeEnd, Exists

LEMMA RevokeAllEffect ==
  ASSUME Inv, NEW r \in Reqs, RevokeAll(r)
  PROVE  /\ req[r].pc = "revokeAll" /\ req[r].u \in Users
         /\ SomeEnd
         /\ \A t \in Sessions : Exists(session'[t]) /\ session'[t].of = req[r].u => ~session'[t].live
<1>1. PICK y \in Request : y = req[r]
  BY DEF Inv, TypeOK
<1>2. y.pc = "revokeAll" /\ y.u \in Users
  BY <1>1, RequestShape DEF RevokeAll, At, OfReset
<1>3. /\ DOMAIN session' = Sessions
      /\ \A t \in Sessions : session'[t] = IF Live(t) /\ session[t].of = y.u THEN [session[t] EXCEPT !.live = FALSE] ELSE session[t]
  BY <1>1 DEF RevokeAll, EndsWith
<1>4. ASSUME NEW t \in Sessions
      PROVE  /\ session'[t] \in SessionRow \cup {NoRow}
             /\ \/ session'[t] = session[t]
                \/ /\ Exists(session[t]) /\ Exists(session'[t])
                   /\ session'[t].of = session[t].of /\ session'[t].password = session[t].password
                   /\ session'[t].factor = session[t].factor /\ session'[t].from = session[t].from
                   /\ session'[t].live = FALSE
             /\ Exists(session'[t]) /\ session'[t].of = y.u => ~session'[t].live
  <2>1. CASE Live(t) /\ session[t].of = y.u
    <3>1. PICK old \in SessionRow : old = session[t]
      BY <2>1, Rows DEF Inv, Live
    <3>2. PICK row : row = [old EXCEPT !.live = FALSE]
      OBVIOUS
    <3>3. /\ row \in SessionRow /\ row.of = old.of /\ row.password = old.password
          /\ row.factor = old.factor /\ row.from = old.from /\ row.live = FALSE
      BY <3>2 DEF SessionRow
    <3>4. session'[t] = row
      BY <1>3, <2>1, <3>1, <3>2
    <3>5. QED BY <2>1, <3>1, <3>3, <3>4, RowKinds DEF Exists, Live
  <2>2. CASE ~(Live(t) /\ session[t].of = y.u)
    <3>1. session'[t] = session[t]
      BY <1>3, <2>2
    <3>2. QED BY <2>2, <3>1 DEF Live, Inv, TypeOK
  <2>3. QED BY <2>1, <2>2
<1>5. session' \in [Sessions -> SessionRow \cup {NoRow}]
  <2>1. session' = [t \in Sessions |-> session'[t]]
    BY <1>1 DEF RevokeAll
  <2>2. QED BY <1>4, <2>1
<1>6. QED BY <1>1, <1>2, <1>4, <1>5 DEF SomeEnd

ResetStored(r, k, token) ==
    /\ req[r].pc = "ask" /\ req[r].u \in Users /\ reset[k] = NoRow
    /\ reset' = [reset EXCEPT ![k] = token]
    /\ token.of = req[r].u /\ token.open = TRUE /\ token.uses = 0

LEMMA InsertResetEffect ==
  ASSUME Inv, NEW r \in Reqs, NEW k \in Resets, InsertReset(r, k)
  PROVE  \E token \in ResetRow : ResetStored(r, k, token)
<1>1. PICK y \in Request : y = req[r]
  BY DEF Inv, TypeOK
<1>2. y.pc = "ask" /\ y.u \in Users
  BY <1>1, RequestShape DEF InsertReset, At
<1>3. PICK token : token = [of |-> y.u, open |-> TRUE, uses |-> 0]
  OBVIOUS
<1>4. token \in ResetRow
  BY <1>2, <1>3 DEF ResetRow
<1>5. reset[k] = NoRow /\ reset' = [reset EXCEPT ![k] = token]
  BY <1>1, <1>3 DEF InsertReset
<1>6. QED BY <1>1, <1>2, <1>3, <1>4, <1>5 DEF ResetStored

ResetSpent(r, k, token, x) ==
    /\ req[r].pc = "spend" /\ req[r].k = k /\ req[r].u \in Users /\ Exists(reset[k])
    /\ reset' = [reset EXCEPT ![k] = token]
    /\ token.of = reset[k].of /\ token.uses = reset[k].uses /\ token.open = FALSE
    /\ Goto(r, x) /\ x.pc = "revokeAll" /\ x.u = req[r].u /\ x.k = k

LEMMA SpendResetEffect ==
  ASSUME Inv, NEW r \in Reqs, SpendReset(r)
  PROVE  \E k \in Resets, token \in ResetRow, x \in Request : ResetSpent(r, k, token, x)
<1>1. PICK y \in Request : y = req[r] /\ Knows(y)
  BY DEF Inv, TypeOK
<1>2. /\ y.pc = "spend" /\ y.u \in Users /\ y.k \in Resets \cup {"NONE"}
      /\ y = [pc |-> "spend", u |-> y.u, k |-> y.k]
  BY <1>1 DEF SpendReset, At, Request, Idle
<1>3. PICK k \in Resets : k = y.k /\ Exists(reset[k])
  BY <1>1, <1>2 DEF Knows, OfReset
<1>4. PICK held \in ResetRow : held = reset[k]
  BY <1>3, Rows DEF Inv
<1>5. PICK token : token = [held EXCEPT !.open = FALSE]
  OBVIOUS
<1>6. token \in ResetRow /\ token.of = held.of /\ token.uses = held.uses /\ token.open = FALSE
  BY <1>5 DEF ResetRow
<1>7. reset' = [reset EXCEPT ![k] = token]
  BY <1>1, <1>3, <1>4, <1>5 DEF SpendReset, Spent, Inv, TypeOK
<1>8. PICK x : x = [pc |-> "revokeAll", u |-> y.u, k |-> y.k]
  OBVIOUS
<1>9. x \in Request
  BY <1>2, <1>8 DEF Request
<1>10. x = [y EXCEPT !.pc = "revokeAll"]
  BY <1>2, <1>8
<1>11. Goto(r, x)
  BY <1>1, <1>10 DEF SpendReset
<1>12. Goto(r, x) /\ x.pc = "revokeAll" /\ x.u = y.u /\ x.k = k
  BY <1>3, <1>8, <1>11
<1>13. QED BY <1>1, <1>2, <1>3, <1>4, <1>6, <1>7, <1>9, <1>12 DEF ResetSpent

CodeUsed(r, in, s, x) ==
    /\ req[r].pc = "useCode" /\ req[r].in = in /\ in.factor = s /\ in.from = "NONE"
    /\ Exists(code[s]) /\ code[s].of = in.u
    /\ Goto(r, x)
    /\ \/ code[s].state = "deleted" /\ UNCHANGED code /\ x = Idle
       \/ /\ code[s].state # "deleted"
          /\ code' = [code EXCEPT ![s] = [of |-> in.u, state |-> "used"]]
          /\ x.pc = "resolve" /\ x.in = in

LEMMA UseCodeEffect ==
  ASSUME Inv, NEW r \in Reqs, UseCode(r)
  PROVE  \E in \in Login, s \in Secrets, x \in Request : CodeUsed(r, in, s, x)
<1>1. PICK y \in Request : y = req[r] /\ Knows(y)
  BY DEF Inv, TypeOK
<1>2. y.pc = "useCode" /\ y.in \in Login /\ y = [pc |-> "useCode", in |-> y.in]
  BY <1>1 DEF UseCode, At, Request, Idle
<1>3. PICK in \in Login, s \in Secrets :
        in = y.in /\ s = in.factor /\ in.from = "NONE" /\ Exists(code[s]) /\ code[s].of = in.u
  BY <1>1, <1>2 DEF Knows, OfLogin
<1>4. CASE code[s].state = "deleted"
  <2>1. Goto(r, Idle) /\ UNCHANGED code /\ Idle \in Request
    BY <1>1, <1>3, <1>4 DEF UseCode, Done, Request
  <2>2. QED BY <1>1, <1>2, <1>3, <1>4, <2>1 DEF CodeUsed
<1>5. CASE code[s].state # "deleted"
  <2>1. PICK held \in [of : Users, state : {"unused", "used", "deleted"}] : held = code[s]
    BY <1>3, Rows DEF Inv
  <2>2. [held EXCEPT !.state = "used"] = [of |-> in.u, state |-> "used"]
    BY <1>3, <2>1
  <2>3. code' = [code EXCEPT ![s] = [of |-> in.u, state |-> "used"]]
    BY <1>1, <1>3, <1>5, <2>1, <2>2 DEF UseCode, Inv, TypeOK
  <2>4. PICK x : x = [pc |-> "resolve", in |-> in]
    OBVIOUS
  <2>5. x \in Request
    BY <2>4, LoginRequest
  <2>6. x = [y EXCEPT !.pc = "resolve"]
    BY <1>2, <1>3, <2>4
  <2>7. Goto(r, x)
    BY <1>1, <1>3, <1>5, <2>6 DEF UseCode
  <2>8. Goto(r, x) /\ x.pc = "resolve" /\ x.in = in
    BY <2>4, <2>7
  <2>9. QED BY <1>1, <1>2, <1>3, <1>5, <2>3, <2>5, <2>8 DEF CodeUsed
<1>6. QED BY <1>4, <1>5

CodesDropped(r, u, s, x) ==
    /\ req[r].pc = "dropCodes" /\ req[r].u = u /\ req[r].s = s
    /\ code' \in [Secrets -> {NoRow} \cup [of : Users, state : {"unused", "used", "deleted"}]]
    /\ \A z \in Secrets : IF Exists(code[z]) /\ code[z].of = u
                          THEN Exists(code'[z]) /\ code'[z].of = u /\ code'[z].state = "deleted"
                          ELSE code'[z] = code[z]
    /\ Goto(r, x)
    /\ IF s = "NONE" THEN x = Idle ELSE x.pc = "addCodes" /\ x.u = u /\ x.s = s

LEMMA DropCodesEffect ==
  ASSUME Inv, NEW r \in Reqs, DropCodes(r)
  PROVE  \E u \in Users, s \in Secrets \cup {"NONE"}, x \in Request : CodesDropped(r, u, s, x)
<1>1. PICK y \in Request : y = req[r]
  BY DEF Inv, TypeOK
<1>2. /\ y.pc = "dropCodes" /\ y.u \in Users /\ y.s \in Secrets \cup {"NONE"}
      /\ y = [pc |-> "dropCodes", u |-> y.u, s |-> y.s]
  BY <1>1 DEF DropCodes, At, Request, Idle
<1>3. PICK u \in Users, s \in Secrets \cup {"NONE"} : u = y.u /\ s = y.s
  BY <1>2
<1>4. /\ DOMAIN code' = Secrets
      /\ \A z \in Secrets : code'[z] = IF Exists(code[z]) /\ code[z].of = u THEN [code[z] EXCEPT !.state = "deleted"] ELSE code[z]
  BY <1>1, <1>3 DEF DropCodes
<1>5. ASSUME NEW z \in Secrets
      PROVE  /\ code'[z] \in {NoRow} \cup [of : Users, state : {"unused", "used", "deleted"}]
             /\ IF Exists(code[z]) /\ code[z].of = u
                THEN Exists(code'[z]) /\ code'[z].of = u /\ code'[z].state = "deleted"
                ELSE code'[z] = code[z]
  <2>1. CASE Exists(code[z]) /\ code[z].of = u
    <3>1. PICK held \in [of : Users, state : {"unused", "used", "deleted"}] : held = code[z]
      BY <2>1, Rows DEF Inv
    <3>2. PICK row : row = [held EXCEPT !.state = "deleted"]
      OBVIOUS
    <3>3. row \in [of : Users, state : {"unused", "used", "deleted"}] /\ row.of = held.of /\ row.state = "deleted"
      BY <3>2
    <3>4. code'[z] = row
      BY <1>4, <2>1, <3>1, <3>2
    <3>5. QED BY <2>1, <3>1, <3>3, <3>4, RowKinds DEF Exists
  <2>2. CASE ~(Exists(code[z]) /\ code[z].of = u)
    BY <1>4, <2>2 DEF Inv, TypeOK
  <2>3. QED BY <2>1, <2>2
<1>6. code' \in [Secrets -> {NoRow} \cup [of : Users, state : {"unused", "used", "deleted"}]]
  <2>1. code' = [z \in Secrets |-> code'[z]]
    BY <1>1 DEF DropCodes
  <2>2. QED BY <1>5, <2>1
<1>7. PICK x : x = IF s = "NONE" THEN Idle ELSE [pc |-> "addCodes", u |-> u, s |-> s]
  OBVIOUS
<1>8. x \in Request
  BY <1>3, <1>7 DEF Request
<1>9. Goto(r, x)
  BY <1>1, <1>2, <1>3, <1>7 DEF DropCodes, Done
<1>10. IF s = "NONE" THEN x = Idle ELSE x.pc = "addCodes" /\ x.u = u /\ x.s = s
  BY <1>7
<1>11. QED BY <1>1, <1>2, <1>3, <1>5, <1>6, <1>8, <1>9, <1>10 DEF CodesDropped

LEMMA AddCodesEffect ==
  ASSUME Inv, NEW r \in Reqs, AddCodes(r)
  PROVE  /\ req[r].pc = "addCodes" /\ req[r].u \in Users /\ req[r].s \in Secrets
         /\ code[req[r].s] = NoRow
         /\ code' = [code EXCEPT ![req[r].s] = [of |-> req[r].u, state |-> "unused"]]
<1>1. PICK y \in Request : y = req[r] /\ Knows(y)
  BY DEF Inv, TypeOK
<1>2. y.pc = "addCodes" /\ y.u \in Users /\ y.s \in Secrets
  BY <1>1, RequestShape DEF AddCodes, At
<1>3. code[y.s] = NoRow
  BY <1>1, <1>2, Limits DEF Knows
<1>4. QED BY <1>1, <1>2, <1>3 DEF AddCodes

LEMMA UnassignEffect ==
  ASSUME Inv, NEW r \in Reqs, Unassign(r)
  PROVE  \E u \in Users, x \in Request :
           /\ req[r].pc = "unassign" /\ req[r].u = u
           /\ holds' = [holds EXCEPT ![u] = {}]
           /\ Goto(r, x) /\ x.pc = "assign" /\ x.u = u
<1>1. PICK y \in Request : y = req[r]
  BY DEF Inv, TypeOK
<1>2. /\ y.pc = "unassign" /\ y.u \in Users /\ y.o \in Roles
      /\ y = [pc |-> "unassign", u |-> y.u, o |-> y.o]
  BY <1>1 DEF Unassign, At, Request, Idle
<1>3. PICK u \in Users : u = y.u
  BY <1>2
<1>4. PICK x : x = [pc |-> "assign", u |-> u, o |-> y.o]
  OBVIOUS
<1>5. x \in Request
  BY <1>2, <1>4 DEF Request
<1>6. x = [y EXCEPT !.pc = "assign"]
  BY <1>2, <1>3, <1>4
<1>7. Goto(r, x) /\ holds' = [holds EXCEPT ![u] = {}]
  BY <1>1, <1>3, <1>6 DEF Unassign, Without
<1>8. x.pc = "assign" /\ x.u = u
  BY <1>4
<1>9. QED BY <1>1, <1>2, <1>3, <1>5, <1>7, <1>8

LEMMA AssignEffect ==
  ASSUME Inv, NEW r \in Reqs, Assign(r)
  PROVE  \E u \in Users, o \in Roles, x \in Request :
           /\ req[r].pc = "assign" /\ req[r].u = u
           /\ holds' = [holds EXCEPT ![u] = holds[u] \cup {o}]
           /\ Goto(r, x) /\ x.pc \in {"idle", "clear"}
<1>1. PICK y \in Request : y = req[r]
  BY DEF Inv, TypeOK
<1>2. y.pc = "assign" /\ y.u \in Users /\ y.o \in Roles
  BY <1>1, RequestShape DEF Assign, At
<1>3. PICK u \in Users, o \in Roles : u = y.u /\ o = y.o
  BY <1>2
<1>4. CASE o \in holds[u]
  <2>1. UNCHANGED holds /\ Goto(r, Idle) /\ Idle \in Request
    BY <1>1, <1>3, <1>4 DEF Assign, Done, Request
  <2>2. holds[u] \cup {o} = holds[u]
    BY <1>4
  <2>3. holds' = [holds EXCEPT ![u] = holds[u] \cup {o}]
    BY <2>1, <2>2 DEF Inv, TypeOK
  <2>4. Idle.pc \in {"idle", "clear"}
    BY DEF Idle
  <2>5. QED BY <1>1, <1>2, <1>3, <2>1, <2>3, <2>4
<1>5. CASE o \notin holds[u]
  <2>1. PICK x : x = [pc |-> "clear"]
    OBVIOUS
  <2>2. x \in Request /\ x.pc \in {"idle", "clear"}
    BY <2>1 DEF Request
  <2>3. Goto(r, x) /\ holds' = [holds EXCEPT ![u] = holds[u] \cup {o}]
    BY <1>1, <1>3, <1>5, <2>1 DEF Assign, Inv, TypeOK
  <2>4. QED BY <1>1, <1>2, <1>3, <2>2, <2>3
<1>6. QED BY <1>4, <1>5

LEMMA ClearCacheEffect ==
  ASSUME Inv, NEW r \in Reqs, ClearPermissionCache(r)
  PROVE  /\ req[r].pc = "clear" /\ Goto(r, Idle)
         /\ cache' \in [Roles -> {NoRow}] /\ stored' \in [Roles -> SUBSET SUBSET Perms]
         /\ \A o \in Roles : cache'[o] = NoRow /\ stored'[o] = {grants[o]}
BY DEF ClearPermissionCache, At, Done, Emptied, Inv, TypeOK

LEMMA GrantEffect ==
  ASSUME Inv, NEW o \in Roles, NEW perms \in SUBSET Perms, Granted(o, perms)
  PROVE  /\ grants' \in [Roles -> SUBSET Perms] /\ stored' \in [Roles -> SUBSET SUBSET Perms]
         /\ \A p \in Roles : stored[p] \subseteq stored'[p] /\ grants'[p] \in stored'[p]
BY DEF Granted, Inv, TypeOK

LEMMA GrantPermissionsEffect ==
  ASSUME Inv, NEW r \in Reqs, GrantPermissions(r)
  PROVE  /\ req[r].pc = "grant" /\ Goto(r, Idle)
         /\ grants' \in [Roles -> SUBSET Perms] /\ stored' \in [Roles -> SUBSET SUBSET Perms]
         /\ \A p \in Roles : stored[p] \subseteq stored'[p] /\ grants'[p] \in stored'[p]
<1>1. PICK y \in Request : y = req[r]
  BY DEF Inv, TypeOK
<1>2. y.pc = "grant" /\ y.o \in Roles
  BY <1>1, RequestShape DEF GrantPermissions, At, OfRole
<1>3. Defaults[y.o] \in SUBSET Perms
  BY <1>2, IdentityAssumption
<1>4. grants[y.o] \cup Defaults[y.o] \in SUBSET Perms
  BY <1>2, <1>3 DEF Inv, TypeOK
<1>41. Granted(y.o, grants[y.o] \cup Defaults[y.o])
  BY <1>1 DEF GrantPermissions
<1>5. Goto(r, Idle)
  BY DEF GrantPermissions, Done
<1>6. QED BY <1>1, <1>2, <1>4, <1>41, <1>5, GrantEffect

LEMMA RevokeGrantEffect ==
  ASSUME Inv, NEW o \in Roles, NEW p \in Perms, RevokeGrant(o, p)
  PROVE  /\ grants' \in [Roles -> SUBSET Perms] /\ stored' \in [Roles -> SUBSET SUBSET Perms]
         /\ \A q \in Roles : stored[q] \subseteq stored'[q] /\ grants'[q] \in stored'[q]
<1>1. grants[o] \ {p} \in SUBSET Perms
  BY DEF Inv, TypeOK
<1>2. Granted(o, grants[o] \ {p})
  BY DEF RevokeGrant
<1>3. QED BY <1>1, <1>2, GrantEffect

LEMMA LoadPermissionsEffect ==
  ASSUME Inv, NEW r \in Reqs, LoadPermissions(r)
  PROVE  \E o \in Roles, x \in Request :
           /\ req[r].pc = "load" /\ req[r].o = o
           /\ Goto(r, x) /\ x.pc = "store" /\ x.o = o /\ x.found = grants[o]
<1>1. PICK y \in Request : y = req[r]
  BY DEF Inv, TypeOK
<1>2. y.pc = "load" /\ y.o \in Roles
  BY <1>1, RequestShape DEF LoadPermissions, At, OfRole
<1>3. PICK o \in Roles, found \in SUBSET Perms : o = y.o /\ found = grants[o]
  BY <1>2 DEF Inv, TypeOK
<1>4. PICK x : x = [pc |-> "store", o |-> o, found |-> found]
  OBVIOUS
<1>5. x \in Request
  BY <1>4 DEF Request
<1>6. Goto(r, x)
  BY <1>1, <1>3, <1>4 DEF LoadPermissions
<1>7. QED BY <1>1, <1>2, <1>3, <1>4, <1>5, <1>6

LEMMA StorePermissionsEffect ==
  ASSUME Inv, NEW r \in Reqs, StorePermissions(r)
  PROVE  \E o \in Roles, found \in SUBSET Perms :
           /\ req[r].pc = "store" /\ req[r].o = o /\ req[r].found = found
           /\ cache' = [cache EXCEPT ![o] = [found |-> found]]
           /\ Goto(r, Idle)
<1>1. PICK y \in Request : y = req[r]
  BY DEF Inv, TypeOK
<1>2. y.pc = "store" /\ y.o \in Roles /\ y.found \in SUBSET Perms
  BY <1>1, RequestShape DEF StorePermissions, At, OfRole
<1>3. QED BY <1>1, <1>2 DEF StorePermissions, Done

LEMMA RevokeKeyEffect ==
  ASSUME Inv, NEW r \in Reqs, RevokeKeyWrite(r)
  PROVE  \E k \in Keys, row \in [of : Users, live : BOOLEAN] :
           /\ req[r].pc = "revokeKey" /\ req[r].k = k /\ Exists(key[k])
           /\ key' = [key EXCEPT ![k] = row] /\ row.of = key[k].of
           /\ Goto(r, Idle)
<1>1. PICK y \in Request : y = req[r] /\ Knows(y)
  BY DEF Inv, TypeOK
<1>2. y.pc = "revokeKey" /\ y.k \in Keys /\ Exists(key[y.k])
  BY <1>1, RequestShape DEF RevokeKeyWrite, At, Knows
<1>3. PICK k \in Keys : k = y.k
  BY <1>2
<1>4. PICK old \in [of : Users, live : BOOLEAN] : old = key[k]
  BY <1>2, <1>3, Rows DEF Inv
<1>5. PICK row : row = [old EXCEPT !.live = FALSE]
  OBVIOUS
<1>6. row \in [of : Users, live : BOOLEAN] /\ row.of = old.of
  BY <1>5
<1>7. key' = [key EXCEPT ![k] = row] /\ Goto(r, Idle)
  BY <1>1, <1>3, <1>4, <1>5 DEF RevokeKeyWrite, Done, Inv, TypeOK
<1>8. QED BY <1>1, <1>2, <1>3, <1>4, <1>6, <1>7

-----------------------------------------------------------------------------
\* How a request begins.

LEMMA TouchesLocks == \A q \in Reqs : Touches(q) = Locks(req[q])
BY DEF Touches, Locks, OfRoles, OfRole

\* What the first query of a handler has found out when the handler goes on as x.
FoundLogin(y) ==
    /\ y.password = user[y.u].password
    /\ user[y.u].mfa <=> y.factor # "NONE"
    /\ ~user[y.u].locked

Begun(x) ==
    /\ x.pc \in {"fail", "findCode", "resolve", "revoke", "compare", "password", "ask", "secret", "enable", "disable",
                 "unassign", "grant", "load", "revokeKey", "identify"}
    /\ x.pc = "fail" => x.n = user[x.u].failures + 1 /\ ~user[x.u].locked
    /\ x.pc \in {"findCode", "resolve"} =>
         IF x.in.from = "NONE"
         THEN FoundLogin(x.in) /\ (x.pc = "findCode" <=> x.in.factor \in Secrets)
         ELSE Live(x.in.from) /\ x.in.password = session[x.in.from].password
    /\ x.pc = "password" /\ x.k # "NONE" => reset[x.k].open
    /\ x.pc = "enable" => x.s = user[x.u].secret
    /\ x.pc = "load" => cache[x.o] = NoRow

Starts(r, x) ==
    /\ req[r] = Idle /\ Goto(r, x)
    /\ MayOverlap \/ \A q \in Reqs : Locks(req[q]) \cap Locks(x) = {}
    /\ Knows(x) /\ Begun(x)
    /\ x.pc = "secret" => \A q \in Reqs : req[q].pc \in Setup => req[q].s # x.s
    /\ UNCHANGED <<user, session, reset, code, access>>
    /\ IF x.pc = "fail"
       THEN \E g \in 0..(MaxFailures + 1) : /\ guesses' = [guesses EXCEPT ![x.u] = g]
                                            /\ guesses[x.u] <= MaxFailures => g = guesses[x.u] + 1
       ELSE UNCHANGED guesses
    /\ IF x.pc = "enable" THEN proved' = proved \cup {x.s} ELSE UNCHANGED proved

\* A new API key is stored at once.
KeyStored ==
    /\ UNCHANGED <<account, holds, grants, cache, stored, req>>
    /\ \E k \in Keys, row \in [of : Users, live : BOOLEAN] : key[k] = NoRow /\ key' = [key EXCEPT ![k] = row]

LEMMA StartCase ==
  ASSUME NEW r \in Reqs, NEW things, MayStart(r, things), NEW x \in Request, Goto(r, x),
         UNCHANGED <<account, access>>, Locks(x) \subseteq things, Knows(x), Begun(x),
         x.pc \notin {"fail", "enable"},
         x.pc = "secret" => \A q \in Reqs : req[q].pc \in Setup => req[q].s # x.s
  PROVE  \E y \in Request : Starts(r, y)
<1>1. req[r] = Idle /\ (MayOverlap \/ \A q \in Reqs : Locks(req[q]) \cap Locks(x) = {})
  BY TouchesLocks DEF MayStart
<1>2. UNCHANGED <<user, session, reset, code, access, guesses, proved>>
  BY DEF account
<1>3. Starts(r, x)
  BY <1>1, <1>2 DEF Starts
<1>4. QED BY <1>3

LEMMA LoginWrongStarts ==
  ASSUME Inv, NEW r \in Reqs, NEW u \in Users, LoginWrong(r, u)
  PROVE  \E x \in Request : Starts(r, x)
<1>1. PICK x \in Request, g \in 0..(MaxFailures + 1) :
        /\ Goto(r, x) /\ x.pc = "fail" /\ x.u = u /\ x.n = user[u].failures + 1
        /\ guesses' = [guesses EXCEPT ![u] = g]
        /\ guesses[u] <= MaxFailures => g = guesses[u] + 1
  BY LoginWrongEffect
<1>2. /\ req[r] = Idle /\ ~user[u].locked /\ UNCHANGED <<user, session, reset, code, proved, access>>
      /\ MayOverlap \/ \A q \in Reqs : Touches(q) \cap {u} = {}
  BY DEF LoginWrong, MayStart, MayTry
<1>3. Locks(x) = {u}
  BY <1>1 DEF Locks, OfLogin, OfRoles, OfUser, OfRole
<1>4. Knows(x)
  BY <1>1 DEF Knows, OfLogin, OfReset
<1>5. Begun(x)
  BY <1>1, <1>2 DEF Begun
<1>6. MayOverlap \/ \A q \in Reqs : Locks(req[q]) \cap Locks(x) = {}
  BY <1>2, <1>3, TouchesLocks
<1>7. Starts(r, x)
  BY <1>1, <1>2, <1>4, <1>5, <1>6 DEF Starts
<1>8. QED BY <1>7

LEMMA LoginRightStarts ==
  ASSUME Inv, NEW r \in Reqs, NEW u \in Users, NEW f \in {"NONE", "TOTP"} \cup Secrets, LoginRight(r, u, f)
  PROVE  \E x \in Request : Starts(r, x)
<1>1. PICK p \in 0..MaxPassword : p = user[u].password
  BY DEF Inv, TypeOK, UserRow
<1>2. PICK in \in Login : in = [u |-> u, password |-> p, factor |-> f, from |-> "NONE"]
  BY DEF Login
<1>3. PICK pc \in {"findCode", "resolve"} : pc = "findCode" <=> f \in Secrets
  <2>1. CASE f \in Secrets
    BY <2>1
  <2>2. CASE f \notin Secrets
    BY <2>2
  <2>3. QED BY <2>1, <2>2
<1>4. PICK x : x = [pc |-> pc, in |-> in]
  OBVIOUS
<1>5. x \in Request
  BY <1>4, LoginRequest
<1>6. pc = IF f \in Secrets THEN "findCode" ELSE "resolve"
  BY <1>3
<1>7. Goto(r, x) /\ MayStart(r, {u}) /\ UNCHANGED <<account, access>>
  BY <1>1, <1>2, <1>4, <1>6 DEF LoginRight
<1>8. FoundLogin(in)
  BY <1>1, <1>2 DEF FoundLogin, LoginRight, AsksFor, MayTry
<1>9. /\ x.pc = pc /\ x.in = in /\ in.from = "NONE" /\ in.factor = f /\ in.u = u
  BY <1>2, <1>4
<1>10. Locks(x) \subseteq {u}
  BY <1>9 DEF Locks, OfLogin, OfRoles, OfUser, OfRole
<1>11. Knows(x)
  BY <1>3, <1>9 DEF Knows, OfLogin, OfReset
<1>12. Begun(x)
  BY <1>3, <1>8, <1>9 DEF Begun
<1>13. x.pc \notin {"fail", "enable", "secret"}
  BY <1>9
<1>14. QED BY <1>5, <1>7, <1>10, <1>11, <1>12, <1>13, StartCase

LEMMA RefreshStarts ==
  ASSUME Inv, NEW r \in Reqs, NEW t \in Sessions, Refresh(r, t)
  PROVE  \E x \in Request : Starts(r, x)
<1>1. PICK s \in SessionRow : s = session[t] /\ Exists(session[t]) /\ Live(t)
  BY Rows DEF Refresh, MayRefresh, Inv
<1>2. PICK in \in Login : in = [u |-> s.of, password |-> s.password, factor |-> s.factor, from |-> t]
  BY DEF Login, SessionRow
<1>3. PICK x : x = [pc |-> "resolve", in |-> in]
  OBVIOUS
<1>4. x \in Request
  BY <1>3, LoginRequest
<1>5. Goto(r, x) /\ MayStart(r, {s.of}) /\ UNCHANGED <<account, access>>
  BY <1>1, <1>2, <1>3 DEF Refresh
<1>6. x.pc = "resolve" /\ x.in = in /\ in.from = t /\ in.u = s.of /\ in.factor = s.factor /\ in.password = s.password
  BY <1>2, <1>3
<1>7. Locks(x) \subseteq {s.of}
  BY <1>6 DEF Locks, OfLogin, OfRoles, OfUser, OfRole
<1>8. Knows(x)
  BY <1>1, <1>6 DEF Knows, OfLogin, OfReset
<1>9. Begun(x)
  BY <1>1, <1>6, Limits DEF Begun
<1>10. QED BY <1>4, <1>5, <1>6, <1>7, <1>8, <1>9, StartCase

LEMMA RevokeStarts ==
  ASSUME Inv, NEW r \in Reqs, NEW t \in Sessions, Logout(r, t) \/ \E u \in Users : RevokeSession(r, u, t)
  PROVE  \E x \in Request : Starts(r, x)
<1>1. PICK x : x = [pc |-> "revoke", t |-> t]
  OBVIOUS
<1>2. x \in Request /\ x.pc = "revoke" /\ x.t = t
  BY <1>1 DEF Request
<1>3. Exists(session[t]) /\ Goto(r, x) /\ MayStart(r, {session[t].of}) /\ UNCHANGED <<account, access>>
  BY <1>1 DEF Logout, RevokeSession, Live
<1>4. Locks(x) \subseteq {session[t].of}
  BY <1>2 DEF Locks, OfLogin, OfRoles, OfUser, OfRole
<1>5. Knows(x) /\ Begun(x)
  BY <1>2, <1>3 DEF Knows, Begun, OfLogin, OfReset
<1>6. QED BY <1>2, <1>3, <1>4, <1>5, StartCase

LEMMA PasswordStarts ==
  ASSUME Inv, NEW r \in Reqs, NEW k \in Resets, ResetPassword(r, k)
  PROVE  \E x \in Request : Starts(r, x)
<1>1. PICK u \in Users :
        /\ Goto(r, [pc |-> "password", u |-> u, k |-> k]) /\ MayStart(r, {u}) /\ UNCHANGED <<account, access>>
        /\ Exists(reset[k]) /\ reset[k].of = u /\ reset[k].open
  <2>1. PICK u \in Users : u = reset[k].of /\ Exists(reset[k])
    BY Rows DEF ResetPassword, Inv, ResetRow
  <2>2. QED BY <2>1 DEF ResetPassword
<1>2. PICK x : x = [pc |-> "password", u |-> u, k |-> k]
  OBVIOUS
<1>3. x \in Request /\ x.pc = "password" /\ x.u = u /\ x.k = k
  BY <1>2 DEF Request
<1>4. Locks(x) \subseteq {u}
  BY <1>3 DEF Locks, OfLogin, OfRoles, OfUser, OfRole
<1>5. Knows(x) /\ Begun(x)
  BY <1>1, <1>3 DEF Knows, Begun, OfLogin, OfReset
<1>6. QED BY <1>1, <1>2, <1>3, <1>4, <1>5, StartCase

LEMMA EnableStarts ==
  ASSUME Inv, NEW r \in Reqs, NEW u \in Users, EnableMfa(r, u)
  PROVE  \E x \in Request : Starts(r, x)
<1>1. PICK s \in Secrets : s = user[u].secret
  BY DEF EnableMfa, Inv, TypeOK, UserRow
<1>2. PICK x : x = [pc |-> "enable", u |-> u, s |-> s]
  OBVIOUS
<1>3. x \in Request /\ x.pc = "enable" /\ x.u = u /\ x.s = s
  BY <1>2 DEF Request
<1>4. /\ Goto(r, x) /\ req[r] = Idle /\ proved' = proved \cup {s}
      /\ UNCHANGED <<user, session, reset, code, guesses, access>>
      /\ MayOverlap \/ \A q \in Reqs : Touches(q) \cap {u} = {}
  BY <1>1, <1>2 DEF EnableMfa, MayStart
<1>5. Locks(x) = {u}
  BY <1>3 DEF Locks, OfLogin, OfRoles, OfUser, OfRole
<1>6. Knows(x) /\ Begun(x)
  BY <1>1, <1>3 DEF Knows, Begun, OfLogin, OfReset
<1>7. MayOverlap \/ \A q \in Reqs : Locks(req[q]) \cap Locks(x) = {}
  BY <1>4, <1>5, TouchesLocks
<1>8. Starts(r, x)
  BY <1>3, <1>4, <1>6, <1>7 DEF Starts
<1>9. QED BY <1>3, <1>8

LEMMA SetupStarts ==
  ASSUME Inv, NEW r \in Reqs, NEW u \in Users, NEW s \in Secrets, SetupMfa(r, u, s)
  PROVE  \E x \in Request : Starts(r, x)
<1>1. PICK x : x = [pc |-> "secret", u |-> u, s |-> s]
  OBVIOUS
<1>2. x \in Request /\ x.pc = "secret" /\ x.u = u /\ x.s = s
  BY <1>1 DEF Request
<1>3. /\ Goto(r, x) /\ MayStart(r, {u}) /\ UNCHANGED <<account, access>>
      /\ code[s] = NoRow /\ \A v \in Users : user[v].secret # s
      /\ \A q \in Reqs : req[q].pc \in Setup => req[q].s # s
  BY <1>1 DEF SetupMfa, Setup
<1>4. Locks(x) \subseteq {u}
  BY <1>2 DEF Locks, OfLogin, OfRoles, OfUser, OfRole
<1>5. Knows(x) /\ Begun(x)
  BY <1>2, <1>3 DEF Knows, Begun, OfLogin, OfReset
<1>6. QED BY <1>2, <1>3, <1>4, <1>5, StartCase

LEMMA UserStarts ==
  ASSUME Inv, NEW r \in Reqs, NEW u \in Users,
         ChangePassword(r, u) \/ RequestPasswordReset(r, u) \/ DisableMfa(r, u)
  PROVE  \E x \in Request : Starts(r, x)
<1>1. PICK x \in {[pc |-> "compare", u |-> u], [pc |-> "ask", u |-> u], [pc |-> "disable", u |-> u]} :
        Goto(r, x) /\ MayStart(r, {u}) /\ UNCHANGED <<account, access>>
  BY DEF ChangePassword, RequestPasswordReset, DisableMfa
<1>2. x \in Request /\ x.pc \in {"compare", "ask", "disable"} /\ x.u = u
  BY <1>1 DEF Request
<1>3. Locks(x) \subseteq {u}
  BY <1>2 DEF Locks, OfLogin, OfRoles, OfUser, OfRole
<1>4. Knows(x) /\ Begun(x)
  BY <1>2 DEF Knows, Begun, OfLogin, OfReset
<1>5. QED BY <1>1, <1>2, <1>3, <1>4, StartCase

LEMMA RoleStarts ==
  ASSUME Inv, NEW r \in Reqs, NEW o \in Roles,
         SeedRole(r, o) \/ RequirePermission(r, o) \/ \E u \in Users : AssignRole(r, u, o)
  PROVE  \E x \in Request : Starts(r, x)
<1>1. CASE SeedRole(r, o) \/ RequirePermission(r, o)
  <2>1. PICK x \in {[pc |-> "grant", o |-> o], [pc |-> "load", o |-> o]} :
          /\ Goto(r, x) /\ MayStart(r, {o}) /\ UNCHANGED <<account, access>>
          /\ x.pc = "load" => cache[o] = NoRow
    BY <1>1 DEF SeedRole, RequirePermission
  <2>2. x \in Request /\ x.pc \in {"grant", "load"} /\ x.o = o
    BY <2>1 DEF Request
  <2>3. Locks(x) \subseteq {o}
    BY <2>2 DEF Locks, OfLogin, OfRoles, OfUser, OfRole
  <2>4. Knows(x) /\ Begun(x)
    BY <2>1, <2>2 DEF Knows, Begun, OfLogin, OfReset
  <2>5. QED BY <2>1, <2>2, <2>3, <2>4, StartCase
<1>2. ASSUME NEW u \in Users, AssignRole(r, u, o)
      PROVE  \E x \in Request : Starts(r, x)
  <2>1. PICK x : x = [pc |-> "unassign", u |-> u, o |-> o]
    OBVIOUS
  <2>2. x \in Request /\ x.pc = "unassign" /\ x.u = u
    BY <2>1 DEF Request
  <2>3. Goto(r, x) /\ MayStart(r, {u} \cup Roles) /\ UNCHANGED <<account, access>>
    BY <1>2, <2>1 DEF AssignRole
  <2>4. Locks(x) \subseteq {u} \cup Roles
    BY <2>2 DEF Locks, OfLogin, OfRoles, OfUser, OfRole
  <2>5. Knows(x) /\ Begun(x)
    BY <2>2 DEF Knows, Begun, OfLogin, OfReset
  <2>6. QED BY <2>2, <2>3, <2>4, <2>5, StartCase
<1>3. QED BY <1>1, <1>2

LEMMA KeyStarts ==
  ASSUME Inv, NEW r \in Reqs, NEW k \in Keys, RevokeApiKey(r, k) \/ AuthenticateWithApiKey(r, k)
  PROVE  \E x \in Request : Starts(r, x)
<1>1. PICK u \in Users : u = key[k].of /\ Exists(key[k])
  BY Rows DEF RevokeApiKey, AuthenticateWithApiKey, Inv
<1>2. PICK x \in {[pc |-> "revokeKey", k |-> k], [pc |-> "identify", u |-> u, k |-> k]} :
        /\ Goto(r, x) /\ UNCHANGED <<account, access>>
        /\ MayStart(r, IF x.pc = "revokeKey" THEN {u} ELSE {u} \cup Roles)
  BY <1>1 DEF RevokeApiKey, AuthenticateWithApiKey
<1>3. x \in Request /\ x.pc \in {"revokeKey", "identify"} /\ x.k = k /\ (x.pc = "identify" => x.u = u)
  BY <1>2 DEF Request
<1>4. Locks(x) \subseteq IF x.pc = "revokeKey" THEN {u} ELSE {u} \cup Roles
  BY <1>1, <1>3 DEF Locks, OfLogin, OfRoles, OfUser, OfRole
<1>5. Knows(x) /\ Begun(x)
  BY <1>1, <1>3 DEF Knows, Begun, OfLogin, OfReset
<1>6. QED BY <1>2, <1>3, <1>4, <1>5, StartCase

LEMMA BeginCases ==
  ASSUME Inv, NEW r \in Reqs, Begin(r)
  PROVE  KeyStored \/ \E x \in Request : Starts(r, x)
<1>1. ASSUME NEW u \in Users, NEW k \in Keys, CreateApiKey(r, u, k)
      PROVE  KeyStored
  <2>1. PICK row \in [of : Users, live : BOOLEAN] : row = [of |-> u, live |-> TRUE]
    OBVIOUS
  <2>2. QED BY <1>1, <2>1 DEF CreateApiKey, KeyStored
<1>2. QED
  BY <1>1, LoginWrongStarts, LoginRightStarts, RefreshStarts, RevokeStarts, PasswordStarts, EnableStarts,
     SetupStarts, UserStarts, RoleStarts, KeyStarts DEF Begin

-----------------------------------------------------------------------------
\* Inv is inductive.

SessionsKept ==
    /\ session' \in [Sessions -> SessionRow \cup {NoRow}]
    /\ \A t \in Sessions : Exists(session[t]) =>
         /\ Exists(session'[t]) /\ session'[t].of = session[t].of
         /\ session'[t].factor = session[t].factor /\ session'[t].from = session[t].from
    /\ \A t \in Sessions : Exists(session'[t]) /\ session'[t].from # "NONE" => Exists(session'[session'[t].from])
ResetsKept ==
    /\ reset' \in [Resets -> ResetRow \cup {NoRow}]
    /\ \A k \in Resets : Exists(reset[k]) => Exists(reset'[k]) /\ reset'[k].of = reset[k].of
CodesKept ==
    /\ code' \in [Secrets -> {NoRow} \cup [of : Users, state : {"unused", "used", "deleted"}]]
    /\ \A s \in Secrets : Exists(code[s]) => Exists(code'[s]) /\ code'[s].of = code[s].of
KeysKept ==
    /\ key' \in [Keys -> {NoRow} \cup [of : Users, live : BOOLEAN]]
    /\ \A k \in Keys : Exists(key[k]) => Exists(key'[k]) /\ key'[k].of = key[k].of
RestTyped ==
    /\ user' \in [Users -> UserRow] /\ guesses' \in [Users -> 0..(MaxFailures + 1)] /\ proved' \subseteq Secrets
    /\ holds' \in [Users -> SUBSET Roles] /\ grants' \in [Roles -> SUBSET Perms]
    /\ cache' \in [Roles -> {NoRow} \cup [found : SUBSET Perms]] /\ stored' \in [Roles -> SUBSET SUBSET Perms]
    /\ \A o \in Roles : grants'[o] \in stored'[o]

Kept == SessionsKept /\ ResetsKept /\ CodesKept /\ KeysKept /\ RestTyped

\* The secret that x sets up is as new as before.
SecretKept(x) ==
    x.pc \in Setup /\ x.s # "NONE" =>
      code'[x.s] = code[x.s] /\ \A v \in Users : user'[v].secret = x.s => user[v].secret = x.s

LEMMA KnowsKept ==
  ASSUME Inv, NEW x \in Request, Knows(x), SessionsKept, ResetsKept, CodesKept, KeysKept, SecretKept(x)
  PROVE  Knows(x)'
<1>1. ASSUME x.pc \in OfLogin
      PROVE  /\ x.in.from # "NONE" => /\ Exists(session'[x.in.from])
                                      /\ session'[x.in.from].of = x.in.u
                                      /\ session'[x.in.from].factor = x.in.factor
             /\ x.pc = "useCode" => Exists(code'[x.in.factor]) /\ code'[x.in.factor].of = x.in.u
  <2>1. x.in \in Login
    BY <1>1, RequestShape
  <2>2. x.in.from # "NONE" => x.in.from \in Sessions
    BY <2>1, LoginShape
  <2>3. QED BY <1>1, <2>2 DEF Knows, SessionsKept, CodesKept
<1>2. x.pc = "revoke" => Exists(session'[x.t])
  BY RequestShape DEF Knows, SessionsKept
<1>3. x.pc = "revokeKey" => Exists(key'[x.k])
  BY RequestShape DEF Knows, KeysKept
<1>4. x.pc \in OfReset /\ x.k # "NONE" => Exists(reset'[x.k]) /\ reset'[x.k].of = x.u
  BY RequestShape DEF Knows, ResetsKept
<1>5. x.pc = "secret" => code'[x.s] = NoRow /\ \A v \in Users : user'[v].secret # x.s
  BY RequestShape, Limits DEF Knows, SecretKept, Setup
<1>6. x.pc \in {"dropCodes", "addCodes"} /\ x.s # "NONE" =>
        code'[x.s] = NoRow /\ \A v \in Users \ {x.u} : user'[v].secret # x.s
  BY DEF Knows, SecretKept, Setup
<1>7. x.pc = "useCode" => x.pc \in OfLogin
  BY DEF OfLogin
<1>8. QED BY <1>1, <1>2, <1>3, <1>4, <1>5, <1>6, <1>7 DEF Knows, Exists

LEMMA KeptInv ==
  ASSUME Inv, UNCHANGED mode, Kept, req' \in [Reqs -> Request],
         \A q \in Reqs : Knows(req[q])',
         \A q, p \in Reqs : q # p /\ req'[q].pc \in Setup /\ req'[p].pc \in Setup /\ req'[q].s = req'[p].s => req'[q].s = "NONE"
  PROVE  Inv'
<1>1. TypeOK'
  BY DEF TypeOK, Inv, Kept, SessionsKept, ResetsKept, CodesKept, KeysKept, RestTyped
<1>2. SetupsApart'
  BY DEF SetupsApart
<1>3. QED BY <1>1, <1>2 DEF Inv, Kept, SessionsKept, RestTyped, Exists

\* A request goes on as x.
LEMMA StepInv ==
  ASSUME Inv, UNCHANGED mode, Kept, NEW r \in Reqs, NEW x \in Request, Goto(r, x), Knows(x)',
         \A q \in Reqs \ {r} : SecretKept(req[q]),
         x.pc \in Setup /\ x.s # "NONE" => \A q \in Reqs \ {r} : req[q].pc \in Setup => req[q].s # x.s
  PROVE  Inv'
<1>1. req' \in [Reqs -> Request]
  BY DEF Inv, TypeOK, Goto
<1>2. req'[r] = x /\ \A q \in Reqs \ {r} : req'[q] = req[q]
  BY RequestStep DEF Inv
<1>3. ASSUME NEW q \in Reqs PROVE Knows(req[q])'
  <2>1. PICK y \in Request : y = req'[q]
    BY <1>1
  <2>2. Knows(y)'
    <3>1. CASE q = r
      <4>1. y = x
        BY <1>2, <2>1, <3>1
      <4>2. QED BY <4>1
    <3>2. CASE q # r
      <4>1. y = req[q] /\ Knows(y) /\ SecretKept(y)
        BY <1>2, <2>1, <3>2 DEF Inv
      <4>2. QED BY <4>1, KnowsKept DEF Kept
    <3>3. QED BY <3>1, <3>2
  <2>3. QED BY <2>1, <2>2
<1>4. ASSUME NEW q \in Reqs, NEW p \in Reqs, q # p, req'[q].pc \in Setup, req'[p].pc \in Setup, req'[q].s = req'[p].s
      PROVE  req'[q].s = "NONE"
  BY <1>2, <1>4 DEF Inv, SetupsApart
<1>5. QED BY <1>1, <1>3, <1>4, KeptInv

\* No request goes on.
LEMMA StayInv ==
  ASSUME Inv, UNCHANGED <<mode, req>>, Kept, \A q \in Reqs : SecretKept(req[q])
  PROVE  Inv'
<1>1. ASSUME NEW q \in Reqs PROVE Knows(req[q])'
  <2>1. PICK y \in Request : y = req[q] /\ Knows(y) /\ SecretKept(y)
    BY DEF Inv, TypeOK
  <2>2. Knows(y)'
    BY <2>1, KnowsKept DEF Kept
  <2>3. req'[q] = y
    BY <2>1
  <2>4. QED BY <2>2, <2>3
<1>2. QED BY <1>1, KeptInv DEF Inv, SetupsApart, TypeOK

LEMMA SessionsSame == Inv /\ UNCHANGED session => SessionsKept
BY DEF SessionsKept, Inv, TypeOK
LEMMA ResetsSame == Inv /\ UNCHANGED reset => ResetsKept
BY DEF ResetsKept, Inv, TypeOK
LEMMA CodesSame == Inv /\ UNCHANGED code => CodesKept
BY DEF CodesKept, Inv, TypeOK
LEMMA KeysSame == Inv /\ UNCHANGED key => KeysKept
BY DEF KeysKept, Inv, TypeOK
LEMMA SecretsSame ==
  ASSUME UNCHANGED code, \A v \in Users : user'[v].secret = user[v].secret
  PROVE  \A q \in Reqs : SecretKept(req[q])
BY DEF SecretKept
LEMMA AccessTyped ==
  Inv /\ UNCHANGED <<holds, grants, cache, stored>> =>
    /\ holds' \in [Users -> SUBSET Roles] /\ grants' \in [Roles -> SUBSET Perms]
    /\ cache' \in [Roles -> {NoRow} \cup [found : SUBSET Perms]] /\ stored' \in [Roles -> SUBSET SUBSET Perms]
    /\ \A o \in Roles : grants'[o] \in stored'[o]
BY DEF Inv, TypeOK
LEMMA IdleKnows == Idle \in Request /\ Knows(Idle)' /\ Knows(Idle) /\ Idle.pc = "idle"
BY DEF Request, Knows, Idle, OfLogin, OfReset

LEMMA InitInv == Init => Inv
<1> SUFFICES ASSUME Init PROVE Inv
  OBVIOUS
<1>1. mode \in Modes
  BY DEF Init
<1>2. Idle \in Request
  BY DEF Request
<1>3. 0 \in 0..MaxPassword /\ 0 \in 0..(MaxFailures - 1) /\ 0 \in 0..(MaxFailures + 1)
  BY Limits
<1>4. user \in [Users -> UserRow]
  BY <1>3 DEF Init, UserRow
<1>5. guesses \in [Users -> 0..(MaxFailures + 1)]
  BY <1>3 DEF Init
<1>6. holds \in [Users -> SUBSET Roles]
  <2>1. {{o} : o \in Roles} \subseteq SUBSET Roles
    OBVIOUS
  <2>2. QED BY <2>1 DEF Init
<1>7. grants \in [Roles -> SUBSET Perms]
  <2>1. CASE grants \in [Roles -> {{}}]
    BY <2>1
  <2>2. CASE grants = Defaults
    BY <2>2, IdentityAssumption
  <2>3. QED BY <2>1, <2>2 DEF Init
<1>8. stored \in [Roles -> SUBSET SUBSET Perms]
  BY <1>7 DEF Init
<1>9. TypeOK
  BY <1>2, <1>4, <1>5, <1>6, <1>7, <1>8 DEF Init, TypeOK
<1>10. \A q \in Reqs : Knows(req[q])
  BY DEF Init, Knows, Idle, OfLogin, OfReset
<1>11. SetupsApart
  BY DEF Init, SetupsApart, Idle, Setup
<1>12. \A t \in Sessions : ~Exists(session[t])
  BY DEF Init, Exists
<1>13. \A o \in Roles : grants[o] \in stored[o]
  BY DEF Init
<1>14. QED BY <1>1, <1>9, <1>10, <1>11, <1>12, <1>13 DEF Inv

\* A request goes on that sets up no secret.
LEMMA GoesOnInv ==
  ASSUME Inv, UNCHANGED mode, Kept, NEW r \in Reqs, NEW x \in Request, Goto(r, x), Knows(x), x.pc \notin Setup,
         \A q \in Reqs : SecretKept(req[q])
  PROVE  Inv'
<1>1. SecretKept(x)
  BY DEF SecretKept
<1>2. Knows(x)'
  BY <1>1, KnowsKept DEF Kept
<1>3. QED BY <1>2, StepInv

LEMMA DoneInv ==
  ASSUME Inv, UNCHANGED mode, Kept, NEW r \in Reqs, Goto(r, Idle), \A q \in Reqs : SecretKept(req[q])
  PROVE  Inv'
<1>1. Idle \in Request /\ Knows(Idle) /\ Idle.pc \notin Setup
  BY IdleKnows DEF Setup
<1>2. QED BY <1>1, GoesOnInv

\* A request that only reads.
LEMMA ReadInv ==
  ASSUME Inv, UNCHANGED <<mode, account, access>>, NEW r \in Reqs, NEW x \in Request, Goto(r, x), Knows(x),
         x.pc \notin Setup
  PROVE  Inv'
<1>1. Kept
  BY SessionsSame, ResetsSame, CodesSame, KeysSame, AccessTyped DEF Kept, RestTyped, account, access, Inv, TypeOK
<1>2. \A q \in Reqs : SecretKept(req[q])
  BY DEF SecretKept, account
<1>3. QED BY <1>1, <1>2, GoesOnInv

LEMMA StartInv ==
  ASSUME Inv, UNCHANGED mode, NEW r \in Reqs, NEW x \in Request, Starts(r, x)
  PROVE  Inv'
<1>1. UNCHANGED <<user, session, reset, code, holds, grants, cache, stored, key>> /\ Goto(r, x) /\ Knows(x)
  BY DEF Starts, access
<1>2. proved' \subseteq Secrets
  BY RequestShape DEF Starts, Inv, TypeOK
<1>3. guesses' \in [Users -> 0..(MaxFailures + 1)]
  BY RequestShape DEF Starts, Inv, TypeOK
<1>4. Kept
  BY <1>1, <1>2, <1>3, SessionsSame, ResetsSame, CodesSame, KeysSame, AccessTyped DEF Kept, RestTyped, Inv, TypeOK
<1>5. (\A q \in Reqs : SecretKept(req[q])) /\ SecretKept(x)
  BY <1>1 DEF SecretKept
<1>6. Knows(x)'
  BY <1>1, <1>4, <1>5, KnowsKept DEF Kept
<1>7. x.pc \in Setup /\ x.s # "NONE" => \A q \in Reqs \ {r} : req[q].pc \in Setup => req[q].s # x.s
  BY DEF Starts, Begun, Setup
<1>8. QED BY <1>1, <1>4, <1>5, <1>6, <1>7, StepInv

\* A new row of a user, with the secret it had.
LEMMA UserRowKept ==
  ASSUME Inv, NEW u \in Users, NEW row \in UserRow, user' = [user EXCEPT ![u] = row], row.secret = user[u].secret,
         UNCHANGED code
  PROVE  /\ user' \in [Users -> UserRow]
         /\ \A q \in Reqs : SecretKept(req[q])
<1>1. user' \in [Users -> UserRow]
  BY DEF Inv, TypeOK
<1>2. \A v \in Users : user'[v].secret = user[v].secret
  BY DEF Inv, TypeOK
<1>3. QED BY <1>1, <1>2, SecretsSame

LEMMA RecordFailureInv ==
  ASSUME Inv, UNCHANGED mode, NEW r \in Reqs, RecordFailure(r)
  PROVE  Inv'
<1>0. PICK u \in Users, n \in 1..MaxFailures, row \in UserRow, g \in 0..(MaxFailures + 1) : FailureRecorded(r, u, n, row, g)
  BY RecordFailureEffect
<1>1. /\ user' = [user EXCEPT ![u] = row] /\ row.secret = user[u].secret
      /\ guesses' = [guesses EXCEPT ![u] = g]
  BY <1>0 DEF FailureRecorded
<1>2. UNCHANGED <<session, reset, code, proved, holds, grants, cache, stored, key>> /\ Goto(r, Idle)
  BY DEF RecordFailure, access, Done
<1>3. user' \in [Users -> UserRow] /\ \A q \in Reqs : SecretKept(req[q])
  BY <1>1, <1>2, UserRowKept
<1>4. Kept
  BY <1>1, <1>2, <1>3, SessionsSame, ResetsSame, CodesSame, KeysSame, AccessTyped DEF Kept, RestTyped, Inv, TypeOK
<1>5. QED BY <1>2, <1>3, <1>4, DoneInv

LEMMA ClearFailuresInv ==
  ASSUME Inv, UNCHANGED mode, NEW r \in Reqs, ClearFailures(r)
  PROVE  Inv'
<1>0. PICK u \in Users, row \in UserRow, x \in Request : FailuresCleared(r, u, row, x)
  BY ClearFailuresEffect
<1>1. /\ req[r].pc = "open"
      /\ user' = [user EXCEPT ![u] = row] /\ row.secret = user[u].secret
      /\ guesses' = [guesses EXCEPT ![u] = 0]
      /\ Goto(r, x) /\ (x = Idle \/ (x.pc = "open" /\ x.in = req[r].in))
  BY <1>0 DEF FailuresCleared
<1>2. UNCHANGED <<session, reset, code, proved, holds, grants, cache, stored, key>>
  BY DEF ClearFailures, access
<1>3. user' \in [Users -> UserRow] /\ \A q \in Reqs : SecretKept(req[q])
  BY <1>1, <1>2, UserRowKept
<1>4. Kept
  BY <1>1, <1>2, <1>3, SessionsSame, ResetsSame, CodesSame, KeysSame, AccessTyped, Limits DEF Kept, RestTyped, Inv, TypeOK
<1>5. Knows(x) /\ x.pc \notin Setup
  <2>1. CASE x = Idle
    BY <2>1, IdleKnows DEF Setup
  <2>2. CASE x.pc = "open" /\ x.in = req[r].in
    <3>1. PICK y \in Request : y = req[r] /\ Knows(y)
      BY DEF Inv, TypeOK
    <3>2. QED BY <1>1, <2>2, <3>1 DEF Knows, OfLogin, OfReset, Setup
  <2>3. QED BY <1>1, <2>1, <2>2
<1>6. QED BY <1>1, <1>3, <1>4, <1>5, GoesOnInv

LEMMA PasswordWriteInv ==
  ASSUME Inv, UNCHANGED mode, NEW r \in Reqs, PasswordWrite(r)
  PROVE  Inv'
<1>0. PICK u \in Users, k \in Resets \cup {"NONE"}, row \in UserRow, x \in Request : PasswordWritten(r, u, k, row, x)
  BY PasswordWriteEffect
<1>1. /\ req[r].pc = "password" /\ req[r].u = u /\ req[r].k = k
      /\ user' = [user EXCEPT ![u] = row] /\ row.secret = user[u].secret
      /\ k = "NONE" => UNCHANGED <<guesses, reset>>
      /\ k # "NONE" => guesses' = [guesses EXCEPT ![u] = 0]
      /\ Goto(r, x) /\ x.u = u /\ x.k = k /\ x.pc = IF k = "NONE" THEN "revokeAll" ELSE "spend"
  BY <1>0 DEF PasswordWritten
<1>2. UNCHANGED <<session, code, proved, holds, grants, cache, stored, key>>
  BY DEF PasswordWrite, access
<1>3. user' \in [Users -> UserRow] /\ \A q \in Reqs : SecretKept(req[q])
  BY <1>1, <1>2, UserRowKept
<1>4. ResetsKept /\ guesses' \in [Users -> 0..(MaxFailures + 1)]
  <2>1. CASE k = "NONE"
    BY <1>1, <2>1, ResetsSame DEF Inv, TypeOK
  <2>2. CASE k # "NONE"
    <3>1. PICK token \in ResetRow : reset' = [reset EXCEPT ![k] = token] /\ token.of = reset[k].of /\ k \in Resets
      BY <1>0, <2>2 DEF PasswordWritten
    <3>2. ResetsKept
      BY <3>1, RowKinds DEF ResetsKept, Inv, TypeOK, Exists
    <3>3. guesses' \in [Users -> 0..(MaxFailures + 1)]
      BY <1>1, <2>2, Limits DEF Inv, TypeOK
    <3>4. QED BY <3>2, <3>3
  <2>3. QED BY <2>1, <2>2
<1>5. Kept
  BY <1>2, <1>3, <1>4, SessionsSame, CodesSame, KeysSame, AccessTyped DEF Kept, RestTyped, Inv, TypeOK
<1>6. Knows(x) /\ x.pc \notin Setup
  <2>1. PICK y \in Request : y = req[r] /\ Knows(y)
    BY DEF Inv, TypeOK
  <2>2. x.pc \in {"revokeAll", "spend"} /\ (x.pc = "spend" => k # "NONE")
    BY <1>1
  <2>3. k # "NONE" => Exists(reset[k]) /\ reset[k].of = u
    BY <1>1, <2>1 DEF Knows, OfReset
  <2>4. QED BY <1>1, <2>2, <2>3 DEF Knows, OfLogin, OfReset, Setup
<1>7. QED BY <1>1, <1>3, <1>5, <1>6, GoesOnInv

LEMMA FactorWriteInv ==
  ASSUME Inv, UNCHANGED mode, NEW r \in Reqs, SecretWrite(r) \/ EnableWrite(r) \/ DisableWrite(r)
  PROVE  Inv'
<1>0. PICK u \in Users, s \in Secrets \cup {"NONE"}, row \in UserRow, x \in Request : FactorWritten(r, u, s, row, x)
  BY FactorWriteEffect
<1>1. /\ req[r].u = u
      /\ user' = [user EXCEPT ![u] = row] /\ Goto(r, x)
      /\ \/ /\ req[r].pc = "secret" /\ req[r].s = s /\ s \in Secrets /\ row.secret = s
            /\ x.pc = "dropCodes" /\ x.u = u /\ x.s = s
         \/ /\ row.secret = user[u].secret /\ x = Idle
         \/ /\ row.secret = "NONE" /\ x.pc = "dropCodes" /\ x.u = u /\ x.s = "NONE"
  BY <1>0 DEF FactorWritten
<1>2. UNCHANGED <<session, reset, code, guesses, proved, holds, grants, cache, stored, key>>
  BY DEF SecretWrite, EnableWrite, DisableWrite, access
<1>3. user' \in [Users -> UserRow] /\ user'[u] = row /\ \A v \in Users \ {u} : user'[v] = user[v]
  BY <1>1 DEF Inv, TypeOK
<1>4. Kept
  BY <1>2, <1>3, SessionsSame, ResetsSame, CodesSame, KeysSame, AccessTyped DEF Kept, RestTyped, Inv, TypeOK
<1>5. CASE /\ req[r].pc = "secret" /\ req[r].s = s /\ s \in Secrets /\ row.secret = s
           /\ x.pc = "dropCodes" /\ x.u = u /\ x.s = s
  <2>1. PICK y \in Request : y = req[r] /\ Knows(y)
    BY DEF Inv, TypeOK
  <2>2. code[s] = NoRow /\ \A v \in Users : user[v].secret # s
    BY <1>5, <2>1 DEF Knows
  <2>3. ASSUME NEW q \in Reqs \ {r}, req[q].pc \in Setup
        PROVE  req[q].s # s
    BY <1>5, <2>3, Limits DEF Inv, SetupsApart, Setup
  <2>4. \A q \in Reqs \ {r} : SecretKept(req[q])
    <3>1. SUFFICES ASSUME NEW q \in Reqs \ {r}, req[q].pc \in Setup, NEW v \in Users, user'[v].secret = req[q].s
                   PROVE  user[v].secret = req[q].s
      BY <1>2 DEF SecretKept
    <3>2. v # u
      BY <1>3, <1>5, <2>3, <3>1
    <3>3. QED BY <1>3, <3>1, <3>2
  <2>5. Knows(x)'
    <3>1. code'[s] = NoRow /\ \A v \in Users \ {u} : user'[v].secret # s
      BY <1>2, <1>3, <2>2
    <3>2. QED BY <1>5, <3>1 DEF Knows, OfLogin, OfReset
  <2>6. QED BY <1>1, <1>4, <1>5, <2>3, <2>4, <2>5, StepInv
<1>6. CASE row.secret = user[u].secret /\ x = Idle
  <2>1. \A q \in Reqs : SecretKept(req[q])
    BY <1>1, <1>2, <1>6, UserRowKept
  <2>2. QED BY <1>1, <1>4, <1>6, <2>1, DoneInv
<1>7. CASE row.secret = "NONE" /\ x.pc = "dropCodes" /\ x.u = u /\ x.s = "NONE"
  <2>1. \A q \in Reqs : SecretKept(req[q])
    BY <1>2, <1>3, <1>7 DEF SecretKept
  <2>2. Knows(x)'
    BY <1>7 DEF Knows, OfLogin, OfReset
  <2>3. QED BY <1>1, <1>4, <1>7, <2>1, <2>2, StepInv
<1>8. QED BY <1>1, <1>5, <1>6, <1>7

LEMMA SomeEndKept ==
  ASSUME Inv, SomeEnd
  PROVE  SessionsKept
<1>1. \A t \in Sessions : Exists(session'[t]) =>
        Exists(session[t]) /\ session'[t].from = session[t].from
  BY DEF SomeEnd
<1>2. \A t \in Sessions : Exists(session'[t]) /\ session'[t].from # "NONE" => Exists(session'[session'[t].from])
  <2>1. SUFFICES ASSUME NEW t \in Sessions, Exists(session'[t]), session'[t].from # "NONE"
                 PROVE  Exists(session'[session'[t].from])
    OBVIOUS
  <2>2. PICK f \in Sessions : f = session[t].from /\ Exists(session[f])
    BY <1>1, <2>1, Rows DEF Inv, SessionRow
  <2>3. Exists(session'[f])
    BY <2>2 DEF SomeEnd
  <2>4. QED BY <1>1, <2>1, <2>2, <2>3
<1>3. QED BY <1>2 DEF SessionsKept, SomeEnd

LEMMA OnlySessions ==
  ASSUME Inv, SessionsKept, UNCHANGED <<user, reset, code, guesses, proved, access>>
  PROVE  Kept /\ \A q \in Reqs : SecretKept(req[q])
<1>1. Kept
  BY ResetsSame, CodesSame, KeysSame, AccessTyped DEF Kept, RestTyped, access, Inv, TypeOK
<1>2. QED BY <1>1 DEF SecretKept

LEMMA IssueTokenPairInv ==
  ASSUME Inv, UNCHANGED mode, NEW r \in Reqs, NEW t \in Sessions, IssueTokenPair(r, t)
  PROVE  Inv'
<1>1. PICK in \in Login, row \in SessionRow, x \in Request : TokenIssued(r, t, in, row, x)
  BY IssueTokenPairEffect
<1>2. /\ req[r].pc = "open" /\ req[r].in = in
      /\ session[t] = NoRow /\ session' = [session EXCEPT ![t] = row]
      /\ row.of = in.u /\ row.from = in.from
      /\ Goto(r, x) /\ (x = Idle \/ (x.pc = "open" /\ x.in = in))
  BY <1>1 DEF TokenIssued
<1>3. PICK y \in Request : y = req[r] /\ Knows(y)
  BY DEF Inv, TypeOK
<1>4. /\ session' \in [Sessions -> SessionRow \cup {NoRow}]
      /\ session'[t] = row /\ \A v \in Sessions \ {t} : session'[v] = session[v]
  BY <1>2 DEF Inv, TypeOK
<1>5. \A v \in Sessions : Exists(session[v]) => Exists(session'[v]) /\ v # t
  BY <1>2, <1>4, RowKinds DEF Exists
<1>6. ASSUME NEW v \in Sessions, Exists(session'[v]), session'[v].from # "NONE"
      PROVE  Exists(session'[session'[v].from])
  <2>1. PICK f \in Sessions : f = session'[v].from /\ Exists(session[f])
    <3>1. CASE v = t
      <4>1. in.from \in Sessions
        BY <1>2, <1>4, <1>6, <3>1, LoginShape
      <4>2. Exists(session[in.from])
        BY <1>2, <1>3, <1>4, <1>6, <3>1 DEF Knows, OfLogin
      <4>3. QED BY <1>2, <1>4, <3>1, <4>1, <4>2
    <3>2. CASE v # t
      <4>1. session[v] \in SessionRow /\ session'[v] = session[v]
        BY <1>4, <1>6, <3>2, Rows DEF Inv
      <4>2. QED BY <1>6, <4>1 DEF Inv, SessionRow
    <3>3. QED BY <3>1, <3>2
  <2>2. QED BY <1>5, <2>1
<1>7. SessionsKept
  BY <1>4, <1>5, <1>6 DEF SessionsKept
<1>8. Knows(x) /\ x.pc \notin Setup
  BY <1>2, <1>3, IdleKnows DEF Knows, OfLogin, OfReset, Setup
<1>9. UNCHANGED <<user, reset, code, guesses, proved, access>>
  BY DEF IssueTokenPair
<1>10. QED BY <1>2, <1>7, <1>8, <1>9, OnlySessions, GoesOnInv

LEMMA RotateInv ==
  ASSUME Inv, UNCHANGED mode, NEW r \in Reqs, Rotate(r)
  PROVE  Inv'
<1>1. PICK x \in Request : Rotated(r, x)
  BY RotateEffect
<1>2. SessionsKept
  BY <1>1, EndsSome, SomeEndKept DEF Rotated
<1>3. PICK y \in Request : y = req[r] /\ Knows(y)
  BY DEF Inv, TypeOK
<1>4. Knows(x) /\ x.pc \notin Setup /\ Goto(r, x)
  BY <1>1, <1>3 DEF Rotated, Knows, OfLogin, OfReset, Setup
<1>5. UNCHANGED <<user, reset, code, guesses, proved, access>>
  BY DEF Rotate
<1>6. QED BY <1>2, <1>4, <1>5, OnlySessions, GoesOnInv

LEMMA RevokeInv ==
  ASSUME Inv, UNCHANGED mode, NEW r \in Reqs, RevokeWrite(r) \/ RevokeAll(r)
  PROVE  Inv'
<1>1. SessionsKept
  BY RevokeWriteEffect, RevokeAllEffect, EndsSome, SomeEndKept
<1>2. UNCHANGED <<user, reset, code, guesses, proved, access>> /\ Goto(r, Idle)
  BY DEF RevokeWrite, RevokeAll, Done
<1>3. QED BY <1>1, <1>2, OnlySessions, DoneInv

LEMMA OnlyResets ==
  ASSUME Inv, ResetsKept, UNCHANGED <<user, session, code, guesses, proved, access>>
  PROVE  Kept /\ \A q \in Reqs : SecretKept(req[q])
<1>1. Kept
  BY SessionsSame, CodesSame, KeysSame, AccessTyped DEF Kept, RestTyped, access, Inv, TypeOK
<1>2. QED BY <1>1 DEF SecretKept

LEMMA InsertResetInv ==
  ASSUME Inv, UNCHANGED mode, NEW r \in Reqs, NEW k \in Resets, InsertReset(r, k)
  PROVE  Inv'
<1>1. PICK token \in ResetRow : ResetStored(r, k, token)
  BY InsertResetEffect
<1>2. ResetsKept
  BY <1>1 DEF ResetStored, ResetsKept, Inv, TypeOK, Exists
<1>3. UNCHANGED <<user, session, code, guesses, proved, access>> /\ Goto(r, Idle)
  BY DEF InsertReset, Done
<1>4. QED BY <1>2, <1>3, OnlyResets, DoneInv

LEMMA SpendResetInv ==
  ASSUME Inv, UNCHANGED mode, NEW r \in Reqs, SpendReset(r)
  PROVE  Inv'
<1>1. PICK k \in Resets, token \in ResetRow, x \in Request : ResetSpent(r, k, token, x)
  BY SpendResetEffect
<1>2. /\ req[r].pc = "spend" /\ req[r].k = k /\ Exists(reset[k])
      /\ reset' = [reset EXCEPT ![k] = token] /\ token.of = reset[k].of
      /\ Goto(r, x) /\ x.pc = "revokeAll" /\ x.u = req[r].u /\ x.k = k
  BY <1>1 DEF ResetSpent
<1>3. ResetsKept
  BY <1>2, RowKinds DEF ResetsKept, Inv, TypeOK, Exists
<1>4. PICK y \in Request : y = req[r] /\ Knows(y)
  BY DEF Inv, TypeOK
<1>5. Knows(x) /\ x.pc \notin Setup
  BY <1>2, <1>4 DEF Knows, OfLogin, OfReset, Setup
<1>6. UNCHANGED <<user, session, code, guesses, proved, access>>
  BY DEF SpendReset
<1>7. QED BY <1>2, <1>3, <1>5, <1>6, OnlyResets, GoesOnInv

LEMMA OnlyCodes ==
  ASSUME Inv, CodesKept, UNCHANGED <<user, session, reset, guesses, proved, access>>
  PROVE  Kept
BY SessionsSame, ResetsSame, KeysSame, AccessTyped DEF Kept, RestTyped, access, Inv, TypeOK

\* A secret being set up has no codes yet, so writing other codes leaves it as it is.
LEMMA NewSecretKept ==
  ASSUME Inv, UNCHANGED user, NEW q \in Reqs, NEW written,
         \A z \in Secrets \ written : code[z] = NoRow => code'[z] = NoRow,
         req[q].pc \in Setup => req[q].s \notin written
  PROVE  SecretKept(req[q])
<1>1. PICK y \in Request : y = req[q] /\ Knows(y)
  BY DEF Inv, TypeOK
<1>2. ASSUME y.pc \in Setup, y.s # "NONE"
      PROVE  code'[y.s] = code[y.s]
  <2>1. y.s \in Secrets
    BY <1>2, RequestShape DEF Setup
  <2>2. code[y.s] = NoRow
    BY <1>1, <1>2 DEF Knows, Setup
  <2>3. QED BY <1>1, <1>2, <2>1, <2>2
<1>3. SecretKept(y)
  BY <1>2 DEF SecretKept
<1>4. QED BY <1>1, <1>3

LEMMA UseCodeInv ==
  ASSUME Inv, UNCHANGED mode, NEW r \in Reqs, UseCode(r)
  PROVE  Inv'
<1>1. PICK in \in Login, s \in Secrets, x \in Request : CodeUsed(r, in, s, x)
  BY UseCodeEffect
<1>2. UNCHANGED <<user, session, reset, guesses, proved, access>>
  BY DEF UseCode
<1>3. /\ req[r].pc = "useCode" /\ req[r].in = in /\ Exists(code[s]) /\ code[s].of = in.u /\ Goto(r, x)
      /\ \/ UNCHANGED code /\ x = Idle
         \/ code' = [code EXCEPT ![s] = [of |-> in.u, state |-> "used"]] /\ x.pc = "resolve" /\ x.in = in
  BY <1>1 DEF CodeUsed
<1>4. CodesKept /\ \A z \in Secrets : code[z] = NoRow => code'[z] = NoRow
  <2>1. CASE UNCHANGED code
    BY <2>1, CodesSame
  <2>2. CASE code' = [code EXCEPT ![s] = [of |-> in.u, state |-> "used"]]
    <3>1. PICK row \in [of : Users, state : {"unused", "used", "deleted"}] : row = [of |-> in.u, state |-> "used"]
      BY LoginShape
    <3>2. code' = [code EXCEPT ![s] = row] /\ row.of = code[s].of
      BY <1>3, <2>2, <3>1
    <3>3. QED BY <1>3, <3>2, RowKinds DEF CodesKept, Inv, TypeOK, Exists
  <2>3. QED BY <1>3, <2>1, <2>2
<1>5. \A q \in Reqs : SecretKept(req[q])
  <2>1. ASSUME NEW q \in Reqs PROVE SecretKept(req[q])
    <3>1. \A z \in Secrets \ {} : code[z] = NoRow => code'[z] = NoRow
      BY <1>4
    <3>2. req[q].s \notin {}
      OBVIOUS
    <3>3. QED BY <1>2, <3>1, <3>2, NewSecretKept
  <2>2. QED BY <2>1
<1>6. Knows(x) /\ x.pc \notin Setup
  <2>1. PICK y \in Request : y = req[r] /\ Knows(y)
    BY DEF Inv, TypeOK
  <2>2. QED BY <1>3, <2>1, IdleKnows DEF Knows, OfLogin, OfReset, Setup
<1>7. QED BY <1>2, <1>3, <1>4, <1>5, <1>6, OnlyCodes, GoesOnInv

LEMMA DropCodesInv ==
  ASSUME Inv, UNCHANGED mode, NEW r \in Reqs, DropCodes(r)
  PROVE  Inv'
<1>1. PICK u \in Users, s \in Secrets \cup {"NONE"}, x \in Request : CodesDropped(r, u, s, x)
  BY DropCodesEffect
<1>2. /\ UNCHANGED <<user, session, reset, guesses, proved, access>>
      /\ req[r].pc = "dropCodes" /\ req[r].u = u /\ req[r].s = s /\ Goto(r, x)
      /\ IF s = "NONE" THEN x = Idle ELSE x.pc = "addCodes" /\ x.u = u /\ x.s = s
  BY <1>1 DEF CodesDropped, DropCodes
<1>3. CodesKept /\ \A z \in Secrets \ {} : code[z] = NoRow => code'[z] = NoRow
  BY <1>1 DEF CodesDropped, CodesKept, Exists
<1>4. ASSUME NEW q \in Reqs PROVE SecretKept(req[q])
  <2>1. req[q].s \notin {}
    OBVIOUS
  <2>2. QED BY <1>2, <1>3, <2>1, NewSecretKept
<1>5. CASE s = "NONE"
  BY <1>2, <1>3, <1>4, <1>5, OnlyCodes, DoneInv
<1>6. CASE s # "NONE"
  <2>1. PICK y \in Request : y = req[r] /\ Knows(y) /\ SecretKept(y)
    BY <1>4 DEF Inv, TypeOK
  <2>2. Knows(x)
    BY <1>2, <1>6, <2>1 DEF Knows, OfLogin, OfReset
  <2>3. SecretKept(x)
    BY <1>2, <1>6, <2>1 DEF SecretKept, Setup
  <2>4. Kept
    BY <1>2, <1>3, OnlyCodes
  <2>5. Knows(x)'
    BY <2>2, <2>3, <2>4, KnowsKept DEF Kept
  <2>6. ASSUME NEW q \in Reqs \ {r}, req[q].pc \in Setup
        PROVE  req[q].s # x.s
    BY <1>2, <1>6, <2>6 DEF Inv, SetupsApart, Setup
  <2>7. QED BY <1>2, <1>4, <2>4, <2>5, <2>6, StepInv
<1>7. QED BY <1>5, <1>6

LEMMA AddCodesInv ==
  ASSUME Inv, UNCHANGED mode, NEW r \in Reqs, AddCodes(r)
  PROVE  Inv'
<1>1. PICK y \in Request : y = req[r]
  BY DEF Inv, TypeOK
<1>2. /\ y.pc = "addCodes" /\ y.u \in Users /\ y.s \in Secrets /\ code[y.s] = NoRow
      /\ code' = [code EXCEPT ![y.s] = [of |-> y.u, state |-> "unused"]]
  BY <1>1, AddCodesEffect
<1>3. UNCHANGED <<user, session, reset, guesses, proved, access>> /\ Goto(r, Idle)
  BY DEF AddCodes, Done
<1>4. CodesKept /\ \A z \in Secrets \ {y.s} : code[z] = NoRow => code'[z] = NoRow
  BY <1>2 DEF CodesKept, Inv, TypeOK, Exists
<1>5. ASSUME NEW q \in Reqs \ {r} PROVE SecretKept(req[q])
  <2>1. req[q].pc \in Setup => req[q].s # y.s
    BY <1>1, <1>2, Limits DEF Inv, SetupsApart, Setup
  <2>2. req[q].pc \in Setup => req[q].s \notin {y.s}
    BY <2>1
  <2>3. QED BY <1>3, <1>4, <2>2, NewSecretKept
<1>6. Idle \in Request /\ Knows(Idle)' /\ Idle.pc \notin Setup
  BY IdleKnows DEF Setup
<1>7. Kept
  BY <1>3, <1>4, OnlyCodes
<1>8. QED BY <1>3, <1>5, <1>6, <1>7, StepInv

LEMMA OnlyAccess ==
  ASSUME Inv, UNCHANGED account, KeysKept,
         holds' \in [Users -> SUBSET Roles], grants' \in [Roles -> SUBSET Perms],
         cache' \in [Roles -> {NoRow} \cup [found : SUBSET Perms]], stored' \in [Roles -> SUBSET SUBSET Perms],
         \A o \in Roles : grants'[o] \in stored'[o]
  PROVE  Kept /\ \A q \in Reqs : SecretKept(req[q])
<1>1. UNCHANGED <<user, session, reset, code, guesses, proved>>
  BY DEF account
<1>2. Kept
  BY <1>1, SessionsSame, ResetsSame, CodesSame DEF Kept, RestTyped, Inv, TypeOK
<1>3. QED BY <1>1, <1>2 DEF SecretKept

LEMMA RoleWriteInv ==
  ASSUME Inv, UNCHANGED mode, NEW r \in Reqs, Unassign(r) \/ Assign(r)
  PROVE  Inv'
<1>1. PICK x \in Request : Goto(r, x) /\ x.pc \in {"idle", "assign", "clear"}
  <2>1. CASE Unassign(r)
    BY <2>1, UnassignEffect
  <2>2. CASE Assign(r)
    BY <2>2, AssignEffect
  <2>3. QED BY <2>1, <2>2
<1>2. holds' \in [Users -> SUBSET Roles]
  <2>1. CASE Unassign(r)
    BY <2>1, UnassignEffect DEF Inv, TypeOK
  <2>2. CASE Assign(r)
    <3>1. PICK u \in Users, o \in Roles : holds' = [holds EXCEPT ![u] = holds[u] \cup {o}]
      BY <2>2, AssignEffect
    <3>2. QED BY <3>1 DEF Inv, TypeOK
  <2>3. QED BY <2>1, <2>2
<1>3. UNCHANGED <<account, grants, cache, stored, key>>
  BY DEF Unassign, Assign
<1>4. Kept /\ \A q \in Reqs : SecretKept(req[q])
  BY <1>2, <1>3, KeysSame, OnlyAccess DEF Inv, TypeOK
<1>5. Knows(x) /\ x.pc \notin Setup
  BY <1>1 DEF Knows, OfLogin, OfReset, Setup
<1>6. QED BY <1>1, <1>4, <1>5, GoesOnInv

LEMMA CacheWriteInv ==
  ASSUME Inv, UNCHANGED mode, NEW r \in Reqs, ClearPermissionCache(r) \/ GrantPermissions(r) \/ StorePermissions(r)
  PROVE  Inv'
<1>1. UNCHANGED <<account, holds, key>> /\ Goto(r, Idle)
  BY DEF ClearPermissionCache, GrantPermissions, StorePermissions, Done
<1>2. CASE ClearPermissionCache(r)
  <2>1. UNCHANGED grants /\ cache' \in [Roles -> {NoRow} \cup [found : SUBSET Perms]]
    BY <1>2, ClearCacheEffect DEF ClearPermissionCache
  <2>2. QED BY <1>1, <1>2, <2>1, ClearCacheEffect, KeysSame, OnlyAccess, DoneInv DEF Inv, TypeOK
<1>3. CASE GrantPermissions(r)
  <2>1. UNCHANGED cache
    BY <1>3 DEF GrantPermissions
  <2>2. QED BY <1>1, <1>3, <2>1, GrantPermissionsEffect, KeysSame, OnlyAccess, DoneInv DEF Inv, TypeOK
<1>4. CASE StorePermissions(r)
  <2>1. PICK o \in Roles, found \in SUBSET Perms : cache' = [cache EXCEPT ![o] = [found |-> found]]
    BY <1>4, StorePermissionsEffect
  <2>2. UNCHANGED <<grants, stored>>
    BY <1>4 DEF StorePermissions
  <2>3. cache' \in [Roles -> {NoRow} \cup [found : SUBSET Perms]]
    BY <2>1 DEF Inv, TypeOK
  <2>4. QED BY <1>1, <2>2, <2>3, KeysSame, OnlyAccess, DoneInv DEF Inv, TypeOK
<1>5. QED BY <1>2, <1>3, <1>4

LEMMA RevokeKeyInv ==
  ASSUME Inv, UNCHANGED mode, NEW r \in Reqs, RevokeKeyWrite(r)
  PROVE  Inv'
<1>1. PICK k \in Keys, row \in [of : Users, live : BOOLEAN] :
        Exists(key[k]) /\ key' = [key EXCEPT ![k] = row] /\ row.of = key[k].of
  BY RevokeKeyEffect
<1>2. KeysKept
  BY <1>1, RowKinds DEF KeysKept, Inv, TypeOK, Exists
<1>3. UNCHANGED <<account, holds, grants, cache, stored>> /\ Goto(r, Idle)
  BY DEF RevokeKeyWrite, Done
<1>4. QED BY <1>2, <1>3, OnlyAccess, DoneInv DEF Inv, TypeOK

\* Reads.
LEMMA FindCodeEffect ==
  ASSUME Inv, NEW r \in Reqs, FindCode(r)
  PROVE  \E x \in Request :
           /\ Goto(r, x) /\ Knows(x)
           /\ req[r].pc = "findCode" /\ req[r].in.factor \in Secrets
           /\ x = Idle \/ (/\ x.pc = "useCode" /\ x.in = req[r].in
                           /\ Usable(req[r].in.factor, req[r].in.u))
<1>1. PICK y \in Request : y = req[r] /\ Knows(y)
  BY DEF Inv, TypeOK
<1>2. y.pc = "findCode" /\ y.in \in Login /\ y = [pc |-> "findCode", in |-> y.in]
  BY <1>1 DEF FindCode, At, Request, Idle
<1>3. y.in.factor \in Secrets /\ y.in.from = "NONE"
  BY <1>1, <1>2 DEF Knows
<1>4. CASE Usable(y.in.factor, y.in.u)
  <2>1. PICK x : x = [pc |-> "useCode", in |-> y.in]
    OBVIOUS
  <2>2. x \in Request
    BY <1>2, <2>1, LoginRequest
  <2>3. x = [y EXCEPT !.pc = "useCode"]
    BY <1>2, <2>1
  <2>4. Goto(r, x)
    BY <1>1, <1>4, <2>3 DEF FindCode
  <2>5. x.pc = "useCode" /\ x.in = y.in
    BY <2>1
  <2>6. Knows(x)
    BY <1>3, <1>4, <2>5 DEF Knows, OfLogin, OfReset, Usable
  <2>7. QED BY <1>1, <1>2, <1>3, <1>4, <2>2, <2>4, <2>5, <2>6
<1>5. CASE ~Usable(y.in.factor, y.in.u)
  <2>1. Goto(r, Idle)
    BY <1>1, <1>5 DEF FindCode, Done
  <2>2. QED BY <1>1, <1>2, <1>3, <2>1, IdleKnows
<1>6. QED BY <1>4, <1>5

LEMMA ResolveEffect ==
  ASSUME Inv, NEW r \in Reqs, Resolve(r)
  PROVE  \E x \in Request :
           /\ Goto(r, x) /\ Knows(x) /\ req[r].pc = "resolve"
           /\ \/ x = Idle
              \/ x.pc = "open" /\ x.in = req[r].in /\ x.todo = {"clear", "insert"} /\ x.in.from = "NONE"
              \/ x.pc = "rotate" /\ x.in = req[r].in /\ x.in.from # "NONE"
<1>1. PICK y \in Request : y = req[r] /\ Knows(y)
  BY DEF Inv, TypeOK
<1>2. y.pc = "resolve" /\ y.in \in Login
  BY <1>1, RequestShape DEF Resolve, At, OfLogin
<1>3. CASE holds[y.in.u] = {}
  <2>1. Goto(r, Idle)
    BY <1>1, <1>3 DEF Resolve, Done
  <2>2. QED BY <1>1, <1>2, <2>1, IdleKnows
<1>4. CASE holds[y.in.u] # {} /\ y.in.from = "NONE"
  <2>1. PICK x : x = [pc |-> "open", in |-> y.in, todo |-> {"clear", "insert"}]
    OBVIOUS
  <2>2. {"clear", "insert"} \in (SUBSET {"clear", "insert"}) \ {{}}
    BY Parts
  <2>3. x \in Request
    BY <1>2, <2>1, <2>2, LoginRequest
  <2>4. Goto(r, x)
    BY <1>1, <1>4, <2>1 DEF Resolve
  <2>5. x.pc = "open" /\ x.in = y.in /\ x.todo = {"clear", "insert"} /\ x.in.from = "NONE"
    BY <1>4, <2>1
  <2>6. Knows(x)
    BY <2>5 DEF Knows, OfLogin, OfReset
  <2>7. QED BY <1>1, <1>2, <2>3, <2>4, <2>5, <2>6
<1>5. CASE holds[y.in.u] # {} /\ y.in.from # "NONE"
  <2>1. PICK x : x = [pc |-> "rotate", in |-> y.in]
    OBVIOUS
  <2>2. x \in Request
    BY <1>2, <2>1, LoginRequest
  <2>3. Goto(r, x)
    BY <1>1, <1>5, <2>1 DEF Resolve
  <2>4. x.pc = "rotate" /\ x.in = y.in /\ x.in.from # "NONE"
    BY <1>5, <2>1
  <2>5. Knows(x)
    BY <1>1, <1>2, <2>4 DEF Knows, OfLogin, OfReset
  <2>6. QED BY <1>1, <1>2, <2>2, <2>3, <2>4, <2>5
<1>6. QED BY <1>3, <1>4, <1>5

LEMMA IdentifyEffect ==
  ASSUME Inv, NEW r \in Reqs, Identify(r)
  PROVE  \E x \in Request :
           /\ Goto(r, x) /\ req[r].pc = "identify"
           /\ x = Idle \/ (x.pc = "load" /\ x.o \in Roles /\ cache[x.o] = NoRow)
<1>1. PICK y \in Request : y = req[r]
  BY DEF Inv, TypeOK
<1>2. y.pc = "identify" /\ y.u \in Users
  BY <1>1, RequestShape DEF Identify, At
<1>3. Goto(r, Idle) \/ \E o \in Roles : cache[o] = NoRow /\ Goto(r, [pc |-> "load", o |-> o])
  BY <1>1, <1>2 DEF Identify, Done, Inv, TypeOK
<1>4. CASE Goto(r, Idle)
  BY <1>1, <1>2, <1>4, IdleKnows
<1>5. ASSUME NEW o \in Roles, cache[o] = NoRow, Goto(r, [pc |-> "load", o |-> o])
      PROVE  \E x \in Request : Goto(r, x) /\ x.pc = "load" /\ x.o \in Roles /\ cache[x.o] = NoRow
  <2>1. PICK x : x = [pc |-> "load", o |-> o]
    OBVIOUS
  <2>2. x \in Request /\ x.pc = "load" /\ x.o = o
    BY <2>1 DEF Request
  <2>3. QED BY <1>5, <2>1, <2>2
<1>6. QED BY <1>1, <1>2, <1>3, <1>4, <1>5

LEMMA CompareCurrentEffect ==
  ASSUME Inv, NEW r \in Reqs, CompareCurrent(r)
  PROVE  \E x \in Request :
           /\ Goto(r, x) /\ Knows(x) /\ req[r].pc = "compare"
           /\ x = Idle \/ (x.pc = "password" /\ x.u = req[r].u /\ x.k = "NONE")
<1>1. PICK y \in Request : y = req[r]
  BY DEF Inv, TypeOK
<1>2. y.pc = "compare" /\ y.u \in Users
  BY <1>1, RequestShape DEF CompareCurrent, At
<1>3. CASE Goto(r, Idle)
  BY <1>1, <1>2, <1>3, IdleKnows
<1>4. CASE Goto(r, [pc |-> "password", u |-> y.u, k |-> "NONE"])
  <2>1. PICK x : x = [pc |-> "password", u |-> y.u, k |-> "NONE"]
    OBVIOUS
  <2>2. x \in Request /\ x.pc = "password" /\ x.u = y.u /\ x.k = "NONE"
    BY <1>2, <2>1 DEF Request
  <2>3. Knows(x)
    BY <2>2 DEF Knows, OfLogin, OfReset
  <2>4. QED BY <1>1, <1>2, <1>4, <2>1, <2>2, <2>3
<1>5. QED BY <1>1, <1>3, <1>4 DEF CompareCurrent, Done

LEMMA ReadsInv ==
  ASSUME Inv, UNCHANGED mode, NEW r \in Reqs,
         FindCode(r) \/ CompareCurrent(r) \/ Resolve(r) \/ LoadPermissions(r) \/ Identify(r) \/ Die(r)
  PROVE  Inv'
<1>1. UNCHANGED <<account, access>>
  BY DEF FindCode, CompareCurrent, Resolve, LoadPermissions, Identify, Die
<1>2. PICK x \in Request : Goto(r, x) /\ Knows(x) /\ x.pc \notin Setup
  <2>1. CASE FindCode(r)
    BY <2>1, FindCodeEffect, IdleKnows DEF Setup
  <2>2. CASE Resolve(r)
    BY <2>2, ResolveEffect, IdleKnows DEF Setup
  <2>3. CASE LoadPermissions(r)
    <3>1. PICK x \in Request : Goto(r, x) /\ x.pc = "store"
      BY <2>3, LoadPermissionsEffect
    <3>2. QED BY <3>1 DEF Knows, OfLogin, OfReset, Setup
  <2>4. CASE Identify(r)
    <3>1. PICK x \in Request : Goto(r, x) /\ (x = Idle \/ x.pc = "load")
      BY <2>4, IdentifyEffect
    <3>2. QED BY <3>1, IdleKnows DEF Knows, OfLogin, OfReset, Setup
  <2>5. CASE Die(r)
    BY <2>5, IdleKnows DEF Die, Done, Setup
  <2>6. CASE CompareCurrent(r)
    BY <2>6, CompareCurrentEffect, IdleKnows DEF Setup
  <2>7. QED BY <2>1, <2>2, <2>3, <2>4, <2>5, <2>6
<1>3. QED BY <1>1, <1>2, ReadInv

LEMMA KeyStoredInv ==
  ASSUME Inv, UNCHANGED mode, KeyStored
  PROVE  Inv'
<1>1. PICK k \in Keys, row \in [of : Users, live : BOOLEAN] : key[k] = NoRow /\ key' = [key EXCEPT ![k] = row]
  BY DEF KeyStored
<1>2. KeysKept
  BY <1>1 DEF KeysKept, Inv, TypeOK, Exists
<1>3. Kept /\ \A q \in Reqs : SecretKept(req[q])
  BY <1>2, OnlyAccess DEF KeyStored, Inv, TypeOK
<1>4. QED BY <1>3, StayInv DEF KeyStored

\* The passing of time, a deactivation and an operator's revocation.
LEMMA UserFades ==
  ASSUME Inv, NEW u \in Users, LockExpires(u) \/ Deactivate(u)
  PROVE  \E row \in UserRow :
           /\ user' = [user EXCEPT ![u] = row]
           /\ row.password = user[u].password /\ row.failures = user[u].failures
           /\ row.mfa = user[u].mfa /\ row.secret = user[u].secret /\ (row.locked => user[u].locked)
<1>1. PICK old \in UserRow : old = user[u]
  BY DEF Inv, TypeOK
<1>2. CASE LockExpires(u)
  <2>1. PICK row : row = [old EXCEPT !.locked = FALSE]
    OBVIOUS
  <2>2. /\ row \in UserRow /\ row.password = old.password /\ row.failures = old.failures
        /\ row.mfa = old.mfa /\ row.secret = old.secret /\ (row.locked => old.locked)
    BY <2>1 DEF UserRow
  <2>3. user' = [user EXCEPT ![u] = row]
    BY <1>1, <1>2, <2>1 DEF LockExpires, Inv, TypeOK
  <2>4. QED BY <1>1, <2>2, <2>3
<1>3. CASE Deactivate(u)
  <2>1. PICK row : row = [old EXCEPT !.active = FALSE]
    OBVIOUS
  <2>2. /\ row \in UserRow /\ row.password = old.password /\ row.failures = old.failures
        /\ row.mfa = old.mfa /\ row.secret = old.secret /\ (row.locked => old.locked)
    BY <2>1 DEF UserRow
  <2>3. user' = [user EXCEPT ![u] = row]
    BY <1>1, <1>3, <2>1 DEF Deactivate, Inv, TypeOK
  <2>4. QED BY <1>1, <2>2, <2>3
<1>4. QED BY <1>2, <1>3

LEMMA UserFadesInv ==
  ASSUME Inv, UNCHANGED mode, NEW u \in Users, LockExpires(u) \/ Deactivate(u)
  PROVE  Inv'
<1>1. PICK row \in UserRow : user' = [user EXCEPT ![u] = row] /\ row.secret = user[u].secret
  BY UserFades
<1>2. UNCHANGED <<session, reset, code, guesses, proved, holds, grants, cache, stored, key, req>>
  BY DEF LockExpires, Deactivate, access
<1>3. user' \in [Users -> UserRow] /\ \A q \in Reqs : SecretKept(req[q])
  BY <1>1, <1>2, UserRowKept
<1>4. Kept
  BY <1>2, <1>3, SessionsSame, ResetsSame, CodesSame, KeysSame, AccessTyped DEF Kept, RestTyped, Inv, TypeOK
<1>5. QED BY <1>2, <1>3, <1>4, StayInv

LEMMA SessionExpiresInv ==
  ASSUME Inv, UNCHANGED mode, NEW t \in Sessions, SessionExpires(t)
  PROVE  Inv'
<1>1. UNCHANGED <<user, reset, code, guesses, proved, access, req>> /\ Exists(session[t])
  BY DEF SessionExpires, Live
<1>2. SessionsKept
  BY <1>1, EndsEffect, EndsSome, SomeEndKept DEF SessionExpires
<1>3. QED BY <1>1, <1>2, OnlySessions, StayInv

LEMMA AccessFadesInv ==
  ASSUME Inv, UNCHANGED mode, NEW o \in Roles, EntryExpires(o) \/ \E p \in Perms : RevokeGrant(o, p)
  PROVE  Inv'
<1>1. UNCHANGED <<account, holds, key, req>>
  BY DEF EntryExpires, RevokeGrant
<1>2. CASE EntryExpires(o)
  <2>1. UNCHANGED grants /\ cache' = [cache EXCEPT ![o] = NoRow] /\ stored' = [stored EXCEPT ![o] = {grants[o]}]
    BY <1>2 DEF EntryExpires
  <2>2. cache' \in [Roles -> {NoRow} \cup [found : SUBSET Perms]] /\ stored' \in [Roles -> SUBSET SUBSET Perms]
    BY <2>1 DEF Inv, TypeOK
  <2>3. \A p \in Roles : grants'[p] \in stored'[p]
    BY <2>1 DEF Inv, TypeOK
  <2>4. QED BY <1>1, <2>1, <2>2, <2>3, KeysSame, OnlyAccess, StayInv DEF Inv, TypeOK
<1>3. ASSUME NEW p \in Perms, RevokeGrant(o, p)
      PROVE  Inv'
  <2>1. UNCHANGED cache
    BY <1>3 DEF RevokeGrant
  <2>2. QED BY <1>1, <1>3, <2>1, RevokeGrantEffect, KeysSame, OnlyAccess, StayInv DEF Inv, TypeOK
<1>4. QED BY <1>2, <1>3

LEMMA NextInv == Inv /\ [Next]_vars => Inv'
<1> SUFFICES ASSUME Inv, [Next]_vars PROVE Inv'
  OBVIOUS
<1>1. CASE UNCHANGED vars
  <2>1. UNCHANGED <<mode, req, user, session, reset, code, guesses, proved, holds, grants, cache, stored, key>>
    BY <1>1 DEF vars, account, access
  <2>2. Kept
    BY <2>1, SessionsSame, ResetsSame, CodesSame, KeysSame, AccessTyped DEF Kept, RestTyped, Inv, TypeOK
  <2>3. \A q \in Reqs : SecretKept(req[q])
    BY <2>1 DEF SecretKept
  <2>4. QED BY <2>1, <2>2, <2>3, StayInv
<1>2. CASE Next
  <2>1. UNCHANGED mode
    BY <1>2 DEF Next
  <2>2. ASSUME NEW r \in Reqs, Begin(r) PROVE Inv'
    BY <2>1, <2>2, BeginCases, StartInv, KeyStoredInv
  <2>3. ASSUME NEW r \in Reqs, Continue(r) PROVE Inv'
    <3>1. CASE FindCode(r) \/ CompareCurrent(r) \/ Resolve(r) \/ LoadPermissions(r) \/ Identify(r)
      BY <2>1, <3>1, ReadsInv
    <3>2. CASE RecordFailure(r) \/ ClearFailures(r) \/ PasswordWrite(r) \/ SecretWrite(r) \/ EnableWrite(r) \/ DisableWrite(r)
      BY <2>1, <3>2, RecordFailureInv, ClearFailuresInv, PasswordWriteInv, FactorWriteInv
    <3>3. CASE Rotate(r) \/ RevokeWrite(r) \/ RevokeAll(r) \/ \E t \in Sessions : IssueTokenPair(r, t)
      BY <2>1, <3>3, RotateInv, RevokeInv, IssueTokenPairInv
    <3>4. CASE SpendReset(r) \/ \E k \in Resets : InsertReset(r, k)
      BY <2>1, <3>4, SpendResetInv, InsertResetInv
    <3>5. CASE UseCode(r) \/ DropCodes(r) \/ AddCodes(r)
      BY <2>1, <3>5, UseCodeInv, DropCodesInv, AddCodesInv
    <3>6. CASE \/ Unassign(r) \/ Assign(r) \/ ClearPermissionCache(r) \/ GrantPermissions(r) \/ StorePermissions(r)
               \/ RevokeKeyWrite(r)
      BY <2>1, <3>6, RoleWriteInv, CacheWriteInv, RevokeKeyInv
    <3>7. QED BY <2>3, <3>1, <3>2, <3>3, <3>4, <3>5, <3>6 DEF Continue
  <2>4. ASSUME NEW r \in Reqs, Die(r) PROVE Inv'
    BY <2>1, <2>4, ReadsInv
  <2>5. ASSUME NEW u \in Users, LockExpires(u) \/ Deactivate(u) PROVE Inv'
    BY <2>1, <2>5, UserFadesInv
  <2>6. ASSUME NEW t \in Sessions, SessionExpires(t) PROVE Inv'
    BY <2>1, <2>6, SessionExpiresInv
  <2>7. ASSUME NEW o \in Roles, EntryExpires(o) \/ \E p \in Perms : RevokeGrant(o, p) PROVE Inv'
    BY <2>1, <2>7, AccessFadesInv
  <2>8. QED BY <1>2, <2>2, <2>3, <2>4, <2>5, <2>6, <2>7 DEF Next
<1>3. QED BY <1>1, <1>2

LEMMA Invariance == Spec => []Inv
BY InitInv, NextInv, PTL DEF Spec

\* Every row and every request has its type, however requests overlap and die.
THEOREM TypeCorrect == Spec => []TypeOK
<1>1. Inv => TypeOK
  BY DEF Inv
<1>2. QED BY Invariance, <1>1, PTL

-----------------------------------------------------------------------------
\* Which requests write what, and how they go on.

Continues(r) == Continue(r) \/ Die(r)

LEMMA AccountOrAccess ==
  ASSUME NEW r \in Reqs, Continues(r)
  PROVE  \/ /\ UNCHANGED account
            /\ req[r].pc \in {"unassign", "assign", "clear", "grant", "load", "store", "revokeKey", "identify"}
         \/ /\ UNCHANGED access
            /\ \/ Die(r)
               \/ RecordFailure(r) \/ FindCode(r) \/ CompareCurrent(r) \/ UseCode(r) \/ Resolve(r) \/ ClearFailures(r) \/ Rotate(r)
               \/ \E t \in Sessions : IssueTokenPair(r, t)
               \/ RevokeWrite(r) \/ PasswordWrite(r) \/ SpendReset(r) \/ RevokeAll(r)
               \/ \E k \in Resets : InsertReset(r, k)
               \/ SecretWrite(r) \/ DropCodes(r) \/ AddCodes(r) \/ EnableWrite(r) \/ DisableWrite(r)
<1>1. CASE \/ Unassign(r) \/ Assign(r) \/ ClearPermissionCache(r) \/ GrantPermissions(r)
           \/ LoadPermissions(r) \/ StorePermissions(r) \/ RevokeKeyWrite(r) \/ Identify(r)
  BY <1>1 DEF Unassign, Assign, ClearPermissionCache, GrantPermissions, LoadPermissions, StorePermissions,
              RevokeKeyWrite, Identify, At
<1>2. CASE \/ RecordFailure(r) \/ FindCode(r) \/ CompareCurrent(r) \/ UseCode(r) \/ Resolve(r) \/ ClearFailures(r) \/ Rotate(r)
           \/ \E t \in Sessions : IssueTokenPair(r, t)
           \/ RevokeWrite(r) \/ PasswordWrite(r) \/ SpendReset(r) \/ RevokeAll(r)
           \/ \E k \in Resets : InsertReset(r, k)
           \/ SecretWrite(r) \/ DropCodes(r) \/ AddCodes(r) \/ EnableWrite(r) \/ DisableWrite(r)
           \/ Die(r)
  <2>1. UNCHANGED access
    BY <1>2 DEF RecordFailure, FindCode, CompareCurrent, UseCode, Resolve, ClearFailures, Rotate, IssueTokenPair, RevokeWrite,
                PasswordWrite, SpendReset, RevokeAll, InsertReset, SecretWrite, DropCodes, AddCodes, EnableWrite,
                DisableWrite, Die
  <2>2. QED BY <1>2, <2>1
<1>3. QED BY <1>1, <1>2 DEF Continues, Continue

LEMMA UserWriters ==
  ASSUME NEW r \in Reqs, Continues(r)
  PROVE  \/ RecordFailure(r) \/ ClearFailures(r) \/ PasswordWrite(r)
         \/ SecretWrite(r) \/ EnableWrite(r) \/ DisableWrite(r)
         \/ UNCHANGED <<user, guesses, proved>> /\ (Die(r) \/ req[r].pc \notin {"fail", "password", "secret", "enable", "disable"})
<1>1. CASE UNCHANGED account /\ req[r].pc \in {"unassign", "assign", "clear", "grant", "load", "store", "revokeKey", "identify"}
  BY <1>1 DEF account
<1>2. CASE \/ FindCode(r) \/ CompareCurrent(r) \/ UseCode(r) \/ Resolve(r) \/ Rotate(r)
           \/ \E t \in Sessions : IssueTokenPair(r, t)
           \/ RevokeWrite(r) \/ SpendReset(r) \/ RevokeAll(r)
           \/ \E k \in Resets : InsertReset(r, k)
           \/ DropCodes(r) \/ AddCodes(r)
  BY <1>2 DEF FindCode, CompareCurrent, UseCode, Resolve, Rotate, IssueTokenPair, RevokeWrite, SpendReset, RevokeAll, InsertReset,
              DropCodes, AddCodes, At, account
<1>3. CASE Die(r)
  BY <1>3 DEF Die, account
<1>4. QED BY <1>1, <1>2, <1>3, AccountOrAccess

LEMMA SessionWriters ==
  ASSUME NEW r \in Reqs, Continues(r)
  PROVE  \/ Rotate(r) \/ RevokeWrite(r) \/ RevokeAll(r) \/ \E t \in Sessions : IssueTokenPair(r, t)
         \/ UNCHANGED session /\ (Die(r) \/ req[r].pc \notin {"rotate", "revoke", "revokeAll"})
<1>1. CASE UNCHANGED account /\ req[r].pc \in {"unassign", "assign", "clear", "grant", "load", "store", "revokeKey", "identify"}
  BY <1>1 DEF account
<1>2. CASE \/ RecordFailure(r) \/ FindCode(r) \/ CompareCurrent(r) \/ UseCode(r) \/ Resolve(r) \/ ClearFailures(r)
           \/ PasswordWrite(r) \/ SpendReset(r) \/ \E k \in Resets : InsertReset(r, k)
           \/ SecretWrite(r) \/ DropCodes(r) \/ AddCodes(r) \/ EnableWrite(r) \/ DisableWrite(r)
  BY <1>2 DEF RecordFailure, FindCode, CompareCurrent, UseCode, Resolve, ClearFailures, PasswordWrite, SpendReset, InsertReset,
              SecretWrite, DropCodes, AddCodes, EnableWrite, DisableWrite, At, account
<1>3. CASE Die(r)
  BY <1>3 DEF Die, account
<1>4. QED BY <1>1, <1>2, <1>3, AccountOrAccess

LEMMA ResetWriters ==
  ASSUME NEW r \in Reqs, Continues(r)
  PROVE  \/ PasswordWrite(r) \/ SpendReset(r) \/ \E k \in Resets : InsertReset(r, k)
         \/ UNCHANGED reset /\ (Die(r) \/ req[r].pc \notin {"password", "spend", "ask"})
<1>1. CASE UNCHANGED account /\ req[r].pc \in {"unassign", "assign", "clear", "grant", "load", "store", "revokeKey", "identify"}
  BY <1>1 DEF account
<1>2. CASE \/ RecordFailure(r) \/ FindCode(r) \/ CompareCurrent(r) \/ UseCode(r) \/ Resolve(r) \/ ClearFailures(r) \/ Rotate(r)
           \/ \E t \in Sessions : IssueTokenPair(r, t)
           \/ RevokeWrite(r) \/ RevokeAll(r)
           \/ SecretWrite(r) \/ DropCodes(r) \/ AddCodes(r) \/ EnableWrite(r) \/ DisableWrite(r)
  BY <1>2 DEF RecordFailure, FindCode, CompareCurrent, UseCode, Resolve, ClearFailures, Rotate, IssueTokenPair, RevokeWrite, RevokeAll,
              SecretWrite, DropCodes, AddCodes, EnableWrite, DisableWrite, At, account
<1>3. CASE Die(r)
  BY <1>3 DEF Die, account
<1>4. QED BY <1>1, <1>2, <1>3, AccountOrAccess

LEMMA CodeWriters ==
  ASSUME NEW r \in Reqs, Continues(r)
  PROVE  \/ UseCode(r) \/ DropCodes(r) \/ AddCodes(r)
         \/ UNCHANGED code /\ (Die(r) \/ req[r].pc \notin {"useCode", "dropCodes", "addCodes"})
<1>1. CASE UNCHANGED account /\ req[r].pc \in {"unassign", "assign", "clear", "grant", "load", "store", "revokeKey", "identify"}
  BY <1>1 DEF account
<1>2. CASE \/ RecordFailure(r) \/ FindCode(r) \/ CompareCurrent(r) \/ Resolve(r) \/ ClearFailures(r) \/ Rotate(r)
           \/ \E t \in Sessions : IssueTokenPair(r, t)
           \/ RevokeWrite(r) \/ PasswordWrite(r) \/ SpendReset(r) \/ RevokeAll(r)
           \/ \E k \in Resets : InsertReset(r, k)
           \/ SecretWrite(r) \/ EnableWrite(r) \/ DisableWrite(r)
  BY <1>2 DEF RecordFailure, FindCode, CompareCurrent, Resolve, ClearFailures, Rotate, IssueTokenPair, RevokeWrite, RevokeAll,
              PasswordWrite, SpendReset, InsertReset, SecretWrite, EnableWrite, DisableWrite, At, account
<1>3. CASE Die(r)
  BY <1>3 DEF Die, account
<1>4. QED BY <1>1, <1>2, <1>3, AccountOrAccess

LEMMA AccessWriters ==
  ASSUME NEW r \in Reqs, Continues(r)
  PROVE  \/ Unassign(r) \/ Assign(r) \/ ClearPermissionCache(r) \/ GrantPermissions(r)
         \/ StorePermissions(r) \/ RevokeKeyWrite(r)
         \/ UNCHANGED access /\ (Die(r) \/ req[r].pc \notin {"unassign", "assign", "clear", "grant", "store", "revokeKey"})
<1>1. CASE \/ RecordFailure(r) \/ FindCode(r) \/ CompareCurrent(r) \/ UseCode(r) \/ Resolve(r) \/ ClearFailures(r) \/ Rotate(r)
           \/ \E t \in Sessions : IssueTokenPair(r, t)
           \/ RevokeWrite(r) \/ PasswordWrite(r) \/ SpendReset(r) \/ RevokeAll(r)
           \/ \E k \in Resets : InsertReset(r, k)
           \/ SecretWrite(r) \/ DropCodes(r) \/ AddCodes(r) \/ EnableWrite(r) \/ DisableWrite(r)
  <2>1. UNCHANGED access
    BY <1>1 DEF RecordFailure, FindCode, CompareCurrent, UseCode, Resolve, ClearFailures, Rotate, IssueTokenPair, RevokeWrite,
                PasswordWrite, SpendReset, RevokeAll, InsertReset, SecretWrite, DropCodes, AddCodes, EnableWrite,
                DisableWrite
  <2>2. req[r].pc \notin {"unassign", "assign", "clear", "grant", "store", "revokeKey"}
    BY <1>1 DEF RecordFailure, FindCode, CompareCurrent, UseCode, Resolve, ClearFailures, Rotate, IssueTokenPair, RevokeWrite,
                PasswordWrite, SpendReset, RevokeAll, InsertReset, SecretWrite, DropCodes, AddCodes, EnableWrite,
                DisableWrite, At
  <2>3. QED BY <2>1, <2>2
<1>2. CASE LoadPermissions(r) \/ Identify(r)
  BY <1>2 DEF LoadPermissions, Identify, At
<1>3. CASE Die(r)
  BY <1>3 DEF Die
<1>4. QED BY <1>1, <1>2, <1>3 DEF Continues, Continue

\* How requests go on.
Moves == {<<"findCode", "useCode">>, <<"useCode", "resolve">>, <<"resolve", "open">>, <<"resolve", "rotate">>,
          <<"rotate", "open">>, <<"open", "open">>, <<"password", "revokeAll">>, <<"password", "spend">>,
          <<"spend", "revokeAll">>, <<"secret", "dropCodes">>, <<"dropCodes", "addCodes">>,
          <<"disable", "dropCodes">>, <<"unassign", "assign">>, <<"assign", "clear">>, <<"load", "store">>,
          <<"identify", "load">>, <<"compare", "password">>}

GoesOn(r, x) ==
    /\ Goto(r, x)
    /\ x = Idle \/ <<req[r].pc, x.pc>> \in Moves
    /\ req[r].pc \in OfLogin /\ x # Idle => x.in = req[r].in /\ x.pc \in OfLogin
    /\ req[r].pc \in {"password", "spend", "secret", "dropCodes", "disable", "unassign"} /\ x # Idle => x.u = req[r].u
    /\ req[r].pc = "compare" /\ x # Idle => x.u = req[r].u /\ x.k = "NONE"
    /\ req[r].pc = "load" /\ x # Idle => x.o = req[r].o
    /\ req[r].pc = "identify" /\ x # Idle => x.o \in Roles /\ cache[x.o] = NoRow

LEMMA DoneGoesOn ==
  ASSUME NEW r \in Reqs, Goto(r, Idle)
  PROVE  GoesOn(r, Idle) /\ Idle \in Request
BY IdleKnows DEF GoesOn

LEMMA ContinuesOn ==
  ASSUME Inv, NEW r \in Reqs, Continues(r)
  PROVE  \E x \in Request : GoesOn(r, x)
<1>1. CASE \/ RecordFailure(r) \/ RevokeWrite(r) \/ RevokeAll(r) \/ AddCodes(r) \/ Die(r)
           \/ \E k \in Resets : InsertReset(r, k)
           \/ ClearPermissionCache(r) \/ GrantPermissions(r) \/ StorePermissions(r) \/ RevokeKeyWrite(r)
  <2>1. Goto(r, Idle)
    BY <1>1 DEF RecordFailure, RevokeWrite, RevokeAll, AddCodes, Die, InsertReset, ClearPermissionCache,
                GrantPermissions, StorePermissions, RevokeKeyWrite, Done
  <2>2. QED BY <2>1, DoneGoesOn
<1>2. CASE FindCode(r)
  BY <1>2, FindCodeEffect DEF GoesOn, Moves, OfLogin
<1>3. CASE UseCode(r)
  BY <1>3, UseCodeEffect DEF CodeUsed, GoesOn, Moves, OfLogin
<1>4. CASE Resolve(r)
  BY <1>4, ResolveEffect DEF GoesOn, Moves, OfLogin
<1>5. CASE ClearFailures(r)
  BY <1>5, ClearFailuresEffect DEF FailuresCleared, GoesOn, Moves, OfLogin
<1>6. CASE Rotate(r)
  BY <1>6, RotateEffect DEF Rotated, GoesOn, Moves, OfLogin
<1>7. ASSUME NEW t \in Sessions, IssueTokenPair(r, t) PROVE \E x \in Request : GoesOn(r, x)
  BY <1>7, IssueTokenPairEffect DEF TokenIssued, GoesOn, Moves, OfLogin
<1>8. CASE PasswordWrite(r)
  <2>1. PICK u \in Users, k \in Resets \cup {"NONE"}, row \in UserRow, x \in Request : PasswordWritten(r, u, k, row, x)
    BY <1>8, PasswordWriteEffect
  <2>2. Goto(r, x) /\ req[r].u = u /\ req[r].pc = "password" /\ x.pc \in {"revokeAll", "spend"} /\ x.u = u
    BY <2>1 DEF PasswordWritten
  <2>3. QED BY <2>2 DEF GoesOn, Moves, OfLogin
<1>9. CASE SpendReset(r)
  BY <1>9, SpendResetEffect DEF ResetSpent, GoesOn, Moves, OfLogin
<1>10. CASE SecretWrite(r) \/ EnableWrite(r) \/ DisableWrite(r)
  <2>1. PICK u \in Users, s \in Secrets \cup {"NONE"}, row \in UserRow, x \in Request : FactorWritten(r, u, s, row, x)
    BY <1>10, FactorWriteEffect
  <2>2. /\ Goto(r, x) /\ req[r].u = u /\ req[r].pc \in {"secret", "enable", "disable"}
        /\ x = Idle \/ (req[r].pc \in {"secret", "disable"} /\ x.pc = "dropCodes" /\ x.u = u)
    BY <2>1 DEF FactorWritten
  <2>3. QED BY <2>2 DEF GoesOn, Moves, OfLogin
<1>11. CASE DropCodes(r)
  BY <1>11, DropCodesEffect DEF CodesDropped, GoesOn, Moves, OfLogin
<1>12. CASE Unassign(r)
  <2>1. PICK u \in Users, x \in Request :
          Goto(r, x) /\ req[r].pc = "unassign" /\ req[r].u = u /\ x.pc = "assign" /\ x.u = u
    BY <1>12, UnassignEffect
  <2>2. QED BY <2>1 DEF GoesOn, Moves, OfLogin
<1>13. CASE Assign(r)
  <2>1. PICK x \in Request : Goto(r, x) /\ req[r].pc = "assign" /\ x.pc \in {"idle", "clear"}
    BY <1>13, AssignEffect
  <2>2. x.pc = "idle" => x = Idle
    BY DEF Request, Idle
  <2>3. QED BY <2>1, <2>2 DEF GoesOn, Moves, OfLogin
<1>14. CASE LoadPermissions(r)
  BY <1>14, LoadPermissionsEffect DEF GoesOn, Moves, OfLogin
<1>15. CASE Identify(r)
  BY <1>15, IdentifyEffect DEF GoesOn, Moves, OfLogin
<1>16. CASE CompareCurrent(r)
  BY <1>16, CompareCurrentEffect DEF GoesOn, Moves, OfLogin
<1>17. QED BY <1>1, <1>2, <1>3, <1>4, <1>5, <1>6, <1>7, <1>8, <1>9, <1>10, <1>11, <1>12, <1>13, <1>14, <1>15, <1>16
           DEF Continues, Continue

-----------------------------------------------------------------------------
\* Requests that take turns keep doing so.

OwnersStay ==
    /\ \A t \in Sessions : Exists(session[t]) => session'[t].of = session[t].of
    /\ \A k \in Keys : Exists(key[k]) => key'[k].of = key[k].of

LEMMA ContinueOwners ==
  ASSUME Inv, NEW r \in Reqs, Continues(r)
  PROVE  OwnersStay
<1>1. \A t \in Sessions : Exists(session[t]) => session'[t].of = session[t].of
  <2>1. CASE Rotate(r) \/ RevokeWrite(r) \/ RevokeAll(r)
    <3>1. SomeEnd
      BY <2>1, RotateEffect, RevokeWriteEffect, RevokeAllEffect, EndsSome DEF Rotated
    <3>2. QED BY <3>1 DEF SomeEnd
  <2>2. ASSUME NEW t \in Sessions, IssueTokenPair(r, t)
        PROVE  \A v \in Sessions : Exists(session[v]) => session'[v].of = session[v].of
    BY <2>2, IssueTokenPairEffect DEF TokenIssued, Inv, TypeOK, Exists
  <2>3. QED BY <2>1, <2>2, SessionWriters
<1>2. \A k \in Keys : Exists(key[k]) => key'[k].of = key[k].of
  <2>1. CASE RevokeKeyWrite(r)
    BY <2>1, RevokeKeyEffect DEF Inv, TypeOK
  <2>2. CASE Unassign(r) \/ Assign(r) \/ ClearPermissionCache(r) \/ GrantPermissions(r) \/ StorePermissions(r)
    <3>1. UNCHANGED key
      BY <2>2 DEF Unassign, Assign, ClearPermissionCache, GrantPermissions, StorePermissions
    <3>2. QED BY <3>1
  <2>3. QED BY <2>1, <2>2, AccessWriters DEF access
<1>3. QED BY <1>1, <1>2 DEF OwnersStay

LEMMA LocksKept ==
  ASSUME NEW x \in Request, Knows(x), OwnersStay
  PROVE  Locks(x)' = Locks(x)
<1>1. x.pc = "revoke" => session'[x.t].of = session[x.t].of
  BY RequestShape DEF Knows, OwnersStay
<1>2. x.pc = "revokeKey" => key'[x.k].of = key[x.k].of
  BY RequestShape DEF Knows, OwnersStay
<1>3. QED BY <1>1, <1>2 DEF Locks, OfLogin, OfRoles, OfUser, OfRole

LEMMA LocksStay ==
  ASSUME Inv, OwnersStay, NEW q \in Reqs, req'[q] = req[q]
  PROVE  Locks(req[q])' = Locks(req[q])
<1>1. PICK y \in Request : y = req[q] /\ Knows(y)
  BY DEF Inv, TypeOK
<1>2. Locks(y)' = Locks(y)
  BY <1>1, LocksKept
<1>3. QED BY <1>1, <1>2

\* A request that goes on locks no more than before.
LEMMA LocksShrink ==
  ASSUME Inv, NEW r \in Reqs, NEW x \in Request, GoesOn(r, x)
  PROVE  Locks(req[r])' \subseteq Locks(req[r])
<1>1. PICK y \in Request : y = req[r]
  BY DEF Inv, TypeOK
<1>2. req'[r] = x
  BY RequestStep DEF GoesOn, Inv
<1>3. CASE x = Idle
  <2>1. Locks(Idle)' = {}
    BY DEF Locks, Idle, OfLogin, OfRoles, OfUser, OfRole
  <2>2. QED BY <1>2, <1>3, <2>1
<1>4. CASE x # Idle
  <2>0. /\ <<y.pc, x.pc>> \in Moves
        /\ y.pc \in OfLogin => x.in = y.in /\ x.pc \in OfLogin
        /\ y.pc \in {"compare", "password", "spend", "secret", "dropCodes", "disable", "unassign"} => x.u = y.u
        /\ y.pc = "load" => x.o = y.o
        /\ y.pc = "identify" => x.o \in Roles
    BY <1>1, <1>4 DEF GoesOn
  <2>1. Locks(x)' \subseteq Locks(y)
    <3>1. CASE y.pc \in OfLogin
      BY <2>0, <3>1 DEF Locks, OfLogin, OfRoles, OfUser, OfRole
    <3>2. CASE y.pc \in {"compare", "password", "spend", "secret", "dropCodes", "disable"}
      <4>1. x.pc \in {"password", "revokeAll", "spend", "dropCodes", "addCodes"} /\ x.u = y.u
        BY <2>0, <3>2 DEF Moves
      <4>2. QED BY <3>2, <4>1 DEF Locks, OfLogin, OfRoles, OfUser, OfRole
    <3>3. CASE y.pc \in {"unassign", "assign"}
      <4>1. (x.pc = "assign" /\ x.u = y.u) \/ x.pc = "clear"
        BY <2>0, <3>3 DEF Moves
      <4>2. QED BY <3>3, <4>1 DEF Locks, OfLogin, OfRoles, OfUser, OfRole
    <3>4. CASE y.pc \in {"load", "identify"}
      <4>1. (x.pc = "store" /\ x.o = y.o /\ y.pc = "load") \/ (x.pc = "load" /\ x.o \in Roles /\ y.pc = "identify")
        BY <2>0, <3>4 DEF Moves
      <4>2. QED BY <3>4, <4>1 DEF Locks, OfLogin, OfRoles, OfUser, OfRole
    <3>5. QED BY <2>0, <3>1, <3>2, <3>3, <3>4 DEF Moves, OfLogin
  <2>2. QED BY <1>1, <1>2, <2>1
<1>5. QED BY <1>3, <1>4

LEMMA TurnsContinue ==
  ASSUME Inv, Turns, NEW r \in Reqs, Continues(r)
  PROVE  Turns'
<1>1. PICK x \in Request : GoesOn(r, x)
  BY ContinuesOn
<1>2. \A q \in Reqs \ {r} : req'[q] = req[q]
  BY <1>1, RequestStep DEF GoesOn, Inv
<1>3. \A q \in Reqs \ {r} : Locks(req[q])' = Locks(req[q])
  BY <1>2, ContinueOwners, LocksStay
<1>4. Locks(req[r])' \subseteq Locks(req[r])
  BY <1>1, LocksShrink
<1>5. QED BY <1>3, <1>4 DEF Turns

LEMMA TurnsStart ==
  ASSUME Inv, Turns, ~MayOverlap, NEW r \in Reqs, NEW x \in Request, Starts(r, x)
  PROVE  Turns'
<1>1. OwnersStay
  BY DEF Starts, access, OwnersStay
<1>2. req'[r] = x /\ \A q \in Reqs \ {r} : req'[q] = req[q]
  BY RequestStep DEF Starts, Inv
<1>3. \A q \in Reqs \ {r} : Locks(req[q])' = Locks(req[q])
  BY <1>1, <1>2, LocksStay
<1>4. Locks(x)' = Locks(x)
  BY <1>1, LocksKept DEF Starts
<1>5. Locks(req[r])' = Locks(x)
  BY <1>2, <1>4
<1>6. \A q \in Reqs : Locks(req[q]) \cap Locks(x) = {}
  BY DEF Starts
<1>7. QED BY <1>3, <1>5, <1>6 DEF Turns

LEMMA TurnsStay ==
  ASSUME Inv, Turns, UNCHANGED req, OwnersStay
  PROVE  Turns'
<1>1. \A q \in Reqs : Locks(req[q])' = Locks(req[q])
  BY LocksStay
<1>2. QED BY <1>1 DEF Turns

\* The steps that no request takes.
Outside ==
    \/ KeyStored
    \/ \E u \in Users : LockExpires(u) \/ Deactivate(u)
    \/ \E t \in Sessions : SessionExpires(t)
    \/ \E o \in Roles : EntryExpires(o) \/ \E p \in Perms : RevokeGrant(o, p)

LEMMA NextCases ==
  ASSUME Inv, Next
  PROVE  /\ UNCHANGED mode
         /\ \/ \E r \in Reqs : Continues(r) \/ \E x \in Request : Starts(r, x)
            \/ Outside
BY BeginCases DEF Next, Outside, Continues

LEMMA OutsideOwners ==
  ASSUME Inv, Outside
  PROVE  OwnersStay /\ UNCHANGED req
<1>1. CASE KeyStored
  <2>1. PICK k \in Keys, row \in [of : Users, live : BOOLEAN] : key[k] = NoRow /\ key' = [key EXCEPT ![k] = row]
    BY <1>1 DEF KeyStored
  <2>2. UNCHANGED <<session, req>>
    BY <1>1 DEF KeyStored, account
  <2>3. QED BY <2>1, <2>2 DEF OwnersStay, Exists, Inv, TypeOK
<1>2. ASSUME NEW u \in Users, LockExpires(u) \/ Deactivate(u)
      PROVE  OwnersStay /\ UNCHANGED req
  BY <1>2 DEF LockExpires, Deactivate, OwnersStay, access
<1>3. ASSUME NEW t \in Sessions, SessionExpires(t)
      PROVE  OwnersStay /\ UNCHANGED req
  <2>1. SomeEnd /\ UNCHANGED <<key, req>>
    BY <1>3, EndsEffect, EndsSome DEF SessionExpires, Live, access
  <2>2. QED BY <2>1 DEF SomeEnd, OwnersStay
<1>4. ASSUME NEW o \in Roles, EntryExpires(o) \/ \E p \in Perms : RevokeGrant(o, p)
      PROVE  OwnersStay /\ UNCHANGED req
  BY <1>4 DEF EntryExpires, RevokeGrant, OwnersStay, account
<1>5. QED BY <1>1, <1>2, <1>3, <1>4 DEF Outside

LEMMA TurnsStep ==
  ASSUME Inv, Turns, ~MayOverlap, Next
  PROVE  Turns'
<1>1. CASE Outside
  BY <1>1, OutsideOwners, TurnsStay
<1>2. QED BY <1>1, NextCases, TurnsContinue, TurnsStart

\* Two requests that lock the same thing are one.
LEMMA Own ==
  ASSUME Turns, NEW q \in Reqs, NEW r \in Reqs, NEW z, z \in Locks(req[q]), z \in Locks(req[r])
  PROVE  q = r
BY DEF Turns

LEMMA LockOf ==
  ASSUME NEW x \in Request
  PROVE  /\ x.pc \in OfLogin => Locks(x) = {x.in.u}
         /\ x.pc \in OfUser => Locks(x) = {x.u}
         /\ x.pc \in OfRoles => Locks(x) = {x.u} \cup Roles
         /\ x.pc \in OfRole => Locks(x) = {x.o}
         /\ x.pc = "clear" => Locks(x) = Roles
         /\ x.pc = "revoke" => Locks(x) = {session[x.t].of}
BY DEF Locks, OfLogin, OfRoles, OfUser, OfRole

\* The requests at these labels are the ones that were.
SameAt(labels) == \A q \in Reqs : req[q].pc \in labels \/ req'[q].pc \in labels => req'[q] = req[q]

LEMMA Elsewhere ==
  ASSUME Inv, NEW r \in Reqs, NEW x \in Request, Goto(r, x), NEW labels, req[r].pc \notin labels, x.pc \notin labels
  PROVE  SameAt(labels)
BY RequestStep DEF SameAt, Inv

LEMMA GoesElsewhere ==
  ASSUME Inv, NEW r \in Reqs, Continues(r), NEW labels, req[r].pc \notin labels, "idle" \notin labels,
         \A m \in Moves : m[2] \in labels => m[1] # req[r].pc
  PROVE  SameAt(labels)
<1>1. PICK x \in Request : GoesOn(r, x)
  BY ContinuesOn
<1>2. x.pc \notin labels
  <2>1. CASE x = Idle
    BY <2>1, IdleKnows
  <2>2. CASE x # Idle
    <3>1. PICK m \in Moves : m = <<req[r].pc, x.pc>>
      BY <1>1, <2>2 DEF GoesOn
    <3>2. m[1] = req[r].pc /\ m[2] = x.pc
      BY <3>1
    <3>3. QED BY <3>2
  <2>3. QED BY <2>1, <2>2
<1>3. QED BY <1>1, <1>2, Elsewhere DEF GoesOn

LEMMA UserWritten ==
  ASSUME Inv, NEW u \in Users, NEW row, user' = [user EXCEPT ![u] = row]
  PROVE  user'[u] = row /\ \A v \in Users \ {u} : user'[v] = user[v]
BY DEF Inv, TypeOK

LEMMA GuessesWritten ==
  ASSUME Inv, NEW u \in Users, NEW g, guesses' = [guesses EXCEPT ![u] = g]
  PROVE  guesses'[u] = g /\ \A v \in Users \ {u} : guesses'[v] = guesses[v]
BY DEF Inv, TypeOK

-----------------------------------------------------------------------------
\* Failures are counted.

LEMMA LockQuiet ==
  ASSUME Inv, LockInv, SameAt({"fail"}), UNCHANGED guesses,
         \A u \in Users : user'[u].failures = user[u].failures /\ (user'[u].locked => user[u].locked)
  PROVE  LockInv'
<1>1. ASSUME NEW u \in Users PROVE (Counted(u) \/ \E r \in Reqs : Failing(req[r], u))'
  <2>1. CASE Counted(u)
    BY <2>1 DEF Counted
  <2>2. ASSUME NEW r \in Reqs, Failing(req[r], u)
        PROVE  Failing(req[r], u)'
    BY <2>2 DEF Failing, SameAt
  <2>3. QED BY <2>1, <2>2 DEF LockInv
<1>2. ASSUME NEW r \in Reqs, req'[r].pc = "fail"
      PROVE  /\ guesses'[req'[r].u] = req'[r].n
             /\ req'[r].n = user'[req'[r].u].failures + 1
             /\ ~user'[req'[r].u].locked
  <2>1. req'[r] = req[r]
    BY <1>2 DEF SameAt
  <2>2. req[r].u \in Users
    BY <1>2, <2>1, RequestShape DEF Inv, TypeOK
  <2>3. QED BY <1>2, <2>1, <2>2 DEF LockInv
<1>3. QED BY <1>1, <1>2 DEF LockInv

\* A query of r writes the row of the user it locks, and leaves the failures counted.
LEMMA LockWrite ==
  ASSUME Inv, Turns, LockInv, NEW r \in Reqs, NEW x \in Request, Goto(r, x), x.pc # "fail",
         NEW u \in Users, u \in Locks(req[r]), req[r].pc = "fail" => req[r].u = u,
         \A v \in Users \ {u} : user'[v] = user[v] /\ guesses'[v] = guesses[v],
         guesses'[u] = user'[u].failures, user'[u].locked => guesses'[u] = 0
  PROVE  LockInv'
<1>1. req'[r] = x /\ \A q \in Reqs \ {r} : req'[q] = req[q]
  BY RequestStep DEF Inv
<1>2. ASSUME NEW v \in Users PROVE (Counted(v) \/ \E q \in Reqs : Failing(req[q], v))'
  <2>1. CASE v = u
    BY <2>1 DEF Counted
  <2>2. CASE v # u /\ Counted(v)
    BY <2>2 DEF Counted
  <2>3. ASSUME v # u, NEW q \in Reqs, Failing(req[q], v)
        PROVE  Failing(req[q], v)'
    BY <1>1, <2>3 DEF Failing
  <2>4. QED BY <2>1, <2>2, <2>3 DEF LockInv
<1>3. ASSUME NEW q \in Reqs, req'[q].pc = "fail"
      PROVE  /\ guesses'[req'[q].u] = req'[q].n
             /\ req'[q].n = user'[req'[q].u].failures + 1
             /\ ~user'[req'[q].u].locked
  <2>1. q # r /\ req'[q] = req[q]
    BY <1>1, <1>3
  <2>2. PICK y \in Request : y = req[q] /\ y.pc = "fail" /\ y.u \in Users
    BY <1>3, <2>1, RequestShape DEF Inv, TypeOK
  <2>3. y.u \in Locks(req[q])
    BY <2>2, LockOf DEF OfUser
  <2>4. y.u # u
    BY <2>1, <2>3, Own
  <2>5. QED BY <2>1, <2>2, <2>4 DEF LockInv
<1>4. QED BY <1>2, <1>3 DEF LockInv

\* Nobody else counts a failure of the user that r locks.
LEMMA CountedNow ==
  ASSUME Inv, Turns, LockInv, NEW r \in Reqs, NEW u \in Users, u \in Locks(req[r]), req[r].pc # "fail"
  PROVE  Counted(u)
<1>1. ASSUME NEW q \in Reqs, Failing(req[q], u)
      PROVE  FALSE
  <2>1. PICK y \in Request : y = req[q] /\ y.pc = "fail" /\ y.u = u
    BY <1>1 DEF Failing, Inv, TypeOK
  <2>2. u \in Locks(req[q])
    BY <2>1, LockOf DEF OfUser
  <2>3. QED BY <2>1, <2>2, Own
<1>2. QED BY <1>1 DEF LockInv

LEMMA LockRecord ==
  ASSUME Inv, Turns, LockInv, NEW r \in Reqs, RecordFailure(r)
  PROVE  LockInv'
<1>1. PICK u \in Users, n \in 1..MaxFailures, row \in UserRow, g \in 0..(MaxFailures + 1) : FailureRecorded(r, u, n, row, g)
  BY RecordFailureEffect
<1>2. /\ req[r].pc = "fail" /\ req[r].u = u /\ req[r].n = n
      /\ row.failures = IF n >= MaxFailures THEN 0 ELSE n
      /\ row.locked <=> n >= MaxFailures
      /\ g = IF n >= MaxFailures THEN 0 ELSE guesses[u]
  BY <1>1 DEF FailureRecorded
<1>21. user' = [user EXCEPT ![u] = row] /\ guesses' = [guesses EXCEPT ![u] = g]
  BY <1>1 DEF FailureRecorded
<1>22. user'[u] = row /\ \A v \in Users \ {u} : user'[v] = user[v]
  BY <1>21, UserWritten
<1>23. guesses'[u] = g /\ \A v \in Users \ {u} : guesses'[v] = guesses[v]
  BY <1>21, GuessesWritten
<1>3. user'[u] = row /\ guesses'[u] = g /\ \A v \in Users \ {u} : user'[v] = user[v] /\ guesses'[v] = guesses[v]
  BY <1>22, <1>23
<1>4. guesses[u] = n
  BY <1>2 DEF LockInv
<1>5. g = row.failures /\ (row.locked => g = 0)
  BY <1>2, <1>4
<1>6. u \in Locks(req[r])
  BY <1>2, LockOf DEF OfUser, Inv, TypeOK
<1>7. Goto(r, Idle) /\ Idle \in Request /\ Idle.pc # "fail"
  BY IdleKnows DEF RecordFailure, Done
<1>8. QED BY <1>2, <1>3, <1>5, <1>6, <1>7, LockWrite

LEMMA LockClear ==
  ASSUME Inv, Turns, LockInv, NEW r \in Reqs, ClearFailures(r)
  PROVE  LockInv'
<1>1. PICK u \in Users, row \in UserRow, x \in Request : FailuresCleared(r, u, row, x)
  BY ClearFailuresEffect
<1>2. /\ req[r].pc = "open" /\ req[r].in.u = u /\ row.failures = 0 /\ row.locked = FALSE /\ Goto(r, x)
      /\ x = Idle \/ x.pc = "open"
  BY <1>1 DEF FailuresCleared
<1>3. user'[u] = row /\ guesses'[u] = 0 /\ \A v \in Users \ {u} : user'[v] = user[v] /\ guesses'[v] = guesses[v]
  BY <1>1, UserWritten, GuessesWritten DEF FailuresCleared
<1>4. u \in Locks(req[r])
  BY <1>2, LockOf DEF OfLogin, Inv, TypeOK
<1>5. x.pc # "fail" /\ req[r].pc # "fail"
  BY <1>2, IdleKnows
<1>6. QED BY <1>2, <1>3, <1>4, <1>5, LockWrite

LEMMA LockPassword ==
  ASSUME Inv, Turns, LockInv, NEW r \in Reqs, PasswordWrite(r)
  PROVE  LockInv'
<1>1. PICK u \in Users, k \in Resets \cup {"NONE"}, row \in UserRow, x \in Request : PasswordWritten(r, u, k, row, x)
  BY PasswordWriteEffect
<1>2. /\ req[r].pc = "password" /\ req[r].u = u /\ Goto(r, x) /\ x.pc # "fail"
  BY <1>1 DEF PasswordWritten
<1>3. user'[u] = row /\ \A v \in Users \ {u} : user'[v] = user[v]
  BY <1>1, UserWritten DEF PasswordWritten
<1>4. u \in Locks(req[r])
  BY <1>2, LockOf DEF OfUser, Inv, TypeOK
<1>5. Counted(u)
  BY <1>2, <1>4, CountedNow
<1>6. /\ guesses'[u] = row.failures /\ (row.locked => guesses'[u] = 0)
      /\ \A v \in Users \ {u} : guesses'[v] = guesses[v]
  <2>1. CASE k = "NONE"
    BY <1>1, <1>5, <2>1 DEF PasswordWritten, Counted
  <2>2. CASE k # "NONE"
    <3>1. guesses' = [guesses EXCEPT ![u] = 0] /\ row.failures = 0 /\ row.locked = FALSE
      BY <1>1, <2>2 DEF PasswordWritten
    <3>2. QED BY <3>1, GuessesWritten
  <2>3. QED BY <2>1, <2>2
<1>7. QED BY <1>2, <1>3, <1>4, <1>6, LockWrite

LEMMA LockFactor ==
  ASSUME Inv, LockInv, NEW r \in Reqs, SecretWrite(r) \/ EnableWrite(r) \/ DisableWrite(r)
  PROVE  LockInv'
<1>1. PICK u \in Users, s \in Secrets \cup {"NONE"}, row \in UserRow, x \in Request : FactorWritten(r, u, s, row, x)
  BY FactorWriteEffect
<1>2. /\ req[r].pc # "fail" /\ Goto(r, x) /\ x.pc # "fail"
      /\ row.failures = user[u].failures /\ row.locked = user[u].locked
  BY <1>1, IdleKnows DEF FactorWritten
<1>3. user'[u] = row /\ \A v \in Users \ {u} : user'[v] = user[v]
  BY <1>1, UserWritten DEF FactorWritten
<1>4. UNCHANGED guesses
  BY DEF SecretWrite, EnableWrite, DisableWrite
<1>5. SameAt({"fail"})
  BY <1>2, Elsewhere
<1>6. \A v \in Users : user'[v].failures = user[v].failures /\ (user'[v].locked => user[v].locked)
  BY <1>2, <1>3
<1>7. QED BY <1>4, <1>5, <1>6, LockQuiet

LEMMA LockStart ==
  ASSUME Inv, Turns, ~MayOverlap, LockInv, NEW r \in Reqs, NEW x \in Request, Starts(r, x)
  PROVE  LockInv'
<1>1. /\ req[r] = Idle /\ Goto(r, x) /\ UNCHANGED user
      /\ \A q \in Reqs : Locks(req[q]) \cap Locks(x) = {}
  BY DEF Starts
<1>2. CASE x.pc # "fail"
  <2>1. UNCHANGED guesses
    BY <1>2 DEF Starts
  <2>2. SameAt({"fail"})
    BY <1>1, <1>2, IdleKnows, Elsewhere
  <2>3. QED BY <1>1, <2>1, <2>2, LockQuiet
<1>3. CASE x.pc = "fail"
  <2>1. PICK u \in Users : u = x.u /\ x.n = user[u].failures + 1 /\ ~user[u].locked
    BY <1>3, RequestShape DEF Starts, Begun
  <2>2. PICK g \in 0..(MaxFailures + 1) :
          guesses' = [guesses EXCEPT ![u] = g] /\ (guesses[u] <= MaxFailures => g = guesses[u] + 1)
    BY <1>3, <2>1 DEF Starts
  <2>3. guesses'[u] = g /\ \A v \in Users \ {u} : guesses'[v] = guesses[v]
    BY <2>2, GuessesWritten
  <2>4. u \in Locks(x)
    BY <1>3, <2>1, LockOf DEF OfUser
  <2>5. ASSUME NEW q \in Reqs, Failing(req[q], u)
        PROVE  FALSE
    <3>1. PICK y \in Request : y = req[q] /\ y.pc = "fail" /\ y.u = u
      BY <2>5 DEF Failing, Inv, TypeOK
    <3>2. u \in Locks(req[q])
      BY <3>1, LockOf DEF OfUser
    <3>3. QED BY <1>1, <2>4, <3>2
  <2>6. guesses[u] = user[u].failures
    BY <2>5 DEF LockInv, Counted
  <2>7. user[u].failures \in 0..(MaxFailures - 1)
    BY Rows DEF Inv, UserRow
  <2>8. g = x.n
    BY <2>1, <2>2, <2>6, <2>7, Limits
  <2>9. req'[r] = x /\ \A q \in Reqs \ {r} : req'[q] = req[q]
    BY <1>1, RequestStep DEF Inv
  <2>10. ASSUME NEW v \in Users PROVE (Counted(v) \/ \E q \in Reqs : Failing(req[q], v))'
    <3>1. CASE v = u
      <4>1. Failing(x, u)
        BY <1>3, <2>1 DEF Failing
      <4>2. Failing(req[r], u)'
        BY <2>9, <4>1 DEF Failing
      <4>3. QED BY <3>1, <4>2
    <3>2. CASE v # u /\ Counted(v)
      BY <1>1, <2>3, <3>2 DEF Counted
    <3>3. ASSUME NEW q \in Reqs, Failing(req[q], v)
          PROVE  Failing(req[q], v)'
      <4>1. q # r
        BY <1>1, <3>3, IdleKnows DEF Failing
      <4>2. QED BY <2>9, <3>3, <4>1 DEF Failing
    <3>4. QED BY <3>1, <3>2, <3>3 DEF LockInv
  <2>11. ASSUME NEW q \in Reqs, req'[q].pc = "fail"
         PROVE  /\ guesses'[req'[q].u] = req'[q].n
                /\ req'[q].n = user'[req'[q].u].failures + 1
                /\ ~user'[req'[q].u].locked
    <3>1. CASE q = r
      BY <1>1, <2>1, <2>3, <2>8, <2>9, <3>1
    <3>2. CASE q # r
      <4>1. PICK y \in Request : y = req[q] /\ y = req'[q] /\ y.pc = "fail" /\ y.u \in Users
        BY <2>9, <2>11, <3>2, RequestShape DEF Inv, TypeOK
      <4>2. y.u # u
        BY <2>5, <4>1 DEF Failing
      <4>3. QED BY <1>1, <2>3, <4>1, <4>2 DEF LockInv
    <3>3. QED BY <3>1, <3>2
  <2>12. QED BY <2>10, <2>11 DEF LockInv
<1>4. QED BY <1>2, <1>3

LEMMA LockOutside ==
  ASSUME Inv, LockInv, Outside
  PROVE  LockInv'
<1>1. SameAt({"fail"})
  BY OutsideOwners DEF SameAt
<1>2. UNCHANGED guesses
  BY DEF Outside, KeyStored, LockExpires, Deactivate, SessionExpires, EntryExpires, RevokeGrant, account
<1>3. ASSUME NEW u \in Users, LockExpires(u) \/ Deactivate(u)
      PROVE  LockInv'
  <2>1. PICK row \in UserRow : /\ user' = [user EXCEPT ![u] = row]
                               /\ row.failures = user[u].failures /\ (row.locked => user[u].locked)
    BY <1>3, UserFades
  <2>2. user'[u] = row /\ \A v \in Users \ {u} : user'[v] = user[v]
    BY <2>1, UserWritten
  <2>3. \A v \in Users : user'[v].failures = user[v].failures /\ (user'[v].locked => user[v].locked)
    BY <2>1, <2>2
  <2>4. QED BY <1>1, <1>2, <2>3, LockQuiet
<1>4. CASE UNCHANGED user
  BY <1>1, <1>2, <1>4, LockQuiet
<1>5. QED BY <1>3, <1>4 DEF Outside, KeyStored, SessionExpires, EntryExpires, RevokeGrant, account

LEMMA LockStep ==
  ASSUME Inv, Turns, Calm, LockInv, Next
  PROVE  LockInv'
<1>1. ASSUME NEW r \in Reqs, Continues(r)
      PROVE  LockInv'
  <2>1. CASE UNCHANGED <<user, guesses>> /\ req[r].pc # "fail"
    <3>1. SameAt({"fail"})
      <4>1. \A m \in Moves : m[2] \in {"fail"} => m[1] # req[r].pc
        BY DEF Moves
      <4>2. QED BY <1>1, <2>1, <4>1, GoesElsewhere
    <3>2. QED BY <2>1, <3>1, LockQuiet
  <2>2. ~Die(r)
    BY DEF Die, Calm
  <2>3. QED BY <1>1, <2>1, <2>2, UserWriters, LockRecord, LockClear, LockPassword, LockFactor
<1>2. QED BY <1>1, NextCases, LockStart, LockOutside DEF Calm

-----------------------------------------------------------------------------
\* Sessions and logins go back to the present password.

LEMMA PasswordsSame ==
  ASSUME Inv, NEW r \in Reqs, Continues(r), ~PasswordWrite(r)
  PROVE  \A u \in Users : user'[u].password = user[u].password
<1>1. CASE RecordFailure(r)
  <2>1. PICK u \in Users, n \in 1..MaxFailures, row \in UserRow, g \in 0..(MaxFailures + 1) : FailureRecorded(r, u, n, row, g)
    BY <1>1, RecordFailureEffect
  <2>2. user' = [user EXCEPT ![u] = row] /\ row.password = user[u].password
    BY <2>1 DEF FailureRecorded
  <2>3. QED BY <2>2, UserWritten
<1>2. CASE ClearFailures(r)
  <2>1. PICK u \in Users, row \in UserRow, x \in Request : FailuresCleared(r, u, row, x)
    BY <1>2, ClearFailuresEffect
  <2>2. user' = [user EXCEPT ![u] = row] /\ row.password = user[u].password
    BY <2>1 DEF FailuresCleared
  <2>3. QED BY <2>2, UserWritten
<1>3. CASE SecretWrite(r) \/ EnableWrite(r) \/ DisableWrite(r)
  <2>1. PICK u \in Users, s \in Secrets \cup {"NONE"}, row \in UserRow, x \in Request : FactorWritten(r, u, s, row, x)
    BY <1>3, FactorWriteEffect
  <2>2. row.password = user[u].password
    BY <2>1 DEF FactorWritten
  <2>3. user'[u] = row /\ \A v \in Users \ {u} : user'[v] = user[v]
    BY <2>1, UserWritten DEF FactorWritten
  <2>4. QED BY <2>2, <2>3
<1>4. QED BY <1>1, <1>2, <1>3, UserWriters

LEMMA SessionsEnd ==
  ASSUME Inv, NEW r \in Reqs, Continues(r), ~\E t \in Sessions : IssueTokenPair(r, t)
  PROVE  SomeEnd
<1>1. CASE UNCHANGED session
  BY <1>1 DEF SomeEnd, Inv, TypeOK
<1>2. QED BY <1>1, SessionWriters, RotateEffect, RevokeWriteEffect, RevokeAllEffect, EndsSome DEF Rotated

\* No session is opened, and a request that ended sessions has ended them or goes on.
LEMMA PasswordMove ==
  ASSUME Inv, PasswordInv, NEW r \in Reqs, NEW x \in Request, GoesOn(r, x),
         \A u \in Users : user'[u].password = user[u].password, SomeEnd,
         \A u \in Users : Ending(req[r], u) =>
           Ending(x, u) \/ \A t \in Sessions : Exists(session'[t]) /\ session'[t].of = u => ~session'[t].live
  PROVE  PasswordInv'
<1>1. req'[r] = x /\ \A q \in Reqs \ {r} : req'[q] = req[q]
  BY RequestStep DEF Inv, GoesOn
<1>2. ASSUME NEW t \in Sessions, Exists(session'[t]), session'[t].live
      PROVE  \/ session'[t].password = user'[session'[t].of].password
             \/ \E q \in Reqs : Ending(req[q], session[t].of)'
  <2>1. Live(t) /\ session'[t].of = session[t].of /\ session'[t].password = session[t].password
    BY <1>2 DEF SomeEnd, Live
  <2>2. PICK u \in Users : u = session[t].of
    BY <2>1, Rows DEF Inv, SessionRow, Live
  <2>3. CASE session[t].password = user[u].password
    BY <2>1, <2>2, <2>3
  <2>4. ASSUME NEW q \in Reqs, Ending(req[q], u)
        PROVE  Ending(req[q], session[t].of)'
    <3>1. Ending(req'[q], u)
      BY <1>1, <1>2, <2>1, <2>2, <2>4 DEF Ending
    <3>2. session'[t].of = u
      BY <2>1, <2>2
    <3>3. QED BY <3>1, <3>2 DEF Ending
  <2>5. QED BY <2>1, <2>2, <2>3, <2>4 DEF PasswordInv
<1>3. ASSUME NEW q \in Reqs, req'[q].pc \in OfLogin
      PROVE  req'[q].in.password = user'[req'[q].in.u].password
  <2>1. req[q].pc \in OfLogin /\ req'[q].in = req[q].in
    <3>1. CASE q = r
      <4>1. x # Idle
        BY <1>1, <1>3, <3>1, IdleKnows DEF OfLogin
      <4>2. req[r].pc \in OfLogin
        BY <1>1, <1>3, <3>1, <4>1 DEF GoesOn, Moves, OfLogin
      <4>3. QED BY <1>1, <3>1, <4>1, <4>2 DEF GoesOn
    <3>2. CASE q # r
      BY <1>1, <1>3, <3>2
    <3>3. QED BY <3>1, <3>2
  <2>2. req[q].in.u \in Users
    BY <2>1, RequestShape, LoginShape DEF Inv, TypeOK
  <2>3. QED BY <2>1, <2>2 DEF PasswordInv
<1>4. QED BY <1>2, <1>3 DEF PasswordInv, Live, Exists

\* Another request than r logs nobody in whom r locks.
LEMMA OtherLogin ==
  ASSUME Inv, Turns, NEW r \in Reqs, NEW u, u \in Locks(req[r]), NEW q \in Reqs \ {r}, req[q].pc \in OfLogin
  PROVE  req[q].in.u \in Users /\ req[q].in.u # u
<1>1. PICK y \in Request : y = req[q] /\ y.pc \in OfLogin
  BY DEF Inv, TypeOK
<1>2. y.in.u \in Users
  BY <1>1, RequestShape, LoginShape
<1>3. y.in.u \in Locks(req[q])
  BY <1>1, LockOf
<1>4. QED BY <1>1, <1>2, <1>3, Own

LEMMA PasswordChanged ==
  ASSUME Inv, Turns, PasswordInv, NEW r \in Reqs, PasswordWrite(r)
  PROVE  PasswordInv'
<1>1. PICK u \in Users, k \in Resets \cup {"NONE"}, row \in UserRow, x \in Request : PasswordWritten(r, u, k, row, x)
  BY PasswordWriteEffect
<1>2. req[r].pc = "password" /\ req[r].u = u /\ Goto(r, x) /\ x.u = u /\ x.pc \in {"revokeAll", "spend"}
  BY <1>1 DEF PasswordWritten
<1>3. \A v \in Users \ {u} : user'[v] = user[v]
  BY <1>1, UserWritten DEF PasswordWritten
<1>4. UNCHANGED session
  BY DEF PasswordWrite
<1>5. req'[r] = x /\ \A q \in Reqs \ {r} : req'[q] = req[q]
  BY <1>2, RequestStep DEF Inv
<1>6. ASSUME NEW t \in Sessions, Live(t)
      PROVE  \/ session[t].password = user'[session[t].of].password
             \/ \E q \in Reqs : Ending(req[q], session[t].of)'
  <2>1. PICK v \in Users : v = session[t].of
    BY <1>6, Rows DEF Inv, SessionRow, Live
  <2>2. CASE v = u
    <3>1. Ending(req'[r], u)
      BY <1>2, <1>5 DEF Ending
    <3>2. QED BY <1>4, <2>1, <2>2, <3>1 DEF Ending
  <2>3. CASE v # u /\ session[t].password = user[v].password
    BY <1>3, <2>1, <2>3
  <2>4. ASSUME NEW q \in Reqs, Ending(req[q], v)
        PROVE  Ending(req[q], session[t].of)'
    <3>1. q # r
      BY <1>2, <2>4 DEF Ending
    <3>2. Ending(req'[q], v)
      BY <1>5, <2>4, <3>1
    <3>3. QED BY <1>4, <2>1, <3>2 DEF Ending
  <2>5. QED BY <1>6, <2>1, <2>2, <2>3, <2>4 DEF PasswordInv
<1>7. ASSUME NEW q \in Reqs, req'[q].pc \in OfLogin
      PROVE  req'[q].in.password = user'[req'[q].in.u].password
  <2>1. q # r /\ req'[q] = req[q]
    BY <1>2, <1>5, <1>7 DEF OfLogin
  <2>2. u \in Locks(req[r])
    BY <1>2, LockOf DEF OfUser, Inv, TypeOK
  <2>3. req[q].in.u \in Users /\ req[q].in.u # u
    BY <1>7, <2>1, <2>2, OtherLogin
  <2>4. QED BY <1>3, <1>7, <2>1, <2>3 DEF PasswordInv
<1>8. QED BY <1>4, <1>6, <1>7 DEF PasswordInv, Live, Exists

LEMMA PasswordIssue ==
  ASSUME Inv, PasswordInv, NEW r \in Reqs, NEW t \in Sessions, IssueTokenPair(r, t)
  PROVE  PasswordInv'
<1>1. PICK in \in Login, row \in SessionRow, x \in Request : TokenIssued(r, t, in, row, x)
  BY IssueTokenPairEffect
<1>2. /\ req[r].pc = "open" /\ req[r].in = in /\ session' = [session EXCEPT ![t] = row]
      /\ row.of = in.u /\ row.password = in.password
      /\ Goto(r, x) /\ (x = Idle \/ (x.pc = "open" /\ x.in = in))
  BY <1>1 DEF TokenIssued
<1>3. session'[t] = row /\ \A v \in Sessions \ {t} : session'[v] = session[v]
  BY <1>2 DEF Inv, TypeOK
<1>4. UNCHANGED user
  BY DEF IssueTokenPair
<1>5. req'[r] = x /\ \A q \in Reqs \ {r} : req'[q] = req[q]
  BY <1>2, RequestStep DEF Inv
<1>6. in.password = user[in.u].password
  BY <1>2 DEF PasswordInv, OfLogin
<1>7. ASSUME NEW v \in Sessions, Exists(session'[v]), session'[v].live
      PROVE  \/ session'[v].password = user[session'[v].of].password
             \/ \E q \in Reqs : Ending(req[q], session[v].of)'
  <2>1. CASE v = t
    BY <1>2, <1>3, <1>6, <2>1
  <2>2. CASE v # t
    <3>1. session'[v] = session[v] /\ Live(v)
      BY <1>3, <1>7, <2>2 DEF Live
    <3>2. ASSUME NEW q \in Reqs, Ending(req[q], session[v].of)
          PROVE  Ending(req[q], session[v].of)'
      <4>1. q # r
        BY <1>2, <3>2 DEF Ending
      <4>2. QED BY <1>5, <3>1, <3>2, <4>1 DEF Ending
    <3>3. QED BY <3>1, <3>2 DEF PasswordInv
  <2>3. QED BY <2>1, <2>2
<1>8. ASSUME NEW q \in Reqs, req'[q].pc \in OfLogin
      PROVE  req'[q].in.password = user[req'[q].in.u].password
  <2>1. CASE q = r
    BY <1>2, <1>5, <1>6, <1>8, <2>1, IdleKnows DEF OfLogin
  <2>2. CASE q # r
    BY <1>5, <1>8, <2>2 DEF PasswordInv
  <2>3. QED BY <2>1, <2>2
<1>9. QED BY <1>4, <1>7, <1>8 DEF PasswordInv, Live, Exists

LEMMA PasswordStart ==
  ASSUME Inv, Turns, ~MayOverlap, PasswordInv, NEW r \in Reqs, NEW x \in Request, Starts(r, x)
  PROVE  PasswordInv'
<1>1. /\ req[r] = Idle /\ Goto(r, x) /\ UNCHANGED <<user, session>> /\ Knows(x) /\ Begun(x)
      /\ \A q \in Reqs : Locks(req[q]) \cap Locks(x) = {}
  BY DEF Starts
<1>2. req'[r] = x /\ \A q \in Reqs \ {r} : req'[q] = req[q]
  BY <1>1, RequestStep DEF Inv
<1>3. ASSUME NEW t \in Sessions, Live(t)
      PROVE  \/ session[t].password = user[session[t].of].password
             \/ \E q \in Reqs : Ending(req[q], session[t].of)'
  <2>1. ASSUME NEW q \in Reqs, Ending(req[q], session[t].of)
        PROVE  Ending(req[q], session[t].of)'
    <3>1. q # r
      BY <1>1, <2>1, IdleKnows DEF Ending
    <3>2. QED BY <1>1, <1>2, <2>1, <3>1 DEF Ending
  <2>2. QED BY <1>3, <2>1 DEF PasswordInv
<1>4. ASSUME x.pc \in OfLogin
      PROVE  x.in.password = user[x.in.u].password
  <2>1. CASE x.in.from = "NONE"
    BY <1>1, <1>4, <2>1 DEF Begun, FoundLogin, OfLogin
  <2>2. CASE x.in.from # "NONE"
    <3>1. PICK t \in Sessions : t = x.in.from /\ Live(t) /\ session[t].of = x.in.u /\ x.in.password = session[t].password
      BY <1>1, <1>4, <2>2, RequestShape, LoginShape DEF Begun, Knows, OfLogin
    <3>2. ASSUME NEW q \in Reqs, Ending(req[q], session[t].of)
          PROVE  FALSE
      <4>1. PICK y \in Request : y = req[q] /\ y.pc \in {"spend", "revokeAll"} /\ y.u = x.in.u
        BY <3>1, <3>2 DEF Ending, Inv, TypeOK
      <4>2. x.in.u \in Locks(req[q])
        BY <4>1, LockOf DEF OfUser
      <4>3. x.in.u \in Locks(x)
        BY <1>4, LockOf
      <4>4. QED BY <1>1, <4>2, <4>3
    <3>3. QED BY <3>1, <3>2 DEF PasswordInv
  <2>3. QED BY <2>1, <2>2
<1>5. ASSUME NEW q \in Reqs, req'[q].pc \in OfLogin
      PROVE  req'[q].in.password = user[req'[q].in.u].password
  BY <1>2, <1>4, <1>5 DEF PasswordInv
<1>6. QED BY <1>1, <1>3, <1>5 DEF PasswordInv, Live, Exists

LEMMA PasswordOutside ==
  ASSUME Inv, PasswordInv, UNCHANGED req, SomeEnd, \A u \in Users : user'[u].password = user[u].password
  PROVE  PasswordInv'
<1>1. ASSUME NEW t \in Sessions, Exists(session'[t]), session'[t].live
      PROVE  \/ session'[t].password = user'[session'[t].of].password
             \/ \E q \in Reqs : Ending(req[q], session[t].of)'
  <2>1. Live(t) /\ session'[t].of = session[t].of /\ session'[t].password = session[t].password
    BY <1>1 DEF SomeEnd, Live
  <2>2. session[t].of \in Users
    BY <2>1, Rows DEF Inv, SessionRow, Live
  <2>3. ASSUME NEW q \in Reqs, Ending(req[q], session[t].of)
        PROVE  Ending(req[q], session[t].of)'
    BY <2>1, <2>3 DEF Ending
  <2>4. QED BY <2>1, <2>2, <2>3 DEF PasswordInv
<1>2. ASSUME NEW q \in Reqs, req'[q].pc \in OfLogin
      PROVE  req'[q].in.password = user'[req'[q].in.u].password
  <2>1. req[q].in.u \in Users
    BY <1>2, RequestShape, LoginShape DEF Inv, TypeOK
  <2>2. QED BY <1>2, <2>1 DEF PasswordInv
<1>3. QED BY <1>1, <1>2 DEF PasswordInv, Live, Exists

LEMMA OutsideRows ==
  ASSUME Inv, Outside
  PROVE  SomeEnd /\ \A u \in Users : user'[u].password = user[u].password
<1>1. ASSUME NEW u \in Users, LockExpires(u) \/ Deactivate(u)
      PROVE  UNCHANGED session /\ \A v \in Users : user'[v].password = user[v].password
  <2>1. PICK row \in UserRow : user' = [user EXCEPT ![u] = row] /\ row.password = user[u].password
    BY <1>1, UserFades
  <2>2. user'[u] = row /\ \A v \in Users \ {u} : user'[v] = user[v]
    BY <2>1, UserWritten
  <2>3. UNCHANGED session
    BY <1>1 DEF LockExpires, Deactivate
  <2>4. QED BY <2>1, <2>2, <2>3
<1>2. ASSUME NEW t \in Sessions, SessionExpires(t)
      PROVE  SomeEnd /\ UNCHANGED user
  BY <1>2, EndsEffect, EndsSome DEF SessionExpires, Live
<1>3. UNCHANGED session => SomeEnd
  BY DEF SomeEnd, Inv, TypeOK
<1>4. QED BY <1>1, <1>2, <1>3 DEF Outside, KeyStored, EntryExpires, RevokeGrant, account

LEMMA PasswordStep ==
  ASSUME Inv, Turns, Calm, PasswordInv, Next
  PROVE  PasswordInv'
<1>1. ASSUME NEW r \in Reqs, Continues(r), ~PasswordWrite(r), ~\E t \in Sessions : IssueTokenPair(r, t)
      PROVE  PasswordInv'
  <2>1. PICK x \in Request : GoesOn(r, x)
    BY <1>1, ContinuesOn
  <2>2. SomeEnd /\ \A u \in Users : user'[u].password = user[u].password
    BY <1>1, PasswordsSame, SessionsEnd
  <2>3. ASSUME NEW u \in Users, Ending(req[r], u)
        PROVE  Ending(x, u) \/ \A t \in Sessions : Exists(session'[t]) /\ session'[t].of = u => ~session'[t].live
    <3>1. CASE RevokeAll(r)
      BY <2>3, <3>1, RevokeAllEffect DEF Ending
    <3>2. CASE SpendReset(r)
      <4>1. PICK k \in Resets, token \in ResetRow, z \in Request : ResetSpent(r, k, token, z)
        BY <3>2, SpendResetEffect
      <4>2. Goto(r, z) /\ z.pc = "revokeAll" /\ z.u = req[r].u
        BY <4>1 DEF ResetSpent
      <4>3. z = x
        BY <2>1, <4>2, RequestStep DEF GoesOn, Inv
      <4>4. QED BY <2>3, <4>2, <4>3 DEF Ending
    <3>3. Die(r) \/ RevokeAll(r) \/ SpendReset(r)
      <4>1. req[r].pc \in {"spend", "revokeAll"}
        BY <2>3 DEF Ending
      <4>2. CASE req[r].pc = "revokeAll"
        BY <1>1, <4>2, SessionWriters DEF Rotate, RevokeWrite, At
      <4>3. CASE req[r].pc = "spend"
        BY <1>1, <4>3, ResetWriters DEF InsertReset, At
      <4>4. QED BY <4>1, <4>2, <4>3
    <3>4. QED BY <3>1, <3>2, <3>3 DEF Die, Calm
  <2>4. QED BY <2>1, <2>2, <2>3, PasswordMove
<1>2. CASE Outside
  BY <1>2, OutsideOwners, OutsideRows, PasswordOutside
<1>3. QED BY <1>1, <1>2, NextCases, PasswordChanged, PasswordIssue, PasswordStart DEF Calm

-----------------------------------------------------------------------------
\* A reset token is used once.

LEMMA ResetQuiet ==
  ASSUME ResetInv, UNCHANGED reset,
         \A q \in Reqs : (req'[q].pc = "password" /\ req'[q].k # "NONE") \/ req[q].pc = "spend" => req'[q] = req[q]
  PROVE  ResetInv'
<1>1. ASSUME NEW k \in Resets, NEW q \in Reqs, Spending(req[q], k)
      PROVE  Spending(req[q], k)'
  BY <1>1 DEF Spending
<1>2. QED BY <1>1 DEF ResetInv, Exists

LEMMA ResetsWritten ==
  ASSUME Inv, NEW k \in Resets, NEW token \in ResetRow, reset' = [reset EXCEPT ![k] = token]
  PROVE  reset'[k] = token /\ Exists(reset'[k]) /\ \A j \in Resets \ {k} : reset'[j] = reset[j]
BY RowKinds DEF Inv, TypeOK, Exists

\* One token is written, and what is said of it holds again.
TokenWritten(r, x, k, token) ==
    /\ Goto(r, x) /\ x.pc # "password"
    /\ reset' = [reset EXCEPT ![k] = token]
    /\ token.uses <= 1 /\ (token.open => token.uses = 0 \/ Spending(x, k))
    /\ \A j \in Resets \ {k} : ~Spending(req[r], j)
    /\ \A q \in Reqs \ {r} : req[q].pc = "password" /\ req[q].k = k => token.uses = 0

LEMMA ResetWrite ==
  ASSUME Inv, ResetInv, NEW r \in Reqs, NEW x \in Request, NEW k \in Resets, NEW token \in ResetRow,
         TokenWritten(r, x, k, token)
  PROVE  ResetInv'
<1>1. req'[r] = x /\ \A q \in Reqs \ {r} : req'[q] = req[q]
  BY RequestStep DEF Inv, TokenWritten
<1>2. reset'[k] = token /\ \A j \in Resets \ {k} : reset'[j] = reset[j]
  BY ResetsWritten DEF TokenWritten
<1>3. ASSUME NEW j \in Resets, Exists(reset'[j])
      PROVE  /\ reset'[j].uses <= 1
             /\ reset'[j].open => reset'[j].uses = 0 \/ \E q \in Reqs : Spending(req[q], j)'
  <2>1. CASE j = k
    <3>1. Spending(x, k) => Spending(req[r], k)'
      BY <1>1 DEF Spending
    <3>2. QED BY <1>2, <2>1, <3>1 DEF TokenWritten
  <2>2. CASE j # k
    <3>1. ASSUME NEW q \in Reqs, Spending(req[q], j)
          PROVE  Spending(req[q], j)'
      BY <1>1, <2>2, <3>1 DEF Spending, TokenWritten
    <3>2. QED BY <1>2, <1>3, <2>2, <3>1 DEF ResetInv
  <2>3. QED BY <2>1, <2>2
<1>4. ASSUME NEW q \in Reqs, req'[q].pc = "password", req'[q].k # "NONE"
      PROVE  reset'[req'[q].k].uses = 0
  <2>1. q # r /\ req'[q] = req[q]
    BY <1>1, <1>4 DEF TokenWritten
  <2>2. req[q].k \in Resets
    BY <1>4, <2>1, RequestShape DEF Inv, TypeOK, OfReset
  <2>3. QED BY <1>2, <1>4, <2>1, <2>2 DEF ResetInv, TokenWritten
<1>5. QED BY <1>3, <1>4 DEF ResetInv, Exists

LEMMA ResetPasswordWrite ==
  ASSUME Inv, Turns, ResetInv, NEW r \in Reqs, PasswordWrite(r)
  PROVE  ResetInv'
<1>1. PICK u \in Users, k \in Resets \cup {"NONE"}, row \in UserRow, x \in Request : PasswordWritten(r, u, k, row, x)
  BY PasswordWriteEffect
<1>2. /\ req[r].pc = "password" /\ req[r].u = u /\ req[r].k = k /\ Goto(r, x)
      /\ x.u = u /\ x.k = k /\ x.pc = IF k = "NONE" THEN "revokeAll" ELSE "spend"
  BY <1>1 DEF PasswordWritten
<1>3. CASE k = "NONE"
  <2>1. UNCHANGED reset
    BY <1>1, <1>3 DEF PasswordWritten
  <2>2. req'[r] = x /\ \A q \in Reqs \ {r} : req'[q] = req[q]
    BY <1>2, RequestStep DEF Inv
  <2>3. \A q \in Reqs : req'[q].pc = "password" \/ req[q].pc = "spend" => req'[q] = req[q]
    BY <1>2, <1>3, <2>2
  <2>4. QED BY <2>1, <2>3, ResetQuiet
<1>4. CASE k # "NONE"
  <2>1. PICK token \in ResetRow : /\ reset' = [reset EXCEPT ![k] = token]
                                  /\ reset[k].uses = 0 => token.uses = 1
    BY <1>1, <1>4 DEF PasswordWritten
  <2>2. k \in Resets /\ token.uses = 1 /\ x.pc = "spend"
    BY <1>2, <1>4, <2>1 DEF ResetInv
  <2>3. Spending(x, k) /\ \A j \in Resets \ {k} : ~Spending(req[r], j)
    BY <1>2, <2>2 DEF Spending
  <2>4. ASSUME NEW q \in Reqs \ {r}, req[q].pc = "password", req[q].k = k
        PROVE  FALSE
    <3>1. PICK y \in Request : y = req[q] /\ Knows(y)
      BY DEF Inv, TypeOK
    <3>2. PICK z \in Request : z = req[r] /\ Knows(z)
      BY DEF Inv, TypeOK
    <3>3. y.u = reset[k].of /\ z.u = reset[k].of
      BY <1>2, <1>4, <2>4, <3>1, <3>2 DEF Knows, OfReset
    <3>4. y.u \in Locks(req[q]) /\ z.u \in Locks(req[r])
      BY <1>2, <2>4, <3>1, <3>2, LockOf DEF OfUser
    <3>5. QED BY <3>3, <3>4, Own
  <2>5. reset' = [reset EXCEPT ![k] = token] /\ Goto(r, x) /\ x.pc # "password"
    BY <1>2, <2>1, <2>2
  <2>6. token.uses <= 1 /\ (token.open => token.uses = 0 \/ Spending(x, k))
    BY <2>2, <2>3
  <2>7. TokenWritten(r, x, k, token)
    BY <2>3, <2>4, <2>5, <2>6 DEF TokenWritten
  <2>8. QED BY <2>2, <2>7, ResetWrite
<1>5. QED BY <1>3, <1>4

LEMMA ResetSpend ==
  ASSUME Inv, ResetInv, NEW r \in Reqs, SpendReset(r)
  PROVE  ResetInv'
<1>1. PICK k \in Resets, token \in ResetRow, x \in Request : ResetSpent(r, k, token, x)
  BY SpendResetEffect
<1>2. /\ req[r].pc = "spend" /\ req[r].k = k /\ Exists(reset[k])
      /\ reset' = [reset EXCEPT ![k] = token] /\ token.uses = reset[k].uses /\ token.open = FALSE
      /\ Goto(r, x) /\ x.pc = "revokeAll"
  BY <1>1 DEF ResetSpent
<1>3. token.uses <= 1
  BY <1>2 DEF ResetInv
<1>4. \A j \in Resets \ {k} : ~Spending(req[r], j)
  BY <1>2 DEF Spending
<1>5. \A q \in Reqs \ {r} : req[q].pc = "password" /\ req[q].k = k => token.uses = 0
  BY <1>2, Limits DEF ResetInv
<1>6. Goto(r, x) /\ x.pc # "password" /\ reset' = [reset EXCEPT ![k] = token]
  BY <1>2
<1>7. token.open => token.uses = 0 \/ Spending(x, k)
  BY <1>2
<1>8. TokenWritten(r, x, k, token)
  BY <1>3, <1>4, <1>5, <1>6, <1>7 DEF TokenWritten
<1>9. QED BY <1>8, ResetWrite

LEMMA ResetInsert ==
  ASSUME Inv, ResetInv, NEW r \in Reqs, NEW k \in Resets, InsertReset(r, k)
  PROVE  ResetInv'
<1>1. PICK token \in ResetRow : ResetStored(r, k, token)
  BY InsertResetEffect
<1>2. /\ req[r].pc = "ask" /\ reset' = [reset EXCEPT ![k] = token] /\ token.uses = 0
  BY <1>1 DEF ResetStored
<1>3. \A j \in Resets : ~Spending(req[r], j)
  BY <1>2 DEF Spending
<1>4. Goto(r, Idle) /\ Idle \in Request /\ Idle.pc # "password"
  BY IdleKnows DEF InsertReset, Done
<1>5. /\ token.uses <= 1 /\ (token.open => token.uses = 0 \/ Spending(Idle, k))
      /\ \A q \in Reqs \ {r} : req[q].pc = "password" /\ req[q].k = k => token.uses = 0
      /\ reset' = [reset EXCEPT ![k] = token] /\ \A j \in Resets \ {k} : ~Spending(req[r], j)
  BY <1>2, <1>3
<1>6. TokenWritten(r, Idle, k, token)
  BY <1>4, <1>5 DEF TokenWritten
<1>7. QED BY <1>4, <1>6, ResetWrite

LEMMA ResetStart ==
  ASSUME Inv, Turns, ~MayOverlap, ResetInv, NEW r \in Reqs, NEW x \in Request, Starts(r, x)
  PROVE  ResetInv'
<1>1. /\ req[r] = Idle /\ Goto(r, x) /\ UNCHANGED reset /\ Knows(x) /\ Begun(x)
      /\ \A q \in Reqs : Locks(req[q]) \cap Locks(x) = {}
  BY DEF Starts
<1>2. req'[r] = x /\ \A q \in Reqs \ {r} : req'[q] = req[q]
  BY <1>1, RequestStep DEF Inv
<1>3. ASSUME NEW k \in Resets, NEW q \in Reqs, Spending(req[q], k)
      PROVE  Spending(req[q], k)'
  <2>1. q # r
    BY <1>1, <1>3, IdleKnows DEF Spending
  <2>2. QED BY <1>2, <1>3, <2>1 DEF Spending
<1>4. ASSUME x.pc = "password", x.k # "NONE"
      PROVE  reset[x.k].uses = 0
  <2>1. x.k \in Resets /\ Exists(reset[x.k]) /\ reset[x.k].of = x.u /\ reset[x.k].open
    BY <1>1, <1>4, RequestShape DEF Knows, Begun, OfReset
  <2>2. ASSUME NEW q \in Reqs, Spending(req[q], x.k)
        PROVE  FALSE
    <3>1. PICK y \in Request : y = req[q] /\ Knows(y) /\ y.pc = "spend" /\ y.k = x.k
      BY <2>2 DEF Spending, Inv, TypeOK
    <3>2. y.u = x.u
      BY <1>4, <2>1, <3>1 DEF Knows, OfReset
    <3>3. x.u \in Locks(req[q]) /\ x.u \in Locks(x)
      BY <1>4, <3>1, <3>2, LockOf DEF OfUser
    <3>4. QED BY <1>1, <3>3
  <2>3. QED BY <2>1, <2>2 DEF ResetInv
<1>5. \A q \in Reqs : req'[q].pc = "password" /\ req'[q].k # "NONE" => reset[req'[q].k].uses = 0
  BY <1>2, <1>4 DEF ResetInv
<1>6. QED BY <1>1, <1>3, <1>5 DEF ResetInv, Exists

LEMMA ResetStep ==
  ASSUME Inv, Turns, Calm, ResetInv, Next
  PROVE  ResetInv'
<1>1. ASSUME NEW r \in Reqs, Continues(r), UNCHANGED reset, req[r].pc \notin {"password", "spend"}
      PROVE  ResetInv'
  <2>0. CASE req[r].pc = "compare"
    <3>1. PICK x \in Request : GoesOn(r, x)
      BY <1>1, ContinuesOn
    <3>2. req'[r] = x /\ \A q \in Reqs \ {r} : req'[q] = req[q]
      BY <3>1, RequestStep DEF GoesOn, Inv
    <3>3. x = Idle \/ x.k = "NONE"
      BY <2>0, <3>1 DEF GoesOn
    <3>4. \A q \in Reqs : (req'[q].pc = "password" /\ req'[q].k # "NONE") \/ req[q].pc = "spend" => req'[q] = req[q]
      BY <2>0, <3>2, <3>3, IdleKnows
    <3>5. QED BY <1>1, <3>4, ResetQuiet
  <2>1. CASE req[r].pc # "compare"
    <3>1. \A m \in Moves : m[2] \in {"password", "spend"} => m[1] # req[r].pc
      BY <1>1, <2>1 DEF Moves
    <3>2. SameAt({"password", "spend"})
      BY <1>1, <3>1, GoesElsewhere
    <3>3. QED BY <1>1, <3>2, ResetQuiet DEF SameAt
  <2>2. QED BY <2>0, <2>1
<1>2. CASE Outside
  <2>1. UNCHANGED <<req, reset>>
    BY <1>2, OutsideOwners DEF Outside, KeyStored, LockExpires, Deactivate, SessionExpires, EntryExpires, RevokeGrant, account
  <2>2. QED BY <2>1, ResetQuiet
<1>3. ASSUME NEW r \in Reqs, Continues(r)
      PROVE  ResetInv'
  <2>1. ~Die(r)
    BY DEF Die, Calm
  <2>2. QED BY <1>1, <1>3, <2>1, ResetWriters, ResetPasswordWrite, ResetSpend, ResetInsert
<1>4. QED BY <1>2, <1>3, NextCases, ResetStart DEF Calm

-----------------------------------------------------------------------------
\* The second factor that is asked for was seen to work.

LEMMA FactorMove ==
  ASSUME Inv, FactorInv, SameAt({"enable"}), proved \subseteq proved',
         \A u \in Users : user'[u].mfa = user[u].mfa /\ user'[u].secret = user[u].secret
  PROVE  FactorInv'
<1>1. ASSUME NEW r \in Reqs, req'[r].pc = "enable"
      PROVE  req'[r].s = user'[req'[r].u].secret /\ req'[r].s \in proved'
  <2>1. req'[r] = req[r] /\ req[r].u \in Users
    BY <1>1, RequestShape DEF SameAt, Inv, TypeOK
  <2>2. QED BY <1>1, <2>1 DEF FactorInv
<1>2. QED BY <1>1 DEF FactorInv

LEMMA FactorsSame ==
  ASSUME Inv, NEW r \in Reqs, RecordFailure(r) \/ ClearFailures(r) \/ PasswordWrite(r)
  PROVE  /\ UNCHANGED proved /\ req[r].pc \in {"fail", "open", "password"}
         /\ \A u \in Users : user'[u].mfa = user[u].mfa /\ user'[u].secret = user[u].secret
<1>1. CASE RecordFailure(r)
  <2>1. PICK u \in Users, n \in 1..MaxFailures, row \in UserRow, g \in 0..(MaxFailures + 1) : FailureRecorded(r, u, n, row, g)
    BY <1>1, RecordFailureEffect
  <2>2. user' = [user EXCEPT ![u] = row] /\ row.mfa = user[u].mfa /\ row.secret = user[u].secret
    BY <2>1 DEF FailureRecorded
  <2>3. user'[u] = row /\ \A v \in Users \ {u} : user'[v] = user[v]
    BY <2>2, UserWritten
  <2>4. \A v \in Users : user'[v].mfa = user[v].mfa /\ user'[v].secret = user[v].secret
    BY <2>2, <2>3
  <2>5. UNCHANGED proved /\ req[r].pc \in {"fail", "open", "password"}
    BY <1>1 DEF RecordFailure, At
  <2>6. QED BY <2>4, <2>5
<1>2. CASE ClearFailures(r)
  <2>1. PICK u \in Users, row \in UserRow, x \in Request : FailuresCleared(r, u, row, x)
    BY <1>2, ClearFailuresEffect
  <2>2. user' = [user EXCEPT ![u] = row] /\ row.mfa = user[u].mfa /\ row.secret = user[u].secret
    BY <2>1 DEF FailuresCleared
  <2>3. user'[u] = row /\ \A v \in Users \ {u} : user'[v] = user[v]
    BY <2>2, UserWritten
  <2>4. \A v \in Users : user'[v].mfa = user[v].mfa /\ user'[v].secret = user[v].secret
    BY <2>2, <2>3
  <2>5. UNCHANGED proved /\ req[r].pc \in {"fail", "open", "password"}
    BY <1>2 DEF ClearFailures, At
  <2>6. QED BY <2>4, <2>5
<1>3. CASE PasswordWrite(r)
  <2>1. PICK u \in Users, k \in Resets \cup {"NONE"}, row \in UserRow, x \in Request : PasswordWritten(r, u, k, row, x)
    BY <1>3, PasswordWriteEffect
  <2>2. user' = [user EXCEPT ![u] = row] /\ row.mfa = user[u].mfa /\ row.secret = user[u].secret
    BY <2>1 DEF PasswordWritten
  <2>3. user'[u] = row /\ \A v \in Users \ {u} : user'[v] = user[v]
    BY <2>2, UserWritten
  <2>4. \A v \in Users : user'[v].mfa = user[v].mfa /\ user'[v].secret = user[v].secret
    BY <2>2, <2>3
  <2>5. UNCHANGED proved /\ req[r].pc \in {"fail", "open", "password"}
    BY <1>3 DEF PasswordWrite, At
  <2>6. QED BY <2>4, <2>5
<1>4. QED BY <1>1, <1>2, <1>3

LEMMA FactorChange ==
  ASSUME Inv, Turns, FactorInv, NEW r \in Reqs, SecretWrite(r) \/ EnableWrite(r) \/ DisableWrite(r)
  PROVE  FactorInv'
<1>1. PICK u \in Users, s \in Secrets \cup {"NONE"}, row \in UserRow, x \in Request : FactorWritten(r, u, s, row, x)
  BY FactorWriteEffect
<1>2. /\ req[r].u = u /\ req[r].pc \in {"secret", "enable", "disable"} /\ Goto(r, x) /\ x.pc \in {"dropCodes", "idle"}
      /\ row.mfa => req[r].pc = "enable" /\ row.secret = user[u].secret
  BY <1>1, IdleKnows DEF FactorWritten
<1>3. user'[u] = row /\ \A v \in Users \ {u} : user'[v] = user[v]
  BY <1>1, UserWritten DEF FactorWritten
<1>4. UNCHANGED proved
  BY DEF SecretWrite, EnableWrite, DisableWrite
<1>5. req'[r] = x /\ \A q \in Reqs \ {r} : req'[q] = req[q]
  BY <1>2, RequestStep DEF Inv
<1>6. row.mfa => row.secret \in proved
  BY <1>2 DEF FactorInv
<1>7. ASSUME NEW q \in Reqs, req'[q].pc = "enable"
      PROVE  req'[q].s = user'[req'[q].u].secret /\ req'[q].s \in proved
  <2>1. q # r /\ req'[q] = req[q]
    BY <1>2, <1>5, <1>7
  <2>2. PICK y \in Request : y = req[q] /\ y.pc = "enable" /\ y.u \in Users
    BY <1>7, <2>1, RequestShape DEF Inv, TypeOK
  <2>3. y.u \in Locks(req[q]) /\ u \in Locks(req[r])
    BY <1>2, <2>2, LockOf DEF OfUser, Inv, TypeOK
  <2>4. y.u # u
    BY <2>1, <2>3, Own
  <2>5. QED BY <1>3, <2>1, <2>2, <2>4 DEF FactorInv
<1>8. QED BY <1>3, <1>4, <1>6, <1>7 DEF FactorInv

LEMMA FactorStart ==
  ASSUME Inv, FactorInv, NEW r \in Reqs, NEW x \in Request, Starts(r, x)
  PROVE  FactorInv'
<1>1. req[r] = Idle /\ Goto(r, x) /\ UNCHANGED user /\ Begun(x) /\ proved \subseteq proved'
  BY DEF Starts
<1>2. CASE x.pc # "enable"
  <2>1. SameAt({"enable"})
    BY <1>1, <1>2, IdleKnows, Elsewhere
  <2>2. QED BY <1>1, <2>1, FactorMove
<1>3. CASE x.pc = "enable"
  <2>1. x.s = user[x.u].secret /\ x.s \in proved'
    BY <1>1, <1>3 DEF Starts, Begun
  <2>2. req'[r] = x /\ \A q \in Reqs \ {r} : req'[q] = req[q]
    BY <1>1, RequestStep DEF Inv
  <2>3. QED BY <1>1, <2>1, <2>2 DEF FactorInv
<1>4. QED BY <1>2, <1>3

LEMMA OutsideFactors ==
  ASSUME Inv, Outside
  PROVE  /\ UNCHANGED <<proved, guesses, reset, code>>
         /\ \A u \in Users : /\ user'[u].mfa = user[u].mfa /\ user'[u].secret = user[u].secret
                             /\ user'[u].locked => user[u].locked
<1>1. ASSUME NEW u \in Users, LockExpires(u) \/ Deactivate(u)
      PROVE  \A v \in Users : /\ user'[v].mfa = user[v].mfa /\ user'[v].secret = user[v].secret
                              /\ user'[v].locked => user[v].locked
  <2>1. PICK row \in UserRow : /\ user' = [user EXCEPT ![u] = row] /\ row.mfa = user[u].mfa
                               /\ row.secret = user[u].secret /\ (row.locked => user[u].locked)
    BY <1>1, UserFades
  <2>2. user'[u] = row /\ \A v \in Users \ {u} : user'[v] = user[v]
    BY <2>1, UserWritten
  <2>3. QED BY <2>1, <2>2
<1>2. UNCHANGED <<proved, guesses, reset, code>>
  BY DEF Outside, KeyStored, LockExpires, Deactivate, SessionExpires, EntryExpires, RevokeGrant, account
<1>3. QED BY <1>1, <1>2 DEF Outside, KeyStored, SessionExpires, EntryExpires, RevokeGrant, account

LEMMA FactorStep ==
  ASSUME Inv, Turns, ~MayOverlap, FactorInv, Next
  PROVE  FactorInv'
<1>1. ASSUME NEW r \in Reqs, Continues(r), ~(SecretWrite(r) \/ EnableWrite(r) \/ DisableWrite(r))
      PROVE  FactorInv'
  <2>1. PICK x \in Request : GoesOn(r, x)
    BY <1>1, ContinuesOn
  <2>2. x.pc # "enable"
    BY <2>1, IdleKnows DEF GoesOn, Moves
  <2>3. /\ UNCHANGED proved
        /\ \A u \in Users : user'[u].mfa = user[u].mfa /\ user'[u].secret = user[u].secret
    BY <1>1, UserWriters, FactorsSame
  <2>4. req'[r] = x /\ \A q \in Reqs \ {r} : req'[q] = req[q]
    BY <2>1, RequestStep DEF Inv, GoesOn
  <2>5. ASSUME NEW q \in Reqs, req'[q].pc = "enable"
        PROVE  req'[q].s = user'[req'[q].u].secret /\ req'[q].s \in proved'
    <3>1. req'[q] = req[q] /\ req[q].u \in Users
      BY <2>2, <2>4, <2>5, RequestShape DEF Inv, TypeOK
    <3>2. QED BY <2>3, <2>5, <3>1 DEF FactorInv
  <2>6. QED BY <2>3, <2>5 DEF FactorInv
<1>2. CASE Outside
  <2>1. SameAt({"enable"})
    BY <1>2, OutsideOwners DEF SameAt
  <2>2. QED BY <1>2, <2>1, OutsideFactors, FactorMove
<1>3. QED BY <1>1, <1>2, NextCases, FactorChange, FactorStart

-----------------------------------------------------------------------------
\* A cached entry was granted.

LEMMA CacheMove ==
  ASSUME Inv, CacheInv, NEW r \in Reqs, NEW x \in Request, Goto(r, x), UNCHANGED cache,
         \A o \in Roles : stored[o] \subseteq stored'[o],
         x.pc \in {"load", "store"} => cache[x.o] = NoRow,
         x.pc = "store" => x.found \in stored'[x.o]
  PROVE  CacheInv'
<1>1. req'[r] = x /\ \A q \in Reqs \ {r} : req'[q] = req[q]
  BY RequestStep DEF Inv
<1>2. \A o \in Roles : Exists(cache'[o]) => cache'[o].found \in stored'[o]
  BY DEF CacheInv
<1>3. \A q \in Reqs : req'[q].pc \in {"load", "store"} => cache'[req'[q].o] = NoRow
  BY <1>1 DEF CacheInv
<1>4. ASSUME NEW q \in Reqs, req'[q].pc = "store"
      PROVE  req'[q].found \in stored'[req'[q].o]
  <2>1. CASE q = r
    BY <1>1, <1>4, <2>1
  <2>2. CASE q # r
    <3>1. req'[q] = req[q] /\ req[q].o \in Roles
      BY <1>1, <1>4, <2>2, RequestShape DEF Inv, TypeOK, OfRole
    <3>2. QED BY <1>4, <3>1 DEF CacheInv
  <2>3. QED BY <2>1, <2>2
<1>5. QED BY <1>2, <1>3, <1>4 DEF CacheInv, Exists

LEMMA CacheStay ==
  ASSUME Inv, CacheInv, UNCHANGED <<req, cache>>, \A o \in Roles : stored[o] \subseteq stored'[o]
  PROVE  CacheInv'
<1>1. \A o \in Roles : Exists(cache'[o]) => cache'[o].found \in stored'[o]
  BY DEF CacheInv
<1>2. ASSUME NEW q \in Reqs, req[q].pc = "store"
      PROVE  req[q].found \in stored'[req[q].o]
  <2>1. req[q].o \in Roles
    BY <1>2, RequestShape DEF Inv, TypeOK, OfRole
  <2>2. QED BY <1>2, <2>1 DEF CacheInv
<1>3. QED BY <1>1, <1>2 DEF CacheInv, Exists

LEMMA LoadOnly ==
  ASSUME NEW r \in Reqs, Continues(r), req[r].pc = "load"
  PROVE  LoadPermissions(r) \/ Die(r)
BY DEF Continues, Continue, RecordFailure, FindCode, CompareCurrent, UseCode, Resolve, ClearFailures, Rotate, IssueTokenPair,
       RevokeWrite, PasswordWrite, SpendReset, RevokeAll, InsertReset, SecretWrite, DropCodes, AddCodes, EnableWrite,
       DisableWrite, Unassign, Assign, ClearPermissionCache, GrantPermissions, StorePermissions, RevokeKeyWrite,
       Identify, At

LEMMA CacheLoad ==
  ASSUME Inv, CacheInv, NEW r \in Reqs, LoadPermissions(r)
  PROVE  CacheInv'
<1>1. PICK o \in Roles, x \in Request :
        /\ req[r].pc = "load" /\ req[r].o = o
        /\ Goto(r, x) /\ x.pc = "store" /\ x.o = o /\ x.found = grants[o]
  BY LoadPermissionsEffect
<1>2. UNCHANGED <<cache, stored>>
  BY DEF LoadPermissions, access
<1>3. cache[x.o] = NoRow /\ x.found \in stored'[x.o]
  BY <1>1, <1>2 DEF CacheInv, Inv
<1>4. QED BY <1>1, <1>2, <1>3, CacheMove

LEMMA CacheStore ==
  ASSUME Inv, Turns, CacheInv, NEW r \in Reqs, StorePermissions(r)
  PROVE  CacheInv'
<1>1. PICK o \in Roles, found \in SUBSET Perms :
        /\ req[r].pc = "store" /\ req[r].o = o /\ req[r].found = found
        /\ cache' = [cache EXCEPT ![o] = [found |-> found]]
        /\ Goto(r, Idle)
  BY StorePermissionsEffect
<1>2. UNCHANGED stored /\ found \in stored[o]
  BY <1>1 DEF StorePermissions, CacheInv
<1>3. cache'[o] = [found |-> found] /\ \A p \in Roles \ {o} : cache'[p] = cache[p]
  BY <1>1 DEF Inv, TypeOK
<1>4. \A p \in Roles : Exists(cache'[p]) => cache'[p].found \in stored'[p]
  BY <1>2, <1>3 DEF CacheInv
<1>5. req'[r] = Idle /\ \A q \in Reqs \ {r} : req'[q] = req[q]
  BY <1>1, IdleKnows, RequestStep DEF Inv
<1>6. ASSUME NEW q \in Reqs, req'[q].pc \in {"load", "store"}
      PROVE  /\ cache'[req'[q].o] = NoRow
             /\ req'[q].pc = "store" => req'[q].found \in stored'[req'[q].o]
  <2>1. q # r /\ req'[q] = req[q]
    BY <1>5, <1>6, IdleKnows
  <2>2. req[q] \in Request /\ req[r] \in Request
    BY DEF Inv, TypeOK
  <2>3. req[q].o \in Locks(req[q]) /\ o \in Locks(req[r]) /\ req[q].o \in Roles
    BY <1>1, <1>6, <2>1, <2>2, LockOf, RequestShape DEF OfRole
  <2>4. req[q].o # o
    BY <2>1, <2>3, Own
  <2>5. QED BY <1>2, <1>3, <1>6, <2>1, <2>3, <2>4 DEF CacheInv
<1>7. QED BY <1>4, <1>6 DEF CacheInv, Exists

LEMMA CacheClear ==
  ASSUME Inv, Turns, CacheInv, NEW r \in Reqs, ClearPermissionCache(r)
  PROVE  CacheInv'
<1>1. /\ req[r].pc = "clear" /\ Goto(r, Idle)
      /\ \A o \in Roles : cache'[o] = NoRow
  BY ClearCacheEffect
<1>2. req'[r] = Idle /\ \A q \in Reqs \ {r} : req'[q] = req[q]
  BY <1>1, IdleKnows, RequestStep DEF Inv
<1>3. ASSUME NEW q \in Reqs, req'[q].pc \in {"load", "store"}
      PROVE  FALSE
  <2>1. q # r /\ req'[q] = req[q]
    BY <1>2, <1>3, IdleKnows
  <2>2. req[q] \in Request /\ req[r] \in Request
    BY DEF Inv, TypeOK
  <2>3. req[q].o \in Locks(req[q]) /\ req[q].o \in Roles /\ Locks(req[r]) = Roles
    BY <1>1, <1>3, <2>1, <2>2, LockOf, RequestShape DEF OfRole
  <2>4. QED BY <2>1, <2>3, Own
<1>4. QED BY <1>1, <1>3 DEF CacheInv, Exists

LEMMA CacheExpires ==
  ASSUME Inv, CacheInv, NEW o \in Roles, EntryExpires(o)
  PROVE  CacheInv'
<1>1. UNCHANGED req /\ Exists(cache[o])
  BY DEF EntryExpires
<1>2. cache'[o] = NoRow /\ \A p \in Roles \ {o} : cache'[p] = cache[p] /\ stored'[p] = stored[p]
  BY DEF EntryExpires, Inv, TypeOK
<1>3. ASSUME NEW q \in Reqs, req[q].pc \in {"load", "store"}
      PROVE  req[q].o \in Roles /\ cache[req[q].o] = NoRow /\ req[q].o # o
  <2>1. req[q].o \in Roles
    BY <1>3, RequestShape DEF Inv, TypeOK, OfRole
  <2>2. QED BY <1>1, <1>3, <2>1 DEF CacheInv, Exists
<1>4. \A p \in Roles : Exists(cache'[p]) => cache'[p].found \in stored'[p]
  BY <1>2 DEF CacheInv, Exists
<1>5. ASSUME NEW q \in Reqs, req[q].pc = "store"
      PROVE  req[q].found \in stored'[req[q].o]
  BY <1>2, <1>3, <1>5 DEF CacheInv
<1>6. QED BY <1>1, <1>2, <1>3, <1>4, <1>5 DEF CacheInv, Exists

LEMMA CacheStep ==
  ASSUME Inv, Turns, ~MayOverlap, CacheInv, Next
  PROVE  CacheInv'
<1>1. ASSUME NEW r \in Reqs, Continues(r), ~ClearPermissionCache(r), ~StorePermissions(r), ~LoadPermissions(r)
      PROVE  CacheInv'
  <2>1. PICK x \in Request : GoesOn(r, x)
    BY <1>1, ContinuesOn
  <2>2. x.pc # "store"
    <3>1. CASE x = Idle
      BY <3>1, IdleKnows
    <3>2. CASE Die(r)
      <4>1. req'[r] = Idle /\ req'[r] = x
        BY <2>1, <3>2, IdleKnows, RequestStep DEF Die, Done, GoesOn, Inv
      <4>2. QED BY <4>1, <3>1
    <3>3. CASE x # Idle /\ ~Die(r)
      <4>1. req[r].pc # "load"
        BY <1>1, <3>3, LoadOnly
      <4>2. QED BY <2>1, <3>3, <4>1 DEF GoesOn, Moves
    <3>4. QED BY <3>1, <3>2, <3>3
  <2>3. x.pc = "load" => cache[x.o] = NoRow
    <3>1. CASE x = Idle
      BY <3>1, IdleKnows
    <3>2. CASE x # Idle
      <4>1. x.pc = "load" => req[r].pc = "identify"
        BY <2>1, <3>2 DEF GoesOn, Moves
      <4>2. QED BY <2>1, <3>2, <4>1 DEF GoesOn
    <3>3. QED BY <3>1, <3>2
  <2>4. UNCHANGED cache /\ \A o \in Roles : stored[o] \subseteq stored'[o]
    <3>1. CASE Unassign(r) \/ Assign(r) \/ RevokeKeyWrite(r)
      <4>1. UNCHANGED <<cache, stored>>
        BY <3>1 DEF Unassign, Assign, RevokeKeyWrite
      <4>2. QED BY <4>1
    <3>2. CASE GrantPermissions(r)
      BY <3>2, GrantPermissionsEffect DEF GrantPermissions
    <3>3. CASE UNCHANGED access
      BY <3>3 DEF access
    <3>4. QED BY <1>1, <3>1, <3>2, <3>3, AccessWriters
  <2>5. Goto(r, x)
    BY <2>1 DEF GoesOn
  <2>6. QED BY <2>2, <2>3, <2>4, <2>5, CacheMove
<1>2. ASSUME NEW r \in Reqs, NEW x \in Request, Starts(r, x)
      PROVE  CacheInv'
  <2>1. Goto(r, x) /\ UNCHANGED <<cache, stored>>
    BY <1>2 DEF Starts, access
  <2>2. x.pc # "store" /\ (x.pc = "load" => cache[x.o] = NoRow)
    BY <1>2 DEF Starts, Begun
  <2>3. QED BY <2>1, <2>2, CacheMove
<1>3. CASE Outside
  <2>1. CASE KeyStored \/ (\E u \in Users : LockExpires(u) \/ Deactivate(u)) \/ \E t \in Sessions : SessionExpires(t)
    <3>1. UNCHANGED <<req, cache, stored>>
      BY <2>1 DEF KeyStored, LockExpires, Deactivate, SessionExpires, access
    <3>2. QED BY <3>1, CacheStay
  <2>2. ASSUME NEW o \in Roles, NEW p \in Perms, RevokeGrant(o, p)
        PROVE  CacheInv'
    <3>1. UNCHANGED <<req, cache>>
      BY <2>2 DEF RevokeGrant
    <3>2. \A q \in Roles : stored[q] \subseteq stored'[q]
      BY <2>2, RevokeGrantEffect
    <3>3. QED BY <3>1, <3>2, CacheStay
  <2>3. QED BY <1>3, <2>1, <2>2, CacheExpires DEF Outside
<1>4. QED BY <1>1, <1>2, <1>3, NextCases, CacheClear, CacheStore, CacheLoad

-----------------------------------------------------------------------------
\* Every user has one role.

LEMMA RoleQuiet ==
  ASSUME RoleInv, UNCHANGED holds, SameAt({"assign"})
  PROVE  RoleInv'
<1>1. ASSUME NEW u \in Users, NEW q \in Reqs, Assigning(req[q], u)
      PROVE  Assigning(req[q], u)'
  BY <1>1 DEF SameAt, Assigning
<1>2. \A q \in Reqs : req'[q].pc = "assign" => holds'[req'[q].u] = {}
  BY DEF SameAt, RoleInv
<1>3. QED BY <1>1, <1>2 DEF RoleInv

LEMMA RoleUnassign ==
  ASSUME Inv, RoleInv, NEW r \in Reqs, Unassign(r)
  PROVE  RoleInv'
<1>1. PICK u \in Users, x \in Request :
        /\ req[r].pc = "unassign" /\ req[r].u = u
        /\ holds' = [holds EXCEPT ![u] = {}]
        /\ Goto(r, x) /\ x.pc = "assign" /\ x.u = u
  BY UnassignEffect
<1>2. req'[r] = x /\ \A q \in Reqs \ {r} : req'[q] = req[q]
  BY <1>1, RequestStep DEF Inv
<1>3. holds'[u] = {} /\ \A v \in Users \ {u} : holds'[v] = holds[v]
  BY <1>1 DEF Inv, TypeOK
<1>4. ASSUME NEW v \in Users
      PROVE  (\E o \in Roles : holds'[v] = {o}) \/ \E q \in Reqs : Assigning(req[q], v)'
  <2>1. CASE v = u
    BY <1>1, <1>2, <2>1 DEF Assigning
  <2>2. CASE v # u
    <3>1. ASSUME NEW q \in Reqs, Assigning(req[q], v)
          PROVE  Assigning(req[q], v)'
      BY <1>1, <1>2, <3>1 DEF Assigning
    <3>2. QED BY <1>3, <2>2, <3>1 DEF RoleInv
  <2>3. QED BY <2>1, <2>2
<1>5. ASSUME NEW q \in Reqs, req'[q].pc = "assign"
      PROVE  holds'[req'[q].u] = {}
  <2>1. CASE q = r
    BY <1>1, <1>2, <1>3, <2>1
  <2>2. CASE q # r
    <3>1. req'[q] = req[q] /\ req[q].u \in Users
      BY <1>2, <1>5, <2>2, RequestShape DEF Inv, TypeOK
    <3>2. QED BY <1>3, <1>5, <3>1 DEF RoleInv
  <2>3. QED BY <2>1, <2>2
<1>6. QED BY <1>4, <1>5 DEF RoleInv

LEMMA RoleAssign ==
  ASSUME Inv, Turns, RoleInv, NEW r \in Reqs, Assign(r)
  PROVE  RoleInv'
<1>1. PICK u \in Users, o \in Roles, x \in Request :
        /\ req[r].pc = "assign" /\ req[r].u = u
        /\ holds' = [holds EXCEPT ![u] = holds[u] \cup {o}]
        /\ Goto(r, x) /\ x.pc \in {"idle", "clear"}
  BY AssignEffect
<1>2. req'[r] = x /\ \A q \in Reqs \ {r} : req'[q] = req[q]
  BY <1>1, RequestStep DEF Inv
<1>3. holds[u] = {}
  BY <1>1 DEF RoleInv
<1>4. holds'[u] = {o} /\ \A v \in Users \ {u} : holds'[v] = holds[v]
  BY <1>1, <1>3 DEF Inv, TypeOK
<1>5. ASSUME NEW v \in Users
      PROVE  (\E p \in Roles : holds'[v] = {p}) \/ \E q \in Reqs : Assigning(req[q], v)'
  <2>1. CASE v = u
    BY <1>4, <2>1
  <2>2. CASE v # u
    <3>1. ASSUME NEW q \in Reqs, Assigning(req[q], v)
          PROVE  Assigning(req[q], v)'
      BY <1>1, <1>2, <2>2, <3>1 DEF Assigning
    <3>2. QED BY <1>4, <2>2, <3>1 DEF RoleInv
  <2>3. QED BY <2>1, <2>2
<1>6. ASSUME NEW q \in Reqs, req'[q].pc = "assign"
      PROVE  holds'[req'[q].u] = {}
  <2>1. q # r /\ req'[q] = req[q]
    BY <1>1, <1>2, <1>6
  <2>2. req[q] \in Request /\ req[r] \in Request
    BY DEF Inv, TypeOK
  <2>3. req[q].u \in Locks(req[q]) /\ u \in Locks(req[r]) /\ req[q].u \in Users
    BY <1>1, <1>6, <2>1, <2>2, LockOf, RequestShape DEF OfRoles
  <2>4. req[q].u # u
    BY <2>1, <2>3, Own
  <2>5. QED BY <1>4, <1>6, <2>1, <2>3, <2>4 DEF RoleInv
<1>7. QED BY <1>5, <1>6 DEF RoleInv

LEMMA RoleStep ==
  ASSUME Inv, Turns, Calm, RoleInv, Next
  PROVE  RoleInv'
<1>1. ASSUME NEW r \in Reqs, Continues(r), ~Unassign(r), ~Assign(r)
      PROVE  RoleInv'
  <2>1. UNCHANGED holds /\ req[r].pc \notin {"unassign", "assign"}
    <3>1. CASE ClearPermissionCache(r) \/ GrantPermissions(r) \/ StorePermissions(r) \/ RevokeKeyWrite(r)
      BY <3>1 DEF ClearPermissionCache, GrantPermissions, StorePermissions, RevokeKeyWrite, At
    <3>2. CASE UNCHANGED access /\ (Die(r) \/ req[r].pc \notin {"unassign", "assign", "clear", "grant", "store", "revokeKey"})
      BY <3>2 DEF access, Die, Calm
    <3>3. QED BY <1>1, <3>1, <3>2, AccessWriters
  <2>2. \A m \in Moves : m[2] \in {"assign"} => m[1] # req[r].pc
    BY <2>1 DEF Moves
  <2>3. SameAt({"assign"})
    BY <1>1, <2>1, <2>2, GoesElsewhere
  <2>4. QED BY <2>1, <2>3, RoleQuiet
<1>2. ASSUME NEW r \in Reqs, NEW x \in Request, Starts(r, x)
      PROVE  RoleInv'
  <2>1. Goto(r, x) /\ UNCHANGED holds /\ req[r].pc # "assign"
    BY <1>2, IdleKnows DEF Starts, access
  <2>2. x.pc # "assign"
    BY <1>2 DEF Starts, Begun
  <2>3. SameAt({"assign"})
    BY <2>1, <2>2, Elsewhere
  <2>4. QED BY <2>1, <2>3, RoleQuiet
<1>3. CASE Outside
  <2>1. UNCHANGED <<req, holds>>
    BY <1>3, OutsideOwners DEF Outside, KeyStored, LockExpires, Deactivate, SessionExpires, EntryExpires, RevokeGrant, access
  <2>2. SameAt({"assign"})
    BY <2>1 DEF SameAt
  <2>3. QED BY <2>1, <2>2, RoleQuiet
<1>4. QED BY <1>1, <1>2, <1>3, NextCases, RoleUnassign, RoleAssign

-----------------------------------------------------------------------------
\* The codes that can be used are those of the secret in use.

LEMMA CodesMove ==
  ASSUME Inv, CodesInv, SameAt({"dropCodes", "addCodes"}),
         \A u \in Users : user'[u].secret = user[u].secret,
         \A s \in Secrets : Exists(code[s]) => Exists(code'[s]) /\ code'[s].of = code[s].of,
         \A s \in Secrets : Exists(code'[s]) /\ code'[s].state = "unused" => code'[s] = code[s]
  PROVE  CodesInv'
<1>1. ASSUME NEW q \in Reqs, NEW u \in Users
      PROVE  /\ Dropping(req[q], u) => Dropping(req[q], u)'
             /\ Drawing(req[q], u) => Drawing(req[q], u)'
  BY DEF SameAt, Dropping, Drawing
<1>2. ASSUME NEW u \in Users, NEW s \in Secrets, Usable(s, u)'
      PROVE  user'[u].secret = s \/ \E q \in Reqs : Dropping(req[q], u)'
  <2>1. Usable(s, u)
    BY <1>2 DEF Usable, Exists
  <2>2. QED BY <1>1, <2>1 DEF CodesInv
<1>3. ASSUME NEW u \in Users, user'[u].secret # "NONE"
      PROVE  \/ Exists(code'[user'[u].secret]) /\ code'[user'[u].secret].of = u
             \/ \E q \in Reqs : Drawing(req[q], u)'
  <2>1. user[u].secret \in Secrets
    BY <1>3 DEF Inv, TypeOK, UserRow
  <2>2. QED BY <1>1, <1>3, <2>1 DEF CodesInv
<1>4. ASSUME NEW q \in Reqs, req'[q].pc \in {"dropCodes", "addCodes"}
      PROVE  user'[req'[q].u].secret = req'[q].s
  <2>1. req'[q] = req[q] /\ req[q].u \in Users
    BY <1>4, RequestShape DEF SameAt, Inv, TypeOK
  <2>2. QED BY <1>4, <2>1 DEF CodesInv
<1>5. QED BY <1>2, <1>3, <1>4 DEF CodesInv, Exists

LEMMA CodesFactor ==
  ASSUME Inv, Turns, CodesInv, NEW r \in Reqs, SecretWrite(r) \/ EnableWrite(r) \/ DisableWrite(r)
  PROVE  CodesInv'
<1>1. PICK u \in Users, s \in Secrets \cup {"NONE"}, row \in UserRow, x \in Request : FactorWritten(r, u, s, row, x)
  BY FactorWriteEffect
<1>2. Goto(r, x) /\ req[r].u = u /\ req[r].pc \in {"secret", "enable", "disable"}
  BY <1>1 DEF FactorWritten
<1>3. UNCHANGED code
  BY DEF SecretWrite, EnableWrite, DisableWrite
<1>4. user'[u] = row /\ \A v \in Users \ {u} : user'[v] = user[v]
  BY <1>1, UserWritten DEF FactorWritten
<1>5. CASE x = Idle
  <2>1. row.secret = user[u].secret
    BY <1>1, <1>5, IdleKnows DEF FactorWritten
  <2>2. SameAt({"dropCodes", "addCodes"})
    BY <1>2, <1>5, IdleKnows, Elsewhere
  <2>3. \A v \in Users : user'[v].secret = user[v].secret
    BY <1>4, <2>1
  <2>4. QED BY <1>3, <2>2, <2>3, CodesMove
<1>6. CASE x # Idle
  <2>1. x.pc = "dropCodes" /\ x.u = u /\ x.s = row.secret
    BY <1>1, <1>6 DEF FactorWritten
  <2>2. req'[r] = x /\ \A q \in Reqs \ {r} : req'[q] = req[q]
    BY <1>2, RequestStep DEF Inv
  <2>3. Dropping(req[r], u)' /\ Drawing(req[r], u)'
    BY <2>1, <2>2 DEF Dropping, Drawing
  <2>4. ASSUME NEW q \in Reqs, NEW v \in Users
        PROVE  /\ Dropping(req[q], v) => Dropping(req[q], v)'
               /\ Drawing(req[q], v) => Drawing(req[q], v)'
    BY <1>2, <2>2 DEF Dropping, Drawing
  <2>5. ASSUME NEW v \in Users, NEW z \in Secrets, Usable(z, v)'
        PROVE  user'[v].secret = z \/ \E q \in Reqs : Dropping(req[q], v)'
    <3>1. Usable(z, v)
      BY <1>3, <2>5 DEF Usable, Exists
    <3>2. QED BY <1>4, <2>3, <2>4, <3>1 DEF CodesInv
  <2>6. ASSUME NEW v \in Users, user'[v].secret # "NONE"
        PROVE  \/ Exists(code'[user'[v].secret]) /\ code'[user'[v].secret].of = v
               \/ \E q \in Reqs : Drawing(req[q], v)'
    BY <1>3, <1>4, <2>3, <2>4, <2>6 DEF CodesInv
  <2>7. ASSUME NEW q \in Reqs, req'[q].pc \in {"dropCodes", "addCodes"}
        PROVE  user'[req'[q].u].secret = req'[q].s
    <3>1. CASE q = r
      BY <1>4, <2>1, <2>2, <3>1
    <3>2. CASE q # r
      <4>1. req'[q] = req[q] /\ req[q] \in Request /\ req[r] \in Request
        BY <2>2, <3>2 DEF Inv, TypeOK
      <4>2. req[q].u \in Locks(req[q]) /\ u \in Locks(req[r]) /\ req[q].u \in Users
        BY <1>2, <2>7, <4>1, LockOf, RequestShape DEF OfUser
      <4>3. req[q].u # u
        BY <3>2, <4>2, Own
      <4>4. QED BY <1>4, <2>7, <4>1, <4>2, <4>3 DEF CodesInv
    <3>3. QED BY <3>1, <3>2
  <2>8. QED BY <2>5, <2>6, <2>7 DEF CodesInv, Exists
<1>7. QED BY <1>5, <1>6

LEMMA CodesDrop ==
  ASSUME Inv, CodesInv, NEW r \in Reqs, DropCodes(r)
  PROVE  CodesInv'
<1>1. PICK u \in Users, s \in Secrets \cup {"NONE"}, x \in Request : CodesDropped(r, u, s, x)
  BY DropCodesEffect
<1>2. /\ req[r].pc = "dropCodes" /\ req[r].u = u /\ req[r].s = s /\ Goto(r, x)
      /\ \A z \in Secrets : IF Exists(code[z]) /\ code[z].of = u
                            THEN Exists(code'[z]) /\ code'[z].of = u /\ code'[z].state = "deleted"
                            ELSE code'[z] = code[z]
  BY <1>1 DEF CodesDropped
<1>3. IF s = "NONE" THEN x = Idle ELSE x.pc = "addCodes" /\ x.u = u /\ x.s = s
  BY <1>1 DEF CodesDropped
<1>4. req'[r] = x /\ \A q \in Reqs \ {r} : req'[q] = req[q]
  BY <1>2, RequestStep DEF Inv
<1>5. UNCHANGED user /\ user[u].secret = s
  BY <1>2 DEF DropCodes, CodesInv
<1>6. ASSUME NEW v \in Users, NEW z \in Secrets, Usable(z, v)'
      PROVE  user'[v].secret = z \/ \E q \in Reqs : Dropping(req[q], v)'
  <2>1. Usable(z, v) /\ v # u
    BY <1>2, <1>6 DEF Usable, Exists
  <2>2. ASSUME NEW q \in Reqs, Dropping(req[q], v)
        PROVE  Dropping(req[q], v)'
    BY <1>2, <1>4, <2>1, <2>2 DEF Dropping
  <2>3. QED BY <1>5, <2>1, <2>2 DEF CodesInv
<1>7. ASSUME NEW v \in Users, user'[v].secret # "NONE"
      PROVE  \/ Exists(code'[user'[v].secret]) /\ code'[user'[v].secret].of = v
             \/ \E q \in Reqs : Drawing(req[q], v)'
  <2>1. PICK z \in Secrets : z = user[v].secret /\ z = user'[v].secret
    BY <1>5, <1>7 DEF Inv, TypeOK, UserRow
  <2>2. CASE Exists(code[z]) /\ code[z].of = v
    BY <1>2, <2>1, <2>2 DEF Exists
  <2>3. ASSUME NEW q \in Reqs, Drawing(req[q], v)
        PROVE  Drawing(req[q], v)'
    <3>1. CASE q = r
      <4>1. v = u
        BY <1>2, <2>3, <3>1 DEF Drawing
      <4>2. x.pc = "addCodes" /\ x.u = u
        BY <1>3, <1>5, <2>1, <4>1, Limits
      <4>3. QED BY <1>4, <3>1, <4>1, <4>2 DEF Drawing
    <3>2. CASE q # r
      BY <1>4, <2>3, <3>2 DEF Drawing
    <3>3. QED BY <3>1, <3>2
  <2>4. (Exists(code[z]) /\ code[z].of = v) \/ \E q \in Reqs : Drawing(req[q], v)
    BY <2>1, Limits DEF CodesInv
  <2>5. QED BY <2>1, <2>2, <2>3, <2>4
<1>8. ASSUME NEW q \in Reqs, req'[q].pc \in {"dropCodes", "addCodes"}
      PROVE  user'[req'[q].u].secret = req'[q].s
  <2>1. CASE q = r
    BY <1>3, <1>4, <1>5, <1>8, <2>1, IdleKnows
  <2>2. CASE q # r
    BY <1>4, <1>5, <1>8, <2>2 DEF CodesInv
  <2>3. QED BY <2>1, <2>2
<1>9. QED BY <1>6, <1>7, <1>8 DEF CodesInv, Exists

LEMMA CodesAdd ==
  ASSUME Inv, CodesInv, NEW r \in Reqs, AddCodes(r)
  PROVE  CodesInv'
<1>1. PICK u \in Users, s \in Secrets :
        /\ req[r].pc = "addCodes" /\ req[r].u = u /\ req[r].s = s /\ code[s] = NoRow
        /\ code' = [code EXCEPT ![s] = [of |-> u, state |-> "unused"]]
  BY AddCodesEffect
<1>2. Goto(r, Idle) /\ UNCHANGED user /\ user[u].secret = s
  BY <1>1 DEF AddCodes, Done, CodesInv
<1>3. req'[r] = Idle /\ \A q \in Reqs \ {r} : req'[q] = req[q]
  BY <1>2, IdleKnows, RequestStep DEF Inv
<1>4. code'[s] = [of |-> u, state |-> "unused"] /\ \A z \in Secrets \ {s} : code'[z] = code[z]
  BY <1>1 DEF Inv, TypeOK
<1>5. ASSUME NEW v \in Users, NEW z \in Secrets, Usable(z, v)'
      PROVE  user'[v].secret = z \/ \E q \in Reqs : Dropping(req[q], v)'
  <2>1. CASE z = s
    BY <1>2, <1>4, <1>5, <2>1 DEF Usable
  <2>2. CASE z # s
    <3>1. Usable(z, v)
      BY <1>4, <1>5, <2>2 DEF Usable, Exists
    <3>2. ASSUME NEW q \in Reqs, Dropping(req[q], v)
          PROVE  Dropping(req[q], v)'
      BY <1>1, <1>3, <3>2 DEF Dropping
    <3>3. QED BY <1>2, <3>1, <3>2 DEF CodesInv
  <2>3. QED BY <2>1, <2>2
<1>6. ASSUME NEW v \in Users, user'[v].secret # "NONE"
      PROVE  \/ Exists(code'[user'[v].secret]) /\ code'[user'[v].secret].of = v
             \/ \E q \in Reqs : Drawing(req[q], v)'
  <2>1. PICK z \in Secrets : z = user[v].secret /\ z = user'[v].secret
    BY <1>2, <1>6 DEF Inv, TypeOK, UserRow
  <2>2. CASE Exists(code[z]) /\ code[z].of = v
    <3>1. z # s
      BY <1>1, <2>2 DEF Exists
    <3>2. QED BY <1>4, <2>1, <2>2, <3>1 DEF Exists
  <2>3. ASSUME NEW q \in Reqs, Drawing(req[q], v)
        PROVE  \/ Exists(code'[z]) /\ code'[z].of = v
               \/ Drawing(req[q], v)'
    <3>1. CASE q = r
      <4>1. v = u /\ z = s
        BY <1>1, <1>2, <2>1, <2>3, <3>1 DEF Drawing
      <4>2. code'[s] # NoRow
        BY <1>4, RowKinds
      <4>3. QED BY <1>4, <4>1, <4>2 DEF Exists
    <3>2. CASE q # r
      BY <1>3, <2>3, <3>2 DEF Drawing
    <3>3. QED BY <3>1, <3>2
  <2>4. (Exists(code[z]) /\ code[z].of = v) \/ \E q \in Reqs : Drawing(req[q], v)
    BY <2>1, Limits DEF CodesInv
  <2>5. QED BY <2>1, <2>2, <2>3, <2>4
<1>7. ASSUME NEW q \in Reqs, req'[q].pc \in {"dropCodes", "addCodes"}
      PROVE  user'[req'[q].u].secret = req'[q].s
  <2>1. q # r /\ req'[q] = req[q]
    BY <1>3, <1>7, IdleKnows
  <2>2. QED BY <1>2, <1>7, <2>1 DEF CodesInv
<1>8. QED BY <1>5, <1>6, <1>7 DEF CodesInv, Exists

LEMMA CodesUse ==
  ASSUME Inv, CodesInv, NEW r \in Reqs, UseCode(r)
  PROVE  CodesInv'
<1>1. PICK in \in Login, s \in Secrets, x \in Request : CodeUsed(r, in, s, x)
  BY UseCodeEffect
<1>2. req[r].pc = "useCode" /\ Goto(r, x) /\ x.pc \in {"idle", "resolve"}
  BY <1>1, IdleKnows DEF CodeUsed
<1>3. SameAt({"dropCodes", "addCodes"})
  BY <1>2, Elsewhere
<1>4. /\ \A z \in Secrets : Exists(code[z]) => Exists(code'[z]) /\ code'[z].of = code[z].of
      /\ \A z \in Secrets : Exists(code'[z]) /\ code'[z].state = "unused" => code'[z] = code[z]
  <2>1. CASE UNCHANGED code
    BY <2>1
  <2>2. CASE ~UNCHANGED code
    <3>1. PICK used \in [of : Users, state : {"unused", "used", "deleted"}] :
            used.of = in.u /\ used.state = "used" /\ code' = [code EXCEPT ![s] = used]
      BY <1>1, <2>2, LoginShape DEF CodeUsed
    <3>2. code'[s] = used /\ \A z \in Secrets \ {s} : code'[z] = code[z]
      BY <3>1 DEF Inv, TypeOK
    <3>3. Exists(used) /\ code[s].of = in.u
      BY <1>1, RowKinds DEF CodeUsed, Exists
    <3>4. QED BY <3>1, <3>2, <3>3
  <2>3. QED BY <2>1, <2>2
<1>5. UNCHANGED user
  BY DEF UseCode
<1>6. QED BY <1>3, <1>4, <1>5, CodesMove

LEMMA CodesStep ==
  ASSUME Inv, Turns, Calm, CodesInv, Next
  PROVE  CodesInv'
<1>1. ASSUME NEW r \in Reqs, Continues(r), ~(SecretWrite(r) \/ EnableWrite(r) \/ DisableWrite(r)),
             ~DropCodes(r), ~AddCodes(r), ~UseCode(r)
      PROVE  CodesInv'
  <2>0. UNCHANGED code /\ ~Die(r)
    BY <1>1, CodeWriters DEF Die, Calm
  <2>1. req[r].pc \notin {"dropCodes", "addCodes"}
    BY <1>1, <2>0, CodeWriters
  <2>2. \A u \in Users : user'[u].secret = user[u].secret
    BY <1>1, UserWriters, FactorsSame
  <2>3. req[r].pc \notin {"secret", "disable"}
    <3>1. CASE RecordFailure(r) \/ ClearFailures(r) \/ PasswordWrite(r)
      BY <3>1, FactorsSame
    <3>2. QED BY <1>1, <2>0, <3>1, UserWriters
  <2>4. \A m \in Moves : m[2] \in {"dropCodes", "addCodes"} => m[1] # req[r].pc
    BY <2>1, <2>3 DEF Moves
  <2>5. SameAt({"dropCodes", "addCodes"})
    BY <1>1, <2>1, <2>4, GoesElsewhere
  <2>6. QED BY <2>0, <2>2, <2>5, CodesMove
<1>2. ASSUME NEW r \in Reqs, NEW x \in Request, Starts(r, x)
      PROVE  CodesInv'
  <2>1. Goto(r, x) /\ UNCHANGED <<user, code>> /\ req[r].pc = "idle"
    BY <1>2, IdleKnows DEF Starts
  <2>2. x.pc \notin {"dropCodes", "addCodes"}
    BY <1>2 DEF Starts, Begun
  <2>3. SameAt({"dropCodes", "addCodes"})
    BY <2>1, <2>2, Elsewhere
  <2>4. QED BY <2>1, <2>3, CodesMove
<1>3. CASE Outside
  <2>1. UNCHANGED <<req, code>> /\ \A u \in Users : user'[u].secret = user[u].secret
    BY <1>3, OutsideOwners, OutsideFactors
  <2>2. SameAt({"dropCodes", "addCodes"})
    BY <2>1 DEF SameAt
  <2>3. QED BY <2>1, <2>2, CodesMove
<1>4. QED BY <1>1, <1>2, <1>3, NextCases, CodesFactor, CodesDrop, CodesAdd, CodesUse

-----------------------------------------------------------------------------
\* What is good for one use is used once.

LEMMA SomeEndRows ==
  ASSUME SomeEnd
  PROVE  /\ Stored' = Stored /\ Opened' = Opened
         /\ \A t \in Stored : /\ session'[t].of = session[t].of /\ session'[t].password = session[t].password
                              /\ session'[t].factor = session[t].factor /\ session'[t].from = session[t].from
                              /\ session'[t].live => session[t].live
<1>1. \A t \in Sessions : /\ Exists(session'[t]) <=> Exists(session[t])
                          /\ Exists(session[t]) =>
                               /\ session'[t].of = session[t].of /\ session'[t].password = session[t].password
                               /\ session'[t].factor = session[t].factor /\ session'[t].from = session[t].from
                               /\ session'[t].live => session[t].live
  BY DEF SomeEnd
<1>2. Stored' = Stored
  BY <1>1 DEF Stored, Exists
<1>3. Opened' = Opened
  BY <1>1, <1>2 DEF Opened, Stored, Exists
<1>4. QED BY <1>1, <1>2, <1>3 DEF Stored

LEMMA NoneEnds ==
  ASSUME Inv, UNCHANGED session
  PROVE  SomeEnd
BY DEF SomeEnd, Inv, TypeOK

\* What is read of user u by the requests that hold it stays; a lock may go.
AccountKept(u) ==
    /\ user'[u].password = user[u].password /\ user'[u].mfa = user[u].mfa
    /\ user'[u].locked => user[u].locked
    /\ \A s \in Secrets : Exists(code[s]) /\ code[s].of = u => code'[s] = code[s]

LEMMA EarnedKept ==
  ASSUME NEW x \in Request, x.pc \in OfLogin, Earned(x), SomeEnd, AccountKept(x.in.u)
  PROVE  Earned(x)'
<1>1. Opened' = Opened /\ \A t \in Opened : session'[t].factor = session[t].factor
  BY SomeEndRows DEF Opened
<1>2. ASSUME x.in.factor \in Secrets, x.pc # "findCode"
      PROVE  code'[x.in.factor] = code[x.in.factor]
  BY <1>2 DEF Earned, AccountKept
<1>3. QED BY <1>1, <1>2 DEF Earned, AccountKept, Exists

LEMMA RefreshingKept ==
  ASSUME NEW x \in Request, x.pc \in OfLogin, x.in.from # "NONE", Knows(x), Refreshing(x), SomeEnd
  PROVE  Refreshing(x)'
<1>1. x.in.from \in Stored
  BY RequestShape, LoginShape DEF Knows, Stored
<1>2. QED BY <1>1, SomeEndRows DEF Refreshing

LEMMA EntitledKept ==
  ASSUME NEW x \in Request, Seeking(x), Knows(x), Entitled(x), SomeEnd, AccountKept(x.in.u)
  PROVE  Entitled(x)'
BY EarnedKept, RefreshingKept DEF Entitled, Seeking

LEMMA Apart ==
  ASSUME Inv, NEW r \in Reqs, Continues(r), NEW u \in Users, u \notin Locks(req[r])
  PROVE  AccountKept(u)
<1>1. user'[u] = user[u]
  <2>1. ASSUME NEW v \in Users, NEW row \in UserRow, user' = [user EXCEPT ![v] = row], v \in Locks(req[r])
        PROVE  user'[u] = user[u]
    BY <2>1, UserWritten
  <2>2. req[r] \in Request
    BY DEF Inv, TypeOK
  <2>3. CASE RecordFailure(r)
    <3>1. PICK v \in Users, n \in 1..MaxFailures, row \in UserRow, g \in 0..(MaxFailures + 1) : FailureRecorded(r, v, n, row, g)
      BY <2>3, RecordFailureEffect
    <3>2. user' = [user EXCEPT ![v] = row] /\ v \in Locks(req[r])
      BY <2>2, <3>1, LockOf DEF FailureRecorded, OfUser
    <3>3. QED BY <2>1, <3>2
  <2>4. CASE ClearFailures(r)
    <3>1. PICK v \in Users, row \in UserRow, x \in Request : FailuresCleared(r, v, row, x)
      BY <2>4, ClearFailuresEffect
    <3>2. user' = [user EXCEPT ![v] = row] /\ v \in Locks(req[r])
      BY <2>2, <3>1, LockOf DEF FailuresCleared, OfLogin
    <3>3. QED BY <2>1, <3>2
  <2>5. CASE PasswordWrite(r)
    <3>1. PICK v \in Users, k \in Resets \cup {"NONE"}, row \in UserRow, x \in Request : PasswordWritten(r, v, k, row, x)
      BY <2>5, PasswordWriteEffect
    <3>2. user' = [user EXCEPT ![v] = row] /\ v \in Locks(req[r])
      BY <2>2, <3>1, LockOf DEF PasswordWritten, OfUser
    <3>3. QED BY <2>1, <3>2
  <2>6. CASE SecretWrite(r) \/ EnableWrite(r) \/ DisableWrite(r)
    <3>1. PICK v \in Users, s \in Secrets \cup {"NONE"}, row \in UserRow, x \in Request : FactorWritten(r, v, s, row, x)
      BY <2>6, FactorWriteEffect
    <3>2. user' = [user EXCEPT ![v] = row] /\ req[r].u = v /\ req[r].pc \in {"secret", "enable", "disable"}
      BY <3>1 DEF FactorWritten
    <3>3. v \in Locks(req[r])
      BY <2>2, <3>2, LockOf DEF OfUser
    <3>4. QED BY <2>1, <3>2, <3>3
  <2>7. QED BY <2>3, <2>4, <2>5, <2>6, UserWriters
<1>2. ASSUME NEW s \in Secrets, Exists(code[s]), code[s].of = u
      PROVE  code'[s] = code[s]
  <2>1. req[r] \in Request
    BY DEF Inv, TypeOK
  <2>2. CASE UseCode(r)
    <3>1. PICK in \in Login, z \in Secrets, x \in Request : CodeUsed(r, in, z, x)
      BY <2>2, UseCodeEffect
    <3>2. code[z].of \in Locks(req[r])
      BY <2>1, <3>1, LockOf DEF CodeUsed, OfLogin
    <3>3. z # s
      BY <1>2, <3>2
    <3>4. UNCHANGED code \/ code' = [code EXCEPT ![z] = [of |-> in.u, state |-> "used"]]
      BY <3>1 DEF CodeUsed
    <3>5. QED BY <3>3, <3>4 DEF Inv, TypeOK
  <2>3. CASE DropCodes(r)
    <3>1. PICK v \in Users, z \in Secrets \cup {"NONE"}, x \in Request : CodesDropped(r, v, z, x)
      BY <2>3, DropCodesEffect
    <3>2. v \in Locks(req[r])
      BY <2>1, <3>1, LockOf DEF CodesDropped, OfUser
    <3>3. v # u
      BY <3>2
    <3>4. QED BY <1>2, <3>1, <3>3 DEF CodesDropped
  <2>4. CASE AddCodes(r)
    <3>1. PICK z \in Secrets : code[z] = NoRow /\ code' = [code EXCEPT ![z] = [of |-> req[r].u, state |-> "unused"]]
      BY <2>4, AddCodesEffect
    <3>2. z # s
      BY <1>2, <3>1 DEF Exists
    <3>3. QED BY <3>1, <3>2 DEF Inv, TypeOK
  <2>5. QED BY <2>2, <2>3, <2>4, CodeWriters
<1>3. QED BY <1>1, <1>2 DEF AccountKept

\* Used codes stay used.
CodesOnce ==
    \A s \in Secrets : Exists(code[s]) => Exists(code'[s]) /\ (code[s].state # "unused" => code'[s].state # "unused")

LEMMA CodesOnceWritten ==
  ASSUME Inv, NEW r \in Reqs, Continues(r)
  PROVE  CodesOnce
<1>1. CASE UseCode(r)
  <2>1. PICK in \in Login, s \in Secrets, x \in Request : CodeUsed(r, in, s, x)
    BY <1>1, UseCodeEffect
  <2>2. CASE UNCHANGED code
    BY <2>2 DEF CodesOnce
  <2>3. CASE ~UNCHANGED code
    <3>1. PICK used \in [of : Users, state : {"unused", "used", "deleted"}] :
            used.state = "used" /\ code' = [code EXCEPT ![s] = used]
      BY <2>1, <2>3, LoginShape DEF CodeUsed
    <3>2. code'[s] = used /\ \A z \in Secrets \ {s} : code'[z] = code[z]
      BY <3>1 DEF Inv, TypeOK
    <3>3. Exists(used)
      BY RowKinds DEF Exists
    <3>4. QED BY <3>1, <3>2, <3>3 DEF CodesOnce
  <2>4. QED BY <2>2, <2>3
<1>2. CASE DropCodes(r)
  <2>1. PICK u \in Users, s \in Secrets \cup {"NONE"}, x \in Request : CodesDropped(r, u, s, x)
    BY <1>2, DropCodesEffect
  <2>2. \A z \in Secrets : IF Exists(code[z]) /\ code[z].of = u
                           THEN Exists(code'[z]) /\ code'[z].state = "deleted"
                           ELSE code'[z] = code[z]
    BY <2>1 DEF CodesDropped
  <2>3. QED BY <2>2 DEF CodesOnce
<1>3. CASE AddCodes(r)
  <2>1. \A z \in Secrets : Exists(code[z]) => code'[z] = code[z]
    BY <1>3, AddCodesEffect DEF Exists, Inv, TypeOK
  <2>2. QED BY <2>1 DEF CodesOnce
<1>4. QED BY <1>1, <1>2, <1>3, CodeWriters DEF CodesOnce

\* No token is stored, and who may still store one is entitled to it.
LEMMA UseMove ==
  ASSUME Inv, UseInv, SomeEnd, CodesOnce, \A q \in Reqs : Seeking(req[q])' => Entitled(req[q])'
  PROVE  UseInv'
<1>1. /\ Stored' = Stored /\ Opened' = Opened /\ Opened \subseteq Stored
      /\ \A t \in Stored : /\ session'[t].factor = session[t].factor /\ session'[t].from = session[t].from
                           /\ session'[t].live => session[t].live
  BY SomeEndRows DEF Opened
<1>2. ASSUME NEW t \in Stored, session'[t].from # "NONE"
      PROVE  ~session'[session'[t].from].live
  <2>1. session[t].from \in Stored /\ ~session[session[t].from].live
    <3>1. t \in Sessions /\ session[t].from # "NONE" /\ Exists(session[t])
      BY <1>1, <1>2 DEF Stored
    <3>2. session[t].from \in Sessions
      BY <3>1, Rows DEF Inv, SessionRow
    <3>3. QED BY <3>1, <3>2 DEF Inv, UseInv, Stored
  <2>2. QED BY <1>1, <2>1
<1>3. \A t, v \in Stored : session'[t].from = session'[v].from /\ session'[t].from # "NONE" => t = v
  BY <1>1 DEF UseInv
<1>4. \A t, v \in Opened : session'[t].factor = session'[v].factor /\ session'[t].factor \in Secrets => t = v
  BY <1>1 DEF UseInv
<1>5. \A t \in Opened : session'[t].factor \in Secrets =>
        Exists(code'[session'[t].factor]) /\ code'[session'[t].factor].state # "unused"
  BY <1>1 DEF UseInv, CodesOnce
<1>6. QED BY <1>1, <1>2, <1>3, <1>4, <1>5 DEF UseInv, Exists

LEMMA LoginOnly ==
  ASSUME NEW r \in Reqs, Continues(r), req[r].pc \in OfLogin
  PROVE  FindCode(r) \/ UseCode(r) \/ Resolve(r) \/ Rotate(r) \/ ClearFailures(r) \/ Die(r)
         \/ \E t \in Sessions : IssueTokenPair(r, t)
BY DEF Continues, Continue, OfLogin, RecordFailure, FindCode, CompareCurrent, UseCode, Resolve, ClearFailures, Rotate, IssueTokenPair,
       RevokeWrite, PasswordWrite, SpendReset, RevokeAll, InsertReset, SecretWrite, DropCodes, AddCodes, EnableWrite,
       DisableWrite, Unassign, Assign, ClearPermissionCache, GrantPermissions, StorePermissions, RevokeKeyWrite,
       LoadPermissions, Identify, At

LEMMA ReadKeeps ==
  ASSUME Inv, NEW r \in Reqs, FindCode(r) \/ Resolve(r)
  PROVE  SomeEnd /\ \A u \in Users : AccountKept(u)
<1>1. UNCHANGED <<user, session, code>>
  BY DEF FindCode, Resolve, account
<1>2. QED BY <1>1, NoneEnds DEF AccountKept

\* The request that takes the step is entitled to what it goes on with.
LEMMA EntitledFind ==
  ASSUME Inv, UseInv, NEW r \in Reqs, FindCode(r)
  PROVE  Seeking(req[r])' => Entitled(req[r])'
<1>1. PICK x \in Request :
        /\ Goto(r, x) /\ Knows(x)
        /\ req[r].pc = "findCode" /\ req[r].in.factor \in Secrets
        /\ x = Idle \/ (x.pc = "useCode" /\ x.in = req[r].in /\ Usable(req[r].in.factor, req[r].in.u))
  BY FindCodeEffect
<1>2. req'[r] = x
  BY <1>1, RequestStep DEF Inv
<1>3. CASE x = Idle
  BY <1>2, <1>3, IdleKnows DEF Seeking, OfLogin
<1>4. CASE x # Idle
  <2>1. PICK y \in Request : y = req[r] /\ Knows(y) /\ y.pc = "findCode" /\ y.in \in Login
    BY <1>1, RequestShape DEF Inv, TypeOK, OfLogin
  <2>2. x.pc = "useCode" /\ x.in = y.in /\ y.in.factor \in Secrets /\ Usable(y.in.factor, y.in.u)
    BY <1>1, <1>4, <2>1
  <2>3. x.in.from = "NONE"
    BY <2>1, <2>2 DEF Knows
  <2>4. Earned(y)
    BY <2>1, <2>2, <2>3 DEF UseInv, Seeking, Entitled, OfLogin
  <2>5. \A t \in Opened : session[t].factor # y.in.factor
    BY <2>2 DEF UseInv, Usable
  <2>6. Earned(x)
    BY <2>2, <2>4, <2>5 DEF Earned, Usable
  <2>7. Seeking(x) /\ Entitled(x) /\ x.in.u \in Users
    BY <2>1, <2>2, <2>3, <2>6, LoginShape DEF Seeking, Entitled, OfLogin
  <2>8. Entitled(x)'
    BY <1>1, <2>7, ReadKeeps, EntitledKept
  <2>9. QED BY <1>2, <2>8
<1>5. QED BY <1>3, <1>4

LEMMA EntitledUse ==
  ASSUME Inv, UseInv, NEW r \in Reqs, UseCode(r)
  PROVE  Seeking(req[r])' => Entitled(req[r])'
<1>1. PICK in \in Login, s \in Secrets, x \in Request : CodeUsed(r, in, s, x)
  BY UseCodeEffect
<1>2. /\ Goto(r, x) /\ req[r].pc = "useCode" /\ req[r].in = in /\ in.factor = s /\ in.from = "NONE"
      /\ x = Idle \/ /\ x.pc = "resolve" /\ x.in = in
                     /\ code' = [code EXCEPT ![s] = [of |-> in.u, state |-> "used"]]
  BY <1>1 DEF CodeUsed
<1>3. req'[r] = x
  BY <1>2, RequestStep DEF Inv
<1>4. CASE x = Idle
  BY <1>3, <1>4, IdleKnows DEF Seeking, OfLogin
<1>5. CASE x # Idle
  <2>1. PICK y \in Request : y = req[r]
    BY DEF Inv, TypeOK
  <2>2. Earned(y) /\ y.pc = "useCode" /\ y.in = in
    BY <1>2, <2>1 DEF UseInv, Seeking, Entitled, OfLogin
  <2>3. code'[s] = [of |-> in.u, state |-> "used"]
    BY <1>2, <1>5 DEF Inv, TypeOK
  <2>4. code'[s] # NoRow
    BY <2>3, LoginShape, RowKinds
  <2>5. UNCHANGED <<user, session>>
    BY DEF UseCode
  <2>6. Opened' = Opened
    BY <2>5 DEF Opened, Stored, Exists
  <2>7. Earned(x)'
    BY <1>2, <1>5, <2>2, <2>3, <2>4, <2>5, <2>6 DEF Earned, Exists
  <2>8. Entitled(x)'
    BY <1>2, <1>5, <2>7 DEF Entitled
  <2>9. QED BY <1>3, <2>8
<1>6. QED BY <1>4, <1>5

LEMMA EntitledResolve ==
  ASSUME Inv, UseInv, NEW r \in Reqs, Resolve(r)
  PROVE  Seeking(req[r])' => Entitled(req[r])'
<1>1. PICK x \in Request :
        /\ Goto(r, x) /\ Knows(x) /\ req[r].pc = "resolve"
        /\ \/ x = Idle
           \/ x.pc = "open" /\ x.in = req[r].in /\ x.todo = {"clear", "insert"} /\ x.in.from = "NONE"
           \/ x.pc = "rotate" /\ x.in = req[r].in /\ x.in.from # "NONE"
  BY ResolveEffect
<1>2. req'[r] = x
  BY <1>1, RequestStep DEF Inv
<1>3. CASE x = Idle
  BY <1>2, <1>3, IdleKnows DEF Seeking, OfLogin
<1>4. CASE x # Idle
  <2>1. PICK y \in Request : y = req[r] /\ y.pc = "resolve" /\ y.in \in Login
    BY <1>1, RequestShape DEF Inv, TypeOK, OfLogin
  <2>2. Entitled(y) /\ x.in = y.in /\ x.pc \in {"open", "rotate"} /\ (x.pc = "open" <=> x.in.from = "NONE")
    BY <1>1, <1>4, <2>1 DEF UseInv, Seeking, OfLogin
  <2>3. Entitled(x)
    BY <2>1, <2>2 DEF Entitled, Earned, Refreshing
  <2>4. Seeking(x) /\ x.in.u \in Users
    BY <1>1, <1>4, <2>1, <2>2, LoginShape DEF Seeking, OfLogin
  <2>5. Entitled(x)'
    BY <1>1, <2>3, <2>4, ReadKeeps, EntitledKept
  <2>6. QED BY <1>2, <2>5
<1>5. QED BY <1>3, <1>4

LEMMA EntitledRotate ==
  ASSUME Inv, UseInv, NEW r \in Reqs, Rotate(r)
  PROVE  Seeking(req[r])' => Entitled(req[r])'
<1>1. PICK x \in Request : Rotated(r, x)
  BY RotateEffect
<1>2. /\ req[r].pc = "rotate" /\ req[r].in.from \in Sessions /\ Exists(session[req[r].in.from])
      /\ Ends(req[r].in.from)
      /\ Goto(r, x) /\ x.pc = "open" /\ x.in = req[r].in
  BY <1>1 DEF Rotated
<1>3. req'[r] = x
  BY <1>2, RequestStep DEF Inv
<1>4. PICK y \in Request : y = req[r] /\ Knows(y)
  BY DEF Inv, TypeOK
<1>5. y.in.from # "NONE" /\ Refreshing(y)
  BY <1>2, <1>4 DEF Knows, UseInv, Seeking, Entitled, OfLogin
<1>6. SomeEnd
  BY <1>2, EndsSome
<1>7. ~session'[y.in.from].live
  BY <1>2, <1>4 DEF Ends, Inv, TypeOK
<1>8. \A t \in Stored : session'[t].from # y.in.from
  BY <1>5, <1>6, SomeEndRows DEF Refreshing
<1>9. Refreshing(x)'
  BY <1>2, <1>4, <1>6, <1>7, <1>8, SomeEndRows DEF Refreshing
<1>10. Entitled(x)'
  BY <1>2, <1>4, <1>5, <1>9 DEF Entitled
<1>11. QED BY <1>3, <1>10

LEMMA EntitledClear ==
  ASSUME Inv, UseInv, NEW r \in Reqs, ClearFailures(r)
  PROVE  Seeking(req[r])' => Entitled(req[r])'
<1>1. PICK u \in Users, row \in UserRow, x \in Request : FailuresCleared(r, u, row, x)
  BY ClearFailuresEffect
<1>2. /\ req[r].pc = "open" /\ req[r].in.u = u /\ user' = [user EXCEPT ![u] = row]
      /\ row.password = user[u].password /\ row.mfa = user[u].mfa /\ row.locked = FALSE
      /\ x = Idle \/ (x.pc = "open" /\ x.in = req[r].in /\ x.todo = req[r].todo \ {"clear"})
  BY <1>1 DEF FailuresCleared
<1>3. Goto(r, x) /\ req'[r] = x
  BY <1>1, RequestStep DEF Inv, FailuresCleared
<1>4. CASE x = Idle
  BY <1>3, <1>4, IdleKnows DEF Seeking, OfLogin
<1>5. ASSUME x # Idle, Seeking(x)
      PROVE  Entitled(x)'
  <2>1. PICK y \in Request : y = req[r] /\ Knows(y)
    BY DEF Inv, TypeOK
  <2>2. x.pc = "open" /\ y.pc = "open" /\ x.in = y.in /\ x.in.u = u /\ x.todo = y.todo \ {"clear"}
    BY <1>2, <1>3, <1>5, <2>1 DEF FailuresCleared
  <2>3. Seeking(y)
    BY <1>5, <2>2 DEF Seeking, OfLogin
  <2>4. Entitled(y)
    BY <2>1, <2>3 DEF UseInv
  <2>5. Entitled(x) /\ Knows(x)
    BY <2>1, <2>2, <2>4 DEF Entitled, Earned, Refreshing, Knows, OfLogin, OfReset
  <2>6. UNCHANGED <<session, code>>
    BY DEF ClearFailures
  <2>7. user'[u] = row
    BY <1>2, UserWritten
  <2>8. AccountKept(u)
    BY <1>2, <2>6, <2>7 DEF AccountKept
  <2>9. QED BY <1>5, <2>2, <2>5, <2>6, <2>8, NoneEnds, EntitledKept
<1>6. QED BY <1>3, <1>4, <1>5

LEMMA EntitledOn ==
  ASSUME Inv, UseInv, NEW r \in Reqs, Continues(r), ~\E t \in Sessions : IssueTokenPair(r, t)
  PROVE  Seeking(req[r])' => Entitled(req[r])'
<1>1. PICK x \in Request : GoesOn(r, x)
  BY ContinuesOn
<1>2. req'[r] = x
  BY <1>1, RequestStep DEF GoesOn, Inv
<1>3. CASE req[r].pc \in OfLogin
  <2>1. CASE Die(r)
    <3>1. req'[r] = Idle
      BY <2>1, IdleKnows, RequestStep DEF Die, Done, Inv
    <3>2. QED BY <3>1, IdleKnows DEF Seeking, OfLogin
  <2>2. QED BY <1>3, <2>1, LoginOnly, EntitledFind, EntitledUse, EntitledResolve, EntitledRotate, EntitledClear
<1>4. CASE req[r].pc \notin OfLogin
  <2>1. x.pc \notin OfLogin
    BY <1>1, <1>4, IdleKnows DEF GoesOn, Moves, OfLogin
  <2>2. QED BY <1>2, <2>1 DEF Seeking
<1>5. QED BY <1>3, <1>4

\* The others are as entitled as they were, if no token is stored.
LEMMA EntitledOthers ==
  ASSUME Inv, Turns, UseInv, NEW r \in Reqs, Continues(r), ~\E t \in Sessions : IssueTokenPair(r, t),
         NEW q \in Reqs \ {r}
  PROVE  Seeking(req[q])' => Entitled(req[q])'
<1>1. PICK x \in Request : GoesOn(r, x)
  BY ContinuesOn
<1>2. PICK y \in Request : y = req[q] /\ Knows(y)
  BY DEF Inv, TypeOK
<1>3. req'[q] = y
  BY <1>1, <1>2, RequestStep DEF GoesOn, Inv
<1>4. ASSUME Seeking(y)
      PROVE  Entitled(y)'
  <2>1. Entitled(y) /\ y.pc \in OfLogin /\ y.in.u \in Users
    BY <1>2, <1>4, RequestShape, LoginShape DEF UseInv, Seeking
  <2>2. y.in.u \in Locks(y)
    BY <2>1, LockOf
  <2>3. y.in.u \notin Locks(req[r])
    BY <1>2, <2>2, Own
  <2>4. AccountKept(y.in.u)
    BY <2>1, <2>3, Apart
  <2>5. QED BY <1>2, <1>4, <2>1, <2>4, SessionsEnd, EntitledKept
<1>5. QED BY <1>3, <1>4

\* Storing a token.
LEMMA IssuedApart ==
  ASSUME Inv, Turns, UseInv, NEW r \in Reqs, NEW t \in Sessions, NEW in \in Login, NEW row \in SessionRow,
         NEW x \in Request, IssueTokenPair(r, t), TokenIssued(r, t, in, row, x), NEW q \in Reqs \ {r}
  PROVE  Seeking(req[q])' => Entitled(req[q])'
<1>1. /\ req[r].pc = "open" /\ req[r].in = in /\ "insert" \in req[r].todo
      /\ session[t] = NoRow /\ session' = [session EXCEPT ![t] = row]
      /\ row.of = in.u /\ row.factor = in.factor /\ row.from = in.from
      /\ Goto(r, x)
  BY DEF TokenIssued
<1>2. PICK y \in Request : y = req[q] /\ Knows(y)
  BY DEF Inv, TypeOK
<1>3. PICK z \in Request : z = req[r] /\ Knows(z)
  BY DEF Inv, TypeOK
<1>4. req'[q] = y
  BY <1>1, <1>2, RequestStep DEF Inv
<1>5. session'[t] = row /\ row # NoRow /\ \A v \in Sessions \ {t} : session'[v] = session[v]
  BY <1>1, RowKinds DEF Inv, TypeOK
<1>6. UNCHANGED <<user, code>>
  BY DEF IssueTokenPair
<1>7. ASSUME Seeking(y)
      PROVE  Entitled(y)'
  <2>1. y.pc \in OfLogin /\ z.pc \in OfLogin /\ Entitled(y) /\ Entitled(z) /\ z.in = in /\ z.pc = "open"
    BY <1>1, <1>2, <1>3, <1>7 DEF UseInv, Seeking, OfLogin
  <2>2. y.in.u # in.u
    <3>1. y.in.u \in Locks(req[q]) /\ in.u \in Locks(req[r])
      BY <1>2, <1>3, <2>1, LockOf
    <3>2. QED BY <3>1, Own
  <2>3. CASE y.in.from = "NONE"
    <3>1. Earned(y)
      BY <2>1, <2>3 DEF Entitled
    <3>2. ASSUME y.in.factor \in Secrets, y.pc # "findCode", NEW v \in Opened'
          PROVE  session'[v].factor # y.in.factor
      <4>1. CASE v = t
        <5>1. in.from = "NONE"
          BY <1>1, <1>5, <3>2, <4>1 DEF Opened, Stored
        <5>2. Earned(z)
          BY <2>1, <5>1 DEF Entitled
        <5>3. in.factor = y.in.factor => code[y.in.factor].of = in.u
          BY <2>1, <3>2, <5>2 DEF Earned
        <5>4. code[y.in.factor].of = y.in.u
          BY <3>1, <3>2 DEF Earned
        <5>5. QED BY <1>1, <1>5, <2>2, <4>1, <5>3, <5>4
      <4>2. CASE v # t
        <5>1. v \in Opened /\ session'[v] = session[v]
          BY <1>5, <3>2, <4>2 DEF Opened, Stored, Exists
        <5>2. QED BY <3>1, <3>2, <5>1 DEF Earned
      <4>3. QED BY <4>1, <4>2
    <3>3. Earned(y)'
      BY <1>6, <3>1, <3>2 DEF Earned, Exists
    <3>4. QED BY <2>3, <3>3 DEF Entitled
  <2>4. CASE y.in.from # "NONE"
    <3>1. y.in.from \in Sessions /\ Exists(session[y.in.from]) /\ session[y.in.from].of = y.in.u /\ Refreshing(y)
      BY <1>2, <2>1, <2>4, RequestShape, LoginShape DEF Knows, Entitled
    <3>2. session'[y.in.from] = session[y.in.from]
      BY <1>1, <1>5, <3>1 DEF Exists
    <3>3. in.from # y.in.from
      <4>1. in.from # "NONE" => session[in.from].of = in.u
        BY <1>3, <2>1 DEF Knows
      <4>2. QED BY <2>2, <2>4, <3>1, <4>1
    <3>4. ASSUME NEW v \in Stored'
          PROVE  session'[v].from # y.in.from
      <4>1. CASE v = t
        BY <1>1, <1>5, <3>3, <4>1
      <4>2. CASE v # t
        <5>1. v \in Stored /\ session'[v] = session[v]
          BY <1>5, <3>4, <4>2 DEF Stored, Exists
        <5>2. QED BY <3>1, <5>1 DEF Refreshing
      <4>3. QED BY <4>1, <4>2
    <3>5. Refreshing(y)'
      BY <3>1, <3>2, <3>4 DEF Refreshing
    <3>6. QED BY <2>4, <3>5 DEF Entitled
  <2>5. QED BY <2>3, <2>4
<1>8. QED BY <1>4, <1>7

LEMMA UseIssue ==
  ASSUME Inv, Turns, UseInv, NEW r \in Reqs, NEW t \in Sessions, IssueTokenPair(r, t)
  PROVE  UseInv'
<1>1. PICK in \in Login, row \in SessionRow, x \in Request : TokenIssued(r, t, in, row, x)
  BY IssueTokenPairEffect
<1>2. /\ req[r].pc = "open" /\ req[r].in = in /\ "insert" \in req[r].todo
      /\ session[t] = NoRow /\ session' = [session EXCEPT ![t] = row]
      /\ row.of = in.u /\ row.factor = in.factor /\ row.from = in.from
      /\ Goto(r, x) /\ (x = Idle \/ (x.pc = "open" /\ x.in = in /\ x.todo = req[r].todo \ {"insert"}))
  BY <1>1 DEF TokenIssued
<1>3. PICK z \in Request : z = req[r] /\ Knows(z) /\ z.pc = "open" /\ z.in = in
  BY <1>2 DEF Inv, TypeOK
<1>4. IF in.from = "NONE" THEN Earned(z) ELSE Refreshing(z)
  BY <1>2, <1>3 DEF UseInv, Seeking, Entitled, OfLogin
<1>5. session'[t] = row /\ row # NoRow /\ \A v \in Sessions \ {t} : session'[v] = session[v]
  BY <1>2, RowKinds DEF Inv, TypeOK
<1>6. UNCHANGED code
  BY DEF IssueTokenPair
<1>7. t \notin Stored /\ Stored' = Stored \cup {t} /\ \A v \in Stored : session'[v] = session[v]
  BY <1>2, <1>5 DEF Stored, Exists
<1>8. Opened' = IF in.from = "NONE" THEN Opened \cup {t} ELSE Opened
  BY <1>2, <1>5, <1>7 DEF Opened
<1>9. in.from # "NONE" => in.from \in Stored
  BY <1>3, LoginShape DEF Knows, OfLogin, Stored
<1>10. ASSUME NEW v \in Stored', session'[v].from # "NONE"
       PROVE  ~session'[session'[v].from].live
  <2>1. CASE v = t
    <3>1. session'[v].from = in.from /\ in.from # "NONE"
      BY <1>2, <1>5, <1>10, <2>1
    <3>2. ~session[in.from].live
      BY <1>3, <1>4, <3>1 DEF Refreshing
    <3>3. QED BY <1>7, <1>9, <3>1, <3>2
  <2>2. CASE v # t
    <3>1. v \in Stored /\ session'[v] = session[v] /\ session[v].from # "NONE"
      BY <1>7, <1>10, <2>2
    <3>2. session[v].from \in Stored
      <4>1. v \in Sessions /\ Exists(session[v])
        BY <3>1 DEF Stored
      <4>2. session[v].from \in Sessions
        BY <3>1, <4>1, Rows DEF Inv, SessionRow
      <4>3. QED BY <3>1, <4>1, <4>2 DEF Inv, Stored
    <3>3. QED BY <1>7, <3>1, <3>2 DEF UseInv
  <2>3. QED BY <2>1, <2>2
<1>11. ASSUME NEW v \in Stored', NEW w \in Stored', session'[v].from = session'[w].from, session'[v].from # "NONE"
       PROVE  v = w
  <2>1. ASSUME NEW s \in Stored, session[s].from = in.from, in.from # "NONE"
        PROVE  FALSE
    BY <1>3, <1>4, <2>1 DEF Refreshing
  <2>2. QED BY <1>2, <1>5, <1>7, <1>11, <2>1 DEF UseInv
<1>12. ASSUME NEW v \in Opened', NEW w \in Opened', session'[v].factor = session'[w].factor, session'[v].factor \in Secrets
       PROVE  v = w
  <2>1. ASSUME NEW s \in Opened, session[s].factor = in.factor, in.factor \in Secrets, in.from = "NONE"
        PROVE  FALSE
    BY <1>3, <1>4, <2>1 DEF Earned
  <2>2. \A s \in Opened : session'[s] = session[s]
    BY <1>7 DEF Opened
  <2>3. QED BY <1>2, <1>5, <1>8, <1>12, <2>1, <2>2 DEF UseInv
<1>13. ASSUME NEW v \in Opened', session'[v].factor \in Secrets
       PROVE  Exists(code[session'[v].factor]) /\ code[session'[v].factor].state # "unused"
  <2>1. CASE v \in Opened
    <3>1. session'[v] = session[v]
      BY <1>7, <2>1 DEF Opened
    <3>2. QED BY <1>13, <2>1, <3>1 DEF UseInv
  <2>2. CASE v \notin Opened
    <3>1. v = t /\ in.from = "NONE"
      BY <1>8, <1>13, <2>2
    <3>2. Earned(z) /\ session'[v].factor = in.factor
      BY <1>2, <1>4, <1>5, <3>1
    <3>3. QED BY <1>3, <1>13, <3>2 DEF Earned
  <2>3. QED BY <2>1, <2>2
<1>14. ASSUME NEW q \in Reqs, Seeking(req[q])'
       PROVE  Entitled(req[q])'
  <2>1. CASE q = r
    <3>1. req'[r] = x
      BY <1>2, RequestStep DEF Inv
    <3>2. ~Seeking(x)
      BY <1>2, IdleKnows DEF Seeking, OfLogin
    <3>3. QED BY <1>14, <2>1, <3>1, <3>2
  <2>2. CASE q # r
    BY <1>1, <1>14, <2>2, IssuedApart
  <2>3. QED BY <2>1, <2>2
<1>15. QED BY <1>6, <1>10, <1>11, <1>12, <1>13, <1>14 DEF UseInv, Exists

LEMMA UseStart ==
  ASSUME Inv, UseInv, NEW r \in Reqs, NEW x \in Request, Starts(r, x)
  PROVE  UseInv'
<1>1. /\ Goto(r, x) /\ UNCHANGED <<user, session, code>> /\ Knows(x)
      /\ x.pc \in OfLogin => x.pc \in {"findCode", "resolve"}
  BY DEF Starts, Begun, OfLogin
<1>2. req'[r] = x /\ \A q \in Reqs \ {r} : req'[q] = req[q]
  BY <1>1, RequestStep DEF Inv
<1>3. SomeEnd /\ CodesOnce /\ \A u \in Users : AccountKept(u)
  BY <1>1, NoneEnds DEF CodesOnce, AccountKept
<1>4. ASSUME NEW q \in Reqs, NEW y \in Request, req'[q] = y, Knows(y), Seeking(y) => Entitled(y)
      PROVE  Seeking(req[q])' => Entitled(req[q])'
  <2>1. ASSUME Seeking(y)
        PROVE  Entitled(y)'
    <3>1. y.in.u \in Users
      BY <2>1, RequestShape, LoginShape DEF Seeking
    <3>2. QED BY <1>3, <1>4, <2>1, <3>1, EntitledKept
  <2>2. QED BY <1>4, <2>1
<1>5. ASSUME Seeking(x)
      PROVE  Entitled(x)
  <2>1. x.pc \in {"findCode", "resolve"} /\ x.in \in Login
    BY <1>1, <1>5, RequestShape DEF Seeking
  <2>2. CASE x.in.from = "NONE"
    <3>1. FoundLogin(x.in) /\ (x.pc = "findCode" <=> x.in.factor \in Secrets)
      BY <2>1, <2>2 DEF Starts, Begun
    <3>2. QED BY <2>2, <3>1 DEF Entitled, Earned, FoundLogin
  <2>3. CASE x.in.from # "NONE"
    <3>1. Live(x.in.from)
      BY <2>1, <2>3 DEF Starts, Begun
    <3>2. \A t \in Stored : session[t].from # x.in.from
      BY <2>3, <3>1 DEF UseInv, Live
    <3>3. QED BY <2>1, <2>3, <3>2 DEF Entitled, Refreshing
  <2>4. QED BY <2>2, <2>3
<1>6. ASSUME NEW q \in Reqs
      PROVE  Seeking(req[q])' => Entitled(req[q])'
  <2>1. CASE q = r
    BY <1>1, <1>2, <1>4, <1>5, <2>1
  <2>2. CASE q # r
    <3>1. PICK y \in Request : y = req[q] /\ Knows(y)
      BY DEF Inv, TypeOK
    <3>2. req'[q] = y /\ (Seeking(y) => Entitled(y))
      BY <1>2, <2>2, <3>1 DEF UseInv
    <3>3. QED BY <1>4, <3>1, <3>2
  <2>3. QED BY <2>1, <2>2
<1>7. QED BY <1>3, <1>6, UseMove

LEMMA UseStep ==
  ASSUME Inv, Turns, ~MayOverlap, UseInv, Next
  PROVE  UseInv'
<1>1. ASSUME NEW r \in Reqs, Continues(r), ~\E t \in Sessions : IssueTokenPair(r, t)
      PROVE  UseInv'
  <2>1. SomeEnd /\ CodesOnce
    BY <1>1, SessionsEnd, CodesOnceWritten
  <2>2. ASSUME NEW q \in Reqs
        PROVE  Seeking(req[q])' => Entitled(req[q])'
    <3>1. CASE q = r
      BY <1>1, <3>1, EntitledOn
    <3>2. CASE q # r
      BY <1>1, <3>2, EntitledOthers
    <3>3. QED BY <3>1, <3>2
  <2>3. QED BY <2>1, <2>2, UseMove
<1>2. CASE Outside
  <2>1. UNCHANGED req /\ UNCHANGED code
    BY <1>2, OutsideOwners, OutsideFactors
  <2>2. SomeEnd /\ CodesOnce
    BY <1>2, <2>1, OutsideRows DEF CodesOnce
  <2>3. \A u \in Users : user'[u].password = user[u].password
    BY <1>2, OutsideRows
  <2>4. \A u \in Users : user'[u].mfa = user[u].mfa /\ (user'[u].locked => user[u].locked)
    BY <1>2, OutsideFactors
  <2>5. \A u \in Users : AccountKept(u)
    BY <2>1, <2>3, <2>4 DEF AccountKept
  <2>6. ASSUME NEW q \in Reqs, Seeking(req[q])'
        PROVE  Entitled(req[q])'
    <3>1. PICK y \in Request : y = req[q] /\ Knows(y)
      BY DEF Inv, TypeOK
    <3>2. req'[q] = y
      BY <2>1, <3>1
    <3>3. Seeking(y)
      BY <2>6, <3>2
    <3>4. Entitled(y) /\ y.in.u \in Users
      BY <3>1, <3>3, RequestShape, LoginShape DEF UseInv, Seeking
    <3>5. Entitled(y)'
      BY <2>2, <2>5, <3>1, <3>3, <3>4, EntitledKept
    <3>6. QED BY <3>2, <3>5
  <2>7. QED BY <2>2, <2>6, UseMove
<1>3. QED BY <1>1, <1>2, NextCases, UseIssue, UseStart

-----------------------------------------------------------------------------
\* Together.

LEMMA SerialInit ==
  ASSUME Init
  PROVE  SerialInv
<1>1. Inv
  BY InitInv
<1>2. /\ \A q \in Reqs : req[q] = Idle
      /\ \A t \in Sessions : ~Exists(session[t])
      /\ \A s \in Secrets : ~Exists(code[s])
      /\ \A k \in Resets : ~Exists(reset[k])
      /\ \A o \in Roles : cache[o] = NoRow
      /\ \A u \in Users : /\ user[u].failures = 0 /\ user[u].locked = FALSE /\ user[u].mfa = FALSE
                          /\ user[u].secret = "NONE" /\ guesses[u] = 0
                          /\ holds[u] \in {{o} : o \in Roles}
  BY DEF Init, Exists
<1>3. \A q \in Reqs : req[q].pc = "idle"
  BY <1>2, IdleKnows
<1>4. Turns
  BY <1>2 DEF Turns, Locks, Idle, OfLogin, OfRoles, OfUser, OfRole
<1>5. Stored = {} /\ Opened = {}
  BY <1>2 DEF Stored, Opened
<1>6. UseInv
  BY <1>3, <1>5 DEF UseInv, Seeking, OfLogin
<1>7. FactorInv /\ CacheInv
  BY <1>2, <1>3 DEF FactorInv, CacheInv, Exists
<1>8. LockInv
  BY <1>2, <1>3 DEF LockInv, Counted
<1>9. PasswordInv /\ ResetInv
  BY <1>2, <1>3 DEF PasswordInv, ResetInv, Live, OfLogin
<1>10. CodesInv /\ RoleInv
  BY <1>2, <1>3 DEF CodesInv, RoleInv, Usable
<1>11. QED BY <1>1, <1>4, <1>6, <1>7, <1>8, <1>9, <1>10 DEF SerialInv

LEMMA SerialStep ==
  ASSUME SerialInv, Next
  PROVE  SerialInv'
<1>1. Inv /\ Inv'
  BY NextInv DEF SerialInv
<1>2. MayOverlap' = MayOverlap /\ Calm' = Calm
  BY ModeSame DEF Next
<1>3. ASSUME ~MayOverlap
      PROVE  Turns' /\ UseInv' /\ FactorInv' /\ CacheInv'
  <2>1. Turns /\ UseInv /\ FactorInv /\ CacheInv
    BY <1>3 DEF SerialInv
  <2>2. Turns'
    BY <1>1, <1>3, <2>1, TurnsStep
  <2>3. UseInv'
    BY <1>1, <1>3, <2>1, UseStep
  <2>4. FactorInv'
    BY <1>1, <1>3, <2>1, FactorStep
  <2>5. CacheInv'
    BY <1>1, <1>3, <2>1, CacheStep
  <2>6. QED BY <2>2, <2>3, <2>4, <2>5
<1>4. ASSUME Calm
      PROVE  LockInv' /\ PasswordInv' /\ ResetInv' /\ CodesInv' /\ RoleInv'
  <2>1. LockInv /\ PasswordInv /\ ResetInv /\ CodesInv /\ RoleInv
    BY <1>4 DEF SerialInv
  <2>2. Turns
    BY <1>4 DEF SerialInv, Calm
  <2>3. LockInv'
    BY <1>1, <1>4, <2>1, <2>2, LockStep
  <2>4. PasswordInv'
    BY <1>1, <1>4, <2>1, <2>2, PasswordStep
  <2>5. ResetInv'
    BY <1>1, <1>4, <2>1, <2>2, ResetStep
  <2>6. CodesInv'
    BY <1>1, <1>4, <2>1, <2>2, CodesStep
  <2>7. RoleInv'
    BY <1>1, <1>4, <2>1, <2>2, RoleStep
  <2>8. QED BY <2>3, <2>4, <2>5, <2>6, <2>7
<1>5. QED BY <1>1, <1>2, <1>3, <1>4 DEF SerialInv

LEMMA SerialStutter ==
  ASSUME SerialInv, UNCHANGED vars
  PROVE  SerialInv'
<1>1. UNCHANGED <<mode, req, user, session, reset, code, guesses, proved, holds, grants, cache, stored, key>>
  BY DEF vars, account, access
<1>2. Inv'
  BY NextInv DEF SerialInv
<1>3. MayOverlap' = MayOverlap /\ Calm' = Calm
  BY <1>1, ModeSame
<1>4. Turns => Turns'
  BY <1>1 DEF Turns, Locks
<1>5. UseInv => UseInv'
  BY <1>1 DEF UseInv, Stored, Opened, Entitled, Earned, Refreshing, Exists
<1>6. FactorInv => FactorInv'
  BY <1>1 DEF FactorInv
<1>7. CacheInv => CacheInv'
  BY <1>1 DEF CacheInv, Exists
<1>8. LockInv => LockInv'
  BY <1>1 DEF LockInv, Counted
<1>9. PasswordInv => PasswordInv'
  BY <1>1 DEF PasswordInv, Live, Exists
<1>10. ResetInv => ResetInv'
  BY <1>1 DEF ResetInv, Exists
<1>11. CodesInv => CodesInv'
  BY <1>1 DEF CodesInv, Usable, Exists
<1>12. RoleInv => RoleInv'
  BY <1>1 DEF RoleInv
<1>13. QED BY <1>2, <1>3, <1>4, <1>5, <1>6, <1>7, <1>8, <1>9, <1>10, <1>11, <1>12 DEF SerialInv

LEMMA SerialInvariance == Spec => []SerialInv
<1>1. SerialInv /\ [Next]_vars => SerialInv'
  BY SerialStep, SerialStutter
<1>2. QED BY <1>1, SerialInit, PTL DEF Spec

LEMMA ServedBy ==
  ASSUME Inv, NEW r \in Reqs, NEW u, req[r].pc \in OfUser \cup OfRoles, req[r].u = u
  PROVE  Served(u)
<1>1. req[r] \in Request
  BY DEF Inv, TypeOK
<1>2. u \in Locks(req[r])
  BY <1>1, LockOf
<1>3. QED BY <1>2, TouchesLocks DEF Served

\* As long as requests take turns and none dies, MAX_FAILED_ATTEMPTS failed logins in a
\* row lock the user (login, registerFailedAttempt), and login compares no password while
\* the lock stands; a password changePassword compares is neither refused nor counted.
THEOREM LockoutStands == Spec => []LockoutHolds
<1>1. SerialInv => LockoutHolds
  <2> SUFFICES ASSUME SerialInv, Calm, NEW u \in Users
               PROVE  /\ guesses[u] <= MaxFailures
                      /\ ~Served(u) => guesses[u] = user[u].failures
                      /\ user[u].locked => guesses[u] = 0
    BY DEF LockoutHolds
  <2>1. Inv /\ LockInv
    BY DEF SerialInv
  <2>2. user[u].failures \in 0..(MaxFailures - 1) /\ MaxFailures \in Nat
    BY <2>1, Limits DEF Inv, TypeOK, UserRow
  <2>3. CASE Counted(u)
    BY <2>2, <2>3 DEF Counted
  <2>4. ASSUME NEW r \in Reqs, Failing(req[r], u)
        PROVE  guesses[u] <= MaxFailures /\ ~user[u].locked /\ Served(u)
    <3>1. req[r].pc = "fail" /\ req[r].u = u
      BY <2>4 DEF Failing
    <3>2. guesses[u] = user[u].failures + 1 /\ ~user[u].locked
      BY <2>1, <3>1 DEF LockInv
    <3>3. Served(u)
      BY <2>1, <3>1, ServedBy DEF OfUser
    <3>4. QED BY <2>2, <3>2, <3>3
  <2>5. QED BY <2>1, <2>3, <2>4 DEF LockInv
<1>2. QED BY SerialInvariance, <1>1, PTL

\* Sessions end with the password they were opened with (changePassword,
\* resetPassword), refresh tokens, reset tokens and recovery codes are used once, and
\* the second factor asked for was seen to work (enableMfa).
THEOREM CredentialsAreSound == Spec => []CredentialsSound
<1>1. SerialInv => CredentialsSound
  <2> SUFFICES ASSUME SerialInv
               PROVE  CredentialsSound
    OBVIOUS
  <2>1. Inv /\ TypeOK
    BY DEF SerialInv, Inv
  <2>2. SessionsKnowPassword
    <3> SUFFICES ASSUME Calm, NEW t \in Sessions, Live(t), ~Served(session[t].of)
                 PROVE  session[t].password = user[session[t].of].password
      BY DEF SessionsKnowPassword
    <3>1. PasswordInv
      BY DEF SerialInv
    <3>2. ASSUME NEW r \in Reqs, Ending(req[r], session[t].of)
          PROVE  FALSE
      BY <2>1, <3>2, ServedBy DEF Ending, OfUser
    <3>3. QED BY <3>1, <3>2 DEF PasswordInv
  <2>3. OneUse
    <3> SUFFICES ASSUME ~MayOverlap
                 PROVE  /\ \A t, v \in {x \in Sessions : Exists(session[x])} : t # v =>
                             /\ session[t].from = session[v].from => session[t].from = "NONE"
                             /\ session[t].factor = session[v].factor /\ session[t].factor \in Secrets =>
                                  {session[t].from, session[v].from} # {"NONE"}
                        /\ Calm => \A k \in Resets : Exists(reset[k]) => reset[k].uses <= 1
      BY DEF OneUse
    <3>1. UseInv
      BY DEF SerialInv
    <3>2. ASSUME NEW t \in Stored, NEW v \in Stored, t # v
          PROVE  /\ session[t].from = session[v].from => session[t].from = "NONE"
                 /\ session[t].factor = session[v].factor /\ session[t].factor \in Secrets =>
                      {session[t].from, session[v].from} # {"NONE"}
      <4>1. session[t].from = session[v].from => session[t].from = "NONE"
        BY <3>1, <3>2 DEF UseInv
      <4>2. {session[t].from, session[v].from} = {"NONE"} => t \in Opened /\ v \in Opened
        BY DEF Opened
      <4>3. QED BY <3>1, <3>2, <4>1, <4>2 DEF UseInv
    <3>3. Calm => \A k \in Resets : Exists(reset[k]) => reset[k].uses <= 1
      BY DEF SerialInv, ResetInv
    <3>4. QED BY <3>2, <3>3 DEF Stored
  <2>4. SecondFactorWorks
    <3> SUFFICES ASSUME ~MayOverlap, NEW u \in Users
                 PROVE  /\ user[u].mfa => user[u].secret \in proved
                        /\ Calm /\ ~Served(u) =>
                             \A s \in Secrets : Usable(s, u) <=> user[u].secret = s /\ code[s].state = "unused"
      BY DEF SecondFactorWorks
    <3>1. user[u].mfa => user[u].secret \in proved
      BY DEF SerialInv, FactorInv
    <3>2. ASSUME Calm, ~Served(u), NEW s \in Secrets
          PROVE  Usable(s, u) <=> user[u].secret = s /\ code[s].state = "unused"
      <4>1. CodesInv
        BY <3>2 DEF SerialInv
      <4>2. \A r \in Reqs : ~Dropping(req[r], u) /\ ~Drawing(req[r], u)
        BY <2>1, <3>2, ServedBy DEF Dropping, Drawing, OfUser
      <4>3. Usable(s, u) => user[u].secret = s
        BY <4>1, <4>2 DEF CodesInv
      <4>4. user[u].secret = s => Exists(code[s]) /\ code[s].of = u
        BY <4>1, <4>2, Limits DEF CodesInv
      <4>5. QED BY <4>3, <4>4 DEF Usable
    <3>3. QED BY <3>1, <3>2
  <2>5. QED BY <2>1, <2>2, <2>3, <2>4 DEF CredentialsSound
<1>2. QED BY SerialInvariance, <1>1, PTL

\* As long as requests take turns, a session is opened by the password of that moment
\* and, with MFA on, a second factor (login); or it replaces one, which ends (refresh).
THEOREM SessionsAreEarned == Spec => SessionsEarned
<1>1. SerialInv /\ [Next]_vars =>
        (~MayOverlap =>
           \A t \in Sessions :
             Exists(session'[t]) /\ ~Exists(session[t]) =>
               LET s == session'[t]  u == user[s.of] IN
               IF s.from = "NONE"
               THEN s.password = u.password /\ (u.mfa <=> s.factor # "NONE") /\ ~u.locked
               ELSE ~Live(s.from) /\ s.factor = session[s.from].factor)
  <2> SUFFICES ASSUME SerialInv, [Next]_vars, ~MayOverlap, NEW t \in Sessions,
                      Exists(session'[t]), ~Exists(session[t])
               PROVE  IF session'[t].from = "NONE"
                      THEN /\ session'[t].password = user[session'[t].of].password
                           /\ user[session'[t].of].mfa <=> session'[t].factor # "NONE"
                           /\ ~user[session'[t].of].locked
                      ELSE /\ ~Live(session'[t].from)
                           /\ session'[t].factor = session[session'[t].from].factor
    OBVIOUS
  <2>1. Inv /\ UseInv
    BY DEF SerialInv
  <2>2. ~SomeEnd
    BY DEF SomeEnd
  <2>3. Next
    BY <2>1, <2>2, NoneEnds DEF vars, account
  <2>4. PICK r \in Reqs, v \in Sessions : IssueTokenPair(r, v)
    <3>1. ~Outside
      BY <2>1, <2>2, OutsideRows
    <3>2. ASSUME NEW r \in Reqs, NEW x \in Request, Starts(r, x)
          PROVE  FALSE
      BY <2>1, <2>2, <3>2, NoneEnds DEF Starts
    <3>3. QED BY <2>1, <2>2, <2>3, <3>1, <3>2, NextCases, SessionsEnd
  <2>5. PICK in \in Login, row \in SessionRow, x \in Request : TokenIssued(r, v, in, row, x)
    BY <2>1, <2>4, IssueTokenPairEffect
  <2>6. /\ req[r].pc = "open" /\ req[r].in = in /\ "insert" \in req[r].todo
        /\ session' = [session EXCEPT ![v] = row]
        /\ row.of = in.u /\ row.password = in.password /\ row.factor = in.factor /\ row.from = in.from
    BY <2>5 DEF TokenIssued
  <2>7. session'[t] = row
    BY <2>1, <2>6 DEF Inv, TypeOK
  <2>8. PICK z \in Request : z = req[r] /\ Knows(z) /\ z.pc = "open" /\ z.in = in
    BY <2>1, <2>6 DEF Inv, TypeOK
  <2>9. IF in.from = "NONE" THEN Earned(z) ELSE Refreshing(z)
    BY <2>1, <2>6, <2>8 DEF UseInv, Seeking, Entitled, OfLogin
  <2>10. CASE in.from = "NONE"
    BY <2>6, <2>7, <2>8, <2>9, <2>10 DEF Earned
  <2>11. CASE in.from # "NONE"
    <3>1. session[in.from].factor = in.factor /\ ~session[in.from].live
      BY <2>8, <2>9, <2>11 DEF Knows, Refreshing, OfLogin
    <3>2. QED BY <2>6, <2>7, <2>11, <3>1 DEF Live
  <2>12. QED BY <2>10, <2>11
<1>2. QED BY SerialInvariance, <1>1, PTL DEF Spec, SessionsEarned

\* As long as requests take turns, a cached entry is what the database granted the role
\* since the entry before it expired or was cleared (getPermissions,
\* clearPermissionCache); and if no request dies, every user has exactly one role
\* (assignRole).
THEOREM AccessStaysCurrent == Spec => []AccessIsCurrent
<1>1. SerialInv => AccessIsCurrent
  <2> SUFFICES ASSUME SerialInv
               PROVE  AccessIsCurrent
    OBVIOUS
  <2>1. ~MayOverlap => \A o \in Roles : Exists(cache[o]) => cache[o].found \in stored[o]
    BY DEF SerialInv, CacheInv
  <2>2. ASSUME Calm, NEW u \in Users, ~Served(u)
        PROVE  Cardinality(holds[u]) = 1
    <3>1. Inv /\ RoleInv
      BY <2>2 DEF SerialInv
    <3>2. \A r \in Reqs : ~Assigning(req[r], u)
      BY <2>2, <3>1, ServedBy DEF Assigning, OfRoles
    <3>3. PICK o \in Roles : holds[u] = {o}
      BY <3>1, <3>2 DEF RoleInv
    <3>4. QED BY <3>3, FS_Singleton
  <2>3. QED BY <2>1, <2>2 DEF AccessIsCurrent
<1>2. QED BY SerialInvariance, <1>1, PTL

=============================================================================
