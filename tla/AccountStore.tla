---------------------------- MODULE AccountStore ----------------------------
(***************************************************************************)
(* Accounts and sessions, src/src/auth/store.py, and the account routes of *)
(* backend/main.py that drive it.  Every store call opens connections of   *)
(* its own, so a step here is one SQLite transaction: reading an account,  *)
(* counting the administrators and updating the row are three of them, and *)
(* a PATCH of an account makes up to three such calls in a row.            *)
(*                                                                         *)
(* Accounts are never deleted.  An account is its username (compared       *)
(* without case); a password is the number of times it has been set; the   *)
(* last login and the hash's cost are left out.                            *)
(***************************************************************************)
EXTENDS Integers, Sequences, FiniteSets, FiniteSetsExt

CONSTANTS
  Names,       \* usernames that may be given an account
  Requests,    \* threads of the server's pool that handle account requests
  TTL,         \* SESSION_TTL, in ticks
  LastTick,    \* bound: the ticks the model lasts
  MaxSessions, \* bound: session tokens ever issued
  MaxSets,     \* bound: no password is replaced once one was set so often
  MaxChanges   \* bound: changes that PATCHes have still to make, at once

Roles == {"viewer", "admin"}   \* "chartering_manager" is, to the store, another viewer

ASSUME AccountAssumption ==
  /\ TTL \in Nat \ {0}
  /\ LastTick \in Nat /\ MaxSessions \in Nat /\ MaxSets \in Nat /\ MaxChanges \in Nat

VARIABLES
  now,         \* the clock
  users,       \* the accounts that exist
  role,        \* role[u], active[u]: columns of table users
  active,
  version,     \* version[u]: which password the account has
  sessions,    \* rows of table sessions
  issued,      \* tokens issued so far
  call,        \* call[r]: what request r is in the middle of
  overlapped,  \* history: calls of two requests have overlapped
  firsts       \* history: accounts bootstrap_admin created

vars == <<now, users, role, active, version, sessions, issued, call, overlapped, firsts>>

(* What one store call of a PATCH sets: the password, a role, is_active.   *)
Change == {"password", "enable", "disable"} \cup Roles

(* The route applies them in this order, each only if the request has it.  *)
Patches ==
  LET opt(S) == {<<>>} \cup {<<c>> : c \in S} IN
  {p \o r \o a : p \in opt({"password"}), r \in opt(Roles), a \in opt({"enable", "disable"})}
    \ {<<>>}

Session == [token: Nat, user: Names, expires: Nat, version: Nat]

Idle == [op |-> "idle"]
Call ==
  {Idle}
  \cup [op: {"create"}, user: Names, role: Roles]
  \cup [op: {"issue"}, user: Names, version: Nat]
  \cup [op: {"read", "count", "write"}, user: Names, todo: Patches]

ActiveAdmins == {u \in users : active[u] /\ role[u] = "admin"}

(* user_for_session finds an account: what RequireAdminAlways asks first.  *)
Resolves(s) == s.expires > now /\ active[s.user]
AdminSignedIn == \E s \in sessions : Resolves(s) /\ role[s.user] = "admin"

Init ==
  /\ now = 0
  /\ users = {}
  /\ role = [u \in Names |-> "viewer"]
  /\ active = [u \in Names |-> FALSE]
  /\ version = [u \in Names |-> 0]
  /\ sessions = {}
  /\ issued = 0
  /\ call = [r \in Requests |-> Idle]
  /\ overlapped = FALSE
  /\ firsts = {}

-----------------------------------------------------------------------------
(* POST /auth/bootstrap and POST /auth/users: the name and the length of   *)
(* the password are checked before the row is inserted.                    *)

(* A request in progress while another begins. *)
NoteOverlap == overlapped' = (overlapped \/ \E r \in Requests : call[r] # Idle)

AddUser(u, asRole) ==
  /\ users' = users \cup {u}
  /\ role' = [role EXCEPT ![u] = asRole]
  /\ active' = [active EXCEPT ![u] = TRUE]
  /\ version' = [version EXCEPT ![u] = 1]

BadBootstrapAdmin(r, u) ==        \* mutant: without WHERE NOT EXISTS
  /\ call[r] = Idle
  /\ u \notin users
  /\ AddUser(u, "admin")
  /\ firsts' = firsts \cup {u}
  /\ call' = [call EXCEPT ![r] = [op |-> "issue", user |-> u, version |-> 1]]
  /\ NoteOverlap
  /\ UNCHANGED <<now, sessions, issued>>

BootstrapAdmin(r, u) ==
  /\ call[r] = Idle
  /\ users = {}
  /\ AddUser(u, "admin")
  /\ firsts' = firsts \cup {u}
  /\ call' = [call EXCEPT ![r] = [op |-> "issue", user |-> u, version |-> 1]]
  /\ NoteOverlap
  /\ UNCHANGED <<now, sessions, issued>>

AskToCreate(r, u, asRole) ==
  /\ call[r] = Idle
  /\ AdminSignedIn
  /\ call' = [call EXCEPT ![r] =
       [op |-> "create", user |-> u, role |-> asRole]]
  /\ NoteOverlap
  /\ UNCHANGED <<now, users, role, active, version, sessions, issued, firsts>>

CreateUser(r) ==                  \* a name that is taken is a 409
  /\ call[r].op = "create"
  /\ IF call[r].user \in users THEN UNCHANGED <<users, role, active, version>>
     ELSE AddUser(call[r].user, call[r].role)
  /\ call' = [call EXCEPT ![r] = Idle]
  /\ UNCHANGED <<now, sessions, issued, overlapped, firsts>>

-----------------------------------------------------------------------------
(* POST /auth/login reads the row (the password is right, the account is   *)
(* active) and then issues the session, which clears the account's expired *)
(* ones.                                                                   *)

Authenticate(r, u) ==
  /\ call[r] = Idle
  /\ u \in users /\ active[u]
  /\ call' = [call EXCEPT ![r] = [op |-> "issue", user |-> u, version |-> version[u]]]
  /\ NoteOverlap
  /\ UNCHANGED <<now, users, role, active, version, sessions, issued, firsts>>

LoginFails(r) == call[r] = Idle /\ UNCHANGED vars     \* a 401, whatever the cause

BadCreateSession(r) ==            \* mutant: clears every session of the account
  /\ call[r].op = "issue"
  /\ sessions' = {s \in sessions : s.user # call[r].user}
       \cup {[token |-> issued, user |-> call[r].user, expires |-> now + TTL,
              version |-> call[r].version]}
  /\ issued' = issued + 1
  /\ call' = [call EXCEPT ![r] = Idle]
  /\ UNCHANGED <<now, users, role, active, version, overlapped, firsts>>

CreateSession(r) ==
  /\ call[r].op = "issue"
  /\ sessions' = {s \in sessions : s.user # call[r].user \/ s.expires > now}
       \cup {[token |-> issued, user |-> call[r].user, expires |-> now + TTL,
              version |-> call[r].version]}
  /\ issued' = issued + 1
  /\ call' = [call EXCEPT ![r] = Idle]
  /\ UNCHANGED <<now, users, role, active, version, overlapped, firsts>>

(* POST /auth/logout, or any request that presents an expired cookie. *)
DestroySession(r) ==
  /\ call[r] = Idle
  /\ \E s \in sessions : sessions' = sessions \ {s}
  /\ UNCHANGED <<now, users, role, active, version, issued, call, overlapped, firsts>>

PurgeExpiredSessions ==
  /\ \E s \in sessions : s.expires <= now
  /\ sessions' = {s \in sessions : s.expires > now}
  /\ UNCHANGED <<now, users, role, active, version, issued, call, overlapped, firsts>>

-----------------------------------------------------------------------------
(* PATCH /auth/users/{user_id}: set_password, set_role and set_active.     *)

Patch(r, u, todo) ==
  /\ call[r] = Idle
  /\ AdminSignedIn
  /\ u \in users                                       \* else 404
  /\ call' = [call EXCEPT ![r] = [op |-> "read", user |-> u, todo |-> todo]]
  /\ NoteOverlap
  /\ UNCHANGED <<now, users, role, active, version, sessions, issued, firsts>>

Outstanding ==
  MapThenSumSet(LAMBDA r : IF "todo" \in DOMAIN call[r] THEN Len(call[r].todo) ELSE 0, Requests)

(* Whether the account just read makes the call count the administrators.  *)
BadGuarded(u, change) ==          \* mutant: only demotions are guarded
  role[u] = "admin" /\ change \in Roles \ {"admin"}

Guarded(u, change) == role[u] = "admin" /\ change \in {"disable"} \cup (Roles \ {"admin"})

ReadUser(r) ==
  /\ call[r].op = "read"
  /\ call' = [call EXCEPT ![r].op =
       IF Guarded(call[r].user, Head(call[r].todo)) THEN "count" ELSE "write"]
  /\ UNCHANGED <<now, users, role, active, version, sessions, issued, overlapped, firsts>>

CountActiveAdmins(r) ==
  /\ call[r].op = "count"
  /\ IF Cardinality(ActiveAdmins) <= 1
       THEN call' = [call EXCEPT ![r] = Idle]          \* LastAdminError, a 409
       ELSE call' = [call EXCEPT ![r].op = "write"]
  /\ UNCHANGED <<now, users, role, active, version, sessions, issued, overlapped, firsts>>

SessionsOfOthers(u) == {s \in sessions : s.user # u}

BadApply(u, change) ==            \* mutant: disabling leaves the sessions
  CASE change \in Roles ->
         role' = [role EXCEPT ![u] = change] /\ UNCHANGED <<active, version, sessions>>
    [] change = "password" ->
         /\ version' = [version EXCEPT ![u] = @ + 1]
         /\ sessions' = SessionsOfOthers(u)
         /\ UNCHANGED <<role, active>>
    [] OTHER ->
         active' = [active EXCEPT ![u] = change = "enable"] /\ UNCHANGED <<role, version, sessions>>

Apply(u, change) ==
  CASE change \in Roles ->
         role' = [role EXCEPT ![u] = change] /\ UNCHANGED <<active, version, sessions>>
    [] change = "password" ->
         /\ version' = [version EXCEPT ![u] = @ + 1]
         /\ sessions' = SessionsOfOthers(u)
         /\ UNCHANGED <<role, active>>
    [] OTHER ->
         /\ active' = [active EXCEPT ![u] = change = "enable"]
         /\ sessions' = IF change = "enable" THEN sessions ELSE SessionsOfOthers(u)
         /\ UNCHANGED <<role, version>>

BadWriteUser(r) ==                \* mutant: goes on after the last change
  /\ call[r].op = "write"
  /\ Apply(call[r].user, Head(call[r].todo))
  /\ call' = [call EXCEPT ![r] =
       [op |-> "read", user |-> call[r].user, todo |-> Tail(call[r].todo)]]
  /\ UNCHANGED <<now, users, issued, overlapped, firsts>>

WriteUser(r) ==
  /\ call[r].op = "write"
  /\ Apply(call[r].user, Head(call[r].todo))
  /\ call' = [call EXCEPT ![r] =
       IF Len(call[r].todo) = 1 THEN Idle
       ELSE [op |-> "read", user |-> call[r].user, todo |-> Tail(call[r].todo)]]
  /\ UNCHANGED <<now, users, issued, overlapped, firsts>>

Tick ==
  /\ now < LastTick
  /\ now' = now + 1
  /\ UNCHANGED <<users, role, active, version, sessions, issued, call, overlapped, firsts>>

Next ==
  \/ \E r \in Requests :
       \/ \E u \in Names :
            \/ BootstrapAdmin(r, u)
            \/ \E asRole \in Roles : AskToCreate(r, u, asRole)
            \/ issued < MaxSessions /\ Authenticate(r, u)
            \/ \E todo \in Patches :
                 /\ call[r] = Idle /\ Outstanding + Len(todo) <= MaxChanges
                 /\ "password" = Head(todo) => \A v \in users : version[v] < MaxSets
                 /\ Patch(r, u, todo)
       \/ LoginFails(r)
       \/ CreateUser(r)
       \/ CreateSession(r)
       \/ DestroySession(r)
       \/ ReadUser(r)
       \/ CountActiveAdmins(r)
       \/ WriteUser(r)
  \/ PurgeExpiredSessions
  \/ Tick

Spec == Init /\ [][Next]_vars

-----------------------------------------------------------------------------
(* Properties.                                                             *)

(* Rows and calls are well formed. *)
TypeOK ==
  /\ now \in Nat /\ issued \in Nat
  /\ users \subseteq Names /\ firsts \subseteq Names
  /\ role \in [Names -> Roles]
  /\ active \in [Names -> BOOLEAN]
  /\ version \in [Names -> Nat]
  /\ sessions \subseteq Session
  /\ call \in [Requests -> Call]

(* "Refuses to disable or demote the last active admin ... it holds for    *)
(* every caller": once there are accounts, one of them is an active admin. *)
AlwaysAWayBackIn == users # {} => ActiveAdmins # {}

(* bootstrap_admin makes the first account and no other, however many      *)
(* requests find the store empty at once.                                  *)
OneFirstAccount == Cardinality(firsts) <= 1

(* "Disabling also drops every live session for that account": a disabled  *)
(* account holds no session, of its own or left over from before.          *)
DisabledHoldsNoSession == \A s \in sessions : active[s.user]

(* No session outlives the password it was issued against. *)
SessionsMatchPassword == \A s \in sessions : s.version = version[s.user]

(* Both promises about sessions, and the administrator, as long as requests*)
(* did not overlap: a login that has read its account and not yet issued   *)
(* the session, or two demotions that both counted, can break them.        *)
AdminWhenAlone == ~overlapped => AlwaysAWayBackIn
SessionsWhenAlone == ~overlapped => DisabledHoldsNoSession /\ SessionsMatchPassword

(* Whatever requests overlap, rows stay well formed and one account came   *)
(* first; and one after the other they keep the promises above.            *)
StoreIsSound == TypeOK /\ OneFirstAccount
SerialPromises == AdminWhenAlone /\ SessionsWhenAlone

(* A browser stays signed in through what others do: a session is dropped  *)
(* when it expired, alone (its own logout), or because its account was     *)
(* disabled or given a new password in that step.                          *)
SignedOutForAReason ==
  [][\A s \in sessions \ sessions' :
       \/ s.expires <= now
       \/ sessions' = sessions \ {s}
       \/ ~active'[s.user]
       \/ version'[s.user] # version[s.user]]_vars

=============================================================================
