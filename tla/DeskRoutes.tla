----------------------------- MODULE DeskRoutes -----------------------------
(***************************************************************************)
(* Who may call what, backend/main.py.  A request passes the middleware,   *)
(* which asks only whether anybody is signed in; then the dependency of    *)
(* its route, which asks again, and ranks the account's role against the   *)
(* route's; then its handler.  The session table is read afresh each time, *)
(* and other requests change accounts and sessions in between.             *)
(*                                                                         *)
(* A browser is a person, with one session at a time.  What a store does   *)
(* with a call, and in how many transactions, is AccountStore's,           *)
(* StandingAlerts' and DecisionLedger's subject: here a handler is a step. *)
(***************************************************************************)
EXTENDS Integers, FiniteSets

CONSTANTS
  People,      \* who may have an account
  Nobody,      \* a browser that is not signed in, a line that names no one
  Requests,    \* requests the pool handles at once
  Callers,     \* bound: calls[r], the routes request r may be for
  MaxLines     \* bound: outcomes and watches kept at a time

Roles == {"viewer", "chartering_manager", "admin"}
RANK == [viewer |-> 0, chartering_manager |-> 1, admin |-> 2]
outranks_or_equals(held, required) == RANK[held] >= RANK[required]

BadMinimum ==      \* mutant: accounts are the managers' business too
  [alerts |-> "viewer", read |-> "viewer",
   watch |-> "chartering_manager", delete_watch |-> "chartering_manager",
   patch_watch |-> "chartering_manager",
   evaluate |-> "chartering_manager", outcome |-> "chartering_manager", reset |-> "admin",
   list_users |-> "admin", create_user |-> "admin", patch_user |-> "chartering_manager"]

(* What each route asks of an account; the others ask nothing. *)
Minimum ==
  [alerts |-> "viewer", read |-> "viewer",
   watch |-> "chartering_manager", delete_watch |-> "chartering_manager",
   patch_watch |-> "chartering_manager",
   evaluate |-> "chartering_manager", outcome |-> "chartering_manager",
   reset |-> "admin", list_users |-> "admin", create_user |-> "admin", patch_user |-> "admin"]

Always == {"list_users", "create_user", "patch_user"}       \* closed on an open desk too
Public == {"status", "login", "logout", "bootstrap"}        \* open on a closed desk too
Routes == DOMAIN Minimum \cup Public \cup {"quote", "ledger"}

ASSUME RoutesAssumption ==
  /\ Nobody \notin People \cup Roles
  /\ Callers \in [Requests -> SUBSET Routes]
  /\ MaxLines \in Nat

VARIABLES
  AUTH_ENFORCED,   \* the desk is closed: set when the process starts
  role, active,    \* accounts: role[p], active[p]; those of `accounts` exist
  accounts,
  signedIn,        \* people whose browser holds a live session
  request,         \* request[r]: what request r is in the middle of
  entries,         \* recommendations in the ledger
  outcomes,        \* outcomes in the ledger, by the account in the note
  watches, unread  \* how many watches there are, and the number on the bell

accountVars == <<accounts, role, active, signedIn>>
deskVars == <<entries, outcomes, watches, unread>>
routesVars == <<AUTH_ENFORCED, accountVars, request, deskVars>>

Idle == [phase |-> "idle"]
NoActor == [by |-> Nobody, as |-> Nobody]
user_for_session(p) == p \in signedIn /\ active[p]
Account(p) == IF user_for_session(p) THEN [by |-> p, as |-> role[p]] ELSE NoActor

RoutesInit ==
  /\ AUTH_ENFORCED \in BOOLEAN
  /\ accounts = {} /\ signedIn = {}
  /\ role = [p \in People |-> "viewer"] /\ active = [p \in People |-> FALSE]
  /\ request = [r \in Requests |-> Idle]
  /\ entries = 0 /\ outcomes = {} /\ watches = 0 /\ unread = 0

-----------------------------------------------------------------------------
(* The middleware and the dependency.                                      *)

(* seen is what the middleware looked up, and nothing reads afterwards.    *)
_enforce_sign_in(r, route, p) ==
  /\ request[r] = Idle
  /\ IF AUTH_ENFORCED => route \in Public \/ user_for_session(p)
       THEN request' = [request EXCEPT ![r] =
              IF route \in DOMAIN Minimum
                THEN [phase |-> "dependency", route |-> route, from |-> p, seen |-> Account(p)]
                ELSE [phase |-> "handler", route |-> route, from |-> p, actor |-> NoActor,
                      moved |-> FALSE]]
       ELSE request' = request                        \* 401
  /\ UNCHANGED <<AUTH_ENFORCED, accountVars, deskVars>>

Closed(route) == AUTH_ENFORCED \/ route \in Always

BadAdmits(route, who, seen) ==    \* mutant: goes by what the middleware looked up
  Closed(route) => seen.by # Nobody /\ outranks_or_equals(seen.as, Minimum[route])

Admits(route, who, seen) ==
  Closed(route) => who.by # Nobody /\ outranks_or_equals(who.as, Minimum[route])

require(r) ==
  /\ request[r].phase = "dependency"
  /\ LET q == request[r]  who == Account(q.from) IN
       request' = [request EXCEPT ![r] =
         IF Admits(q.route, who, q.seen)
           THEN [phase |-> "handler", route |-> q.route, from |-> q.from, actor |-> who,
                 moved |-> FALSE]
           ELSE Idle]                                  \* 401 or 403
  /\ UNCHANGED <<AUTH_ENFORCED, accountVars, deskVars>>

-----------------------------------------------------------------------------
(* Handlers of the accounts.  Whoever's account or session a step changes, *)
(* the requests already admitted in that name have been overtaken.         *)

Handles(r, route) == request[r].phase = "handler" /\ request[r].route = route

Finished(r) ==
  request' = [q \in Requests |->
    IF q = r \/ request[q].phase # "handler" THEN [request EXCEPT ![r] = Idle][q]
    ELSE [request[q] EXCEPT !.moved = @ \/
           \E p \in People : p = request[q].from /\ Account(p)' # Account(p)]]

auth_bootstrap(r) ==
  /\ Handles(r, "bootstrap") /\ request[r].from \in People
  /\ IF accounts = {}
       THEN LET p == request[r].from IN
              /\ accounts' = {p} /\ signedIn' = {p}
              /\ role' = [role EXCEPT ![p] = "admin"] /\ active' = [active EXCEPT ![p] = TRUE]
       ELSE UNCHANGED accountVars                       \* 409
  /\ UNCHANGED <<AUTH_ENFORCED, deskVars>>
  /\ Finished(r)

auth_login(r) ==
  /\ Handles(r, "login") /\ request[r].from \in People
  /\ signedIn' = IF active[request[r].from] THEN signedIn \cup {request[r].from} ELSE signedIn
  /\ UNCHANGED <<AUTH_ENFORCED, accounts, role, active, deskVars>>
  /\ Finished(r)

auth_logout(r) ==
  /\ Handles(r, "logout")
  /\ signedIn' = signedIn \ {request[r].from}
  /\ UNCHANGED <<AUTH_ENFORCED, accounts, role, active, deskVars>>
  /\ Finished(r)

auth_create_user(r) ==
  /\ Handles(r, "create_user")
  /\ \E p \in People, as \in Roles :
       IF p \in accounts THEN UNCHANGED accountVars      \* 409
       ELSE /\ accounts' = accounts \cup {p}
            /\ role' = [role EXCEPT ![p] = as] /\ active' = [active EXCEPT ![p] = TRUE]
            /\ UNCHANGED signedIn
  /\ UNCHANGED <<AUTH_ENFORCED, deskVars>>
  /\ Finished(r)

LastAdmin(p) == role[p] = "admin" /\ Cardinality({q \in accounts : role[q] = "admin" /\ active[q]}) <= 1

auth_update_user(r) ==
  /\ Handles(r, "patch_user")
  /\ \E p \in accounts, as \in Roles, on \in BOOLEAN :
       IF LastAdmin(p) /\ (as # "admin" \/ ~on) THEN UNCHANGED accountVars     \* 409
       ELSE /\ role' = [role EXCEPT ![p] = as] /\ active' = [active EXCEPT ![p] = on]
            /\ signedIn' = IF on THEN signedIn ELSE signedIn \ {p}
            /\ UNCHANGED accounts
  /\ UNCHANGED <<AUTH_ENFORCED, deskVars>>
  /\ Finished(r)

-----------------------------------------------------------------------------
(* Handlers of the ledger and of the alerts.                               *)

post_quote(r) ==      \* every quote is recorded
  /\ Handles(r, "quote")
  /\ entries' = IF entries < MaxLines THEN entries + 1 ELSE entries
  /\ UNCHANGED <<AUTH_ENFORCED, accountVars, outcomes, watches, unread>>
  /\ Finished(r)

BadAttributed(actor, from) == [by |-> from, as |-> actor.as]   \* mutant: as the cookie said
_attributed(actor, from) == actor

post_ledger_outcome(r) ==
  /\ Handles(r, "outcome")
  /\ \/ outcomes' = outcomes                                       \* 404, 422
     \/ /\ entries > 0
        /\ Cardinality(outcomes) + watches < MaxLines
        /\ outcomes' = outcomes \cup {_attributed(request[r].actor, request[r].from)}
  /\ UNCHANGED <<AUTH_ENFORCED, accountVars, entries, watches, unread>>
  /\ Finished(r)

delete_ledger_live(r) ==
  /\ Handles(r, "reset")
  /\ entries' = 0 /\ outcomes' = {}
  /\ UNCHANGED <<AUTH_ENFORCED, accountVars, watches, unread>>
  /\ Finished(r)

post_alert_watch(r) ==
  /\ Handles(r, "watch")
  /\ \/ watches' = watches                                         \* 422
     \/ Cardinality(outcomes) + watches < MaxLines /\ watches' = watches + 1
  /\ UNCHANGED <<AUTH_ENFORCED, accountVars, entries, outcomes, unread>>
  /\ Finished(r)

delete_alert_watch(r) ==      \* with its firings
  /\ Handles(r, "delete_watch")
  /\ \/ UNCHANGED <<watches, unread>>                              \* 404
     \/ watches > 0 /\ watches' = watches - 1 /\ \E n \in 0..unread : unread' = n
  /\ UNCHANGED <<AUTH_ENFORCED, accountVars, entries, outcomes>>
  /\ Finished(r)

post_alerts_evaluate(r) ==
  /\ Handles(r, "evaluate")
  /\ unread' = unread \/ (unread < watches /\ unread' = unread + 1)
  /\ UNCHANGED <<AUTH_ENFORCED, accountVars, entries, outcomes, watches>>
  /\ Finished(r)

post_alerts_read(r) ==
  /\ Handles(r, "read")
  /\ unread' = 0
  /\ UNCHANGED <<AUTH_ENFORCED, accountVars, entries, outcomes, watches>>
  /\ Finished(r)

Reads(r) ==           \* GETs change nothing, and pausing a watch nothing kept here
  /\ \E route \in {"patch_watch", "alerts", "list_users", "status", "ledger"} : Handles(r, route)
  /\ UNCHANGED <<AUTH_ENFORCED, accountVars, deskVars>>
  /\ Finished(r)

Expire ==             \* a session's time is up: it stops working at once
  /\ \E p \in signedIn :
       /\ signedIn' = signedIn \ {p}
       /\ request' = [q \in Requests |->
            IF request[q].phase # "handler" THEN request[q]
            ELSE [request[q] EXCEPT !.moved = @ \/ request[q].from = p]]
  /\ UNCHANGED <<AUTH_ENFORCED, accounts, role, active, deskVars>>

Handler(r) ==
  \/ auth_bootstrap(r) \/ auth_login(r) \/ auth_logout(r)
  \/ auth_create_user(r) \/ auth_update_user(r)
  \/ post_quote(r) \/ post_ledger_outcome(r) \/ delete_ledger_live(r)
  \/ post_alert_watch(r) \/ delete_alert_watch(r)
  \/ post_alerts_evaluate(r) \/ post_alerts_read(r) \/ Reads(r)

RoutesNext ==
  \/ \E r \in Requests :
       \/ \E route \in Callers[r], p \in People \cup {Nobody} :
            (route \in {"login", "bootstrap"} => p \in People) /\ _enforce_sign_in(r, route, p)
       \/ require(r)
       \/ Handler(r)
  \/ Expire

-----------------------------------------------------------------------------
(* Properties.                                                             *)

(* "The actor's name is appended to the note ... the line says both what   *)
(* was reported and who reported it": on a closed desk every outcome names *)
(* an account that ranked, whatever was signed out or demoted meanwhile;   *)
(* on an open one it names no actor it did not find signed in.             *)
OutcomesNameTheirWriter ==
  \A o \in outcomes :
    /\ AUTH_ENFORCED => o.by # Nobody /\ outranks_or_equals(o.as, "chartering_manager")
    /\ (o.by = Nobody) = (o.as = Nobody)

(* A handler that runs has the rank at the moment, unless the account was  *)
(* changed after the dependency looked it up: nothing looked up at the     *)
(* sign-in, or by the middleware, decides.                                 *)
RankIsReadAfresh ==
  \A r \in Requests :
    LET q == request[r] IN
      q.phase = "handler" /\ ~q.moved /\ q.route \in DOMAIN Minimum /\ Closed(q.route) =>
        user_for_session(q.from) /\ outranks_or_equals(role[q.from], Minimum[q.route])

(* "Account management stays closed in both modes": accounts change hands  *)
(* by an administrator's request, or by the first account being made.      *)
OnlyAdminsChangeAccounts ==
  [][<<accounts, role, active>>' # <<accounts, role, active>> =>
       \/ accounts = {}
       \/ \E r \in Requests : request[r].phase = "handler" /\ request[r].actor.as = "admin"]_routesVars

(* What is done in somebody's name was done by them, at their rank.        *)
ActionsAreTheirActors == OutcomesNameTheirWriter /\ RankIsReadAfresh
=============================================================================
