------------------------- MODULE AccountStore_proofs -------------------------
(***************************************************************************)
(* Proofs about AccountStore, for every set of names and requests, every    *)
(* session lifetime and every bound.                                       *)
(***************************************************************************)
EXTENDS AccountStore, FiniteSetTheorems, SequenceTheorems, TLAPS

(* Whoever holds a session, or is worked on by a request, is an account,   *)
(* and there are never more than finitely many of them; an account is      *)
(* asked for by an administrator, so there was one already.                *)
OfAccounts ==
  /\ IsFiniteSet(users) /\ firsts \subseteq users
  /\ \A s \in sessions : s.user \in users
  /\ \A r \in Requests :
       /\ call[r].op \in {"issue", "read", "count", "write"} => call[r].user \in users
       /\ call[r].op = "create" => users # {}

(* What a request has read and not yet acted on still holds, if no other   *)
(* request was there to change it.                                         *)
AtMostOneCall == \A r, q \in Requests : call[r] # Idle /\ call[q] # Idle => r = q
LoginIsCurrent ==
  \A r \in Requests : call[r].op = "issue" =>
    active[call[r].user] /\ version[call[r].user] = call[r].version
CountHolds ==
  \A r \in Requests :
    call[r].op = "write" /\ Guarded(call[r].user, Head(call[r].todo)) =>
      Cardinality(ActiveAdmins) > 1

Serial == AtMostOneCall /\ LoginIsCurrent /\ CountHolds
Promises == AlwaysAWayBackIn /\ DisabledHoldsNoSession /\ SessionsMatchPassword

AccountInv == TypeOK /\ OfAccounts /\ OneFirstAccount /\ (~overlapped => Serial /\ Promises)

-----------------------------------------------------------------------------
(* A PATCH, what it sets first, and what it has still to set.               *)

(* A part of a PATCH: nothing, or one change. *)
Part(S) == {<<>>} \cup {<<c>> : c \in S}

LEMMA PatchParts ==
  /\ \A todo \in Patches :
       todo # <<>> /\ \E p \in Part({"password"}), r \in Part(Roles),
                        a \in Part({"enable", "disable"}) : todo = p \o r \o a
  /\ \A p \in Part({"password"}), r \in Part(Roles), a \in Part({"enable", "disable"}) :
       p \o r \o a # <<>> => p \o r \o a \in Patches
<1> DEFINE P == Part({"password"})
           R == Part(Roles)
           A == Part({"enable", "disable"})
<1>1. Patches = {p \o r \o a : p \in P, r \in R, a \in A} \ {<<>>}
  BY DEF Patches, Part
<1> HIDE DEF P, R, A
<1>2. ASSUME NEW todo \in Patches
      PROVE  todo # <<>> /\ \E p \in P, r \in R, a \in A : todo = p \o r \o a
  BY <1>1
<1>3. ASSUME NEW p \in P, NEW r \in R, NEW a \in A, p \o r \o a # <<>>
      PROVE  p \o r \o a \in Patches
  BY <1>1, <1>3
<1> QED BY <1>2, <1>3 DEF P, R, A

LEMMA PartIsShort ==
  ASSUME NEW S, S \subseteq Change, NEW p \in Part(S)
  PROVE  p \in Seq(Change) /\ (p # <<>> => Len(p) = 1 /\ Tail(p) = <<>> /\ Head(p) \in S)
<1>1. CASE p = <<>>
  BY <1>1
<1>2. ASSUME NEW c \in S, p = <<c>>
      PROVE  p \in Seq(Change) /\ Len(p) = 1 /\ Tail(p) = <<>> /\ Head(p) \in S
  BY <1>2
<1> QED BY <1>1, <1>2 DEF Part

LEMMA TailOfConcat ==
  ASSUME NEW S, NEW s \in Seq(S), NEW t \in Seq(S), s # <<>>
  PROVE  Tail(s \o t) = Tail(s) \o t /\ Head(s \o t) = Head(s)
<1>1. s \o t \in Seq(S) /\ s \o t # <<>> /\ Len(s \o t) = Len(s) + Len(t)
  BY ConcatProperties, ConcatEqualIffEmpty
<1>2. Tail(s) \in Seq(S) /\ Len(Tail(s)) = Len(s) - 1
  BY HeadTailProperties
<1>3. Tail(s \o t) \in Seq(S) /\ Len(Tail(s \o t)) = Len(s) + Len(t) - 1
  BY <1>1, HeadTailProperties
<1>4. Tail(s) \o t \in Seq(S) /\ Len(Tail(s) \o t) = Len(s) - 1 + Len(t)
  BY <1>2, ConcatProperties
<1>5. ASSUME NEW i \in 1 .. Len(Tail(s \o t))
      PROVE  Tail(s \o t)[i] = (Tail(s) \o t)[i]
  BY <1>1, <1>2, <1>3, HeadTailProperties, ConcatProperties
<1>6. Tail(s \o t) = Tail(s) \o t
  BY <1>3, <1>4, <1>5, SeqEqual
<1>7. Head(s \o t) = Head(s)
  BY <1>1, ConcatProperties
<1> QED BY <1>6, <1>7

(* Three parts of at most one element each: a tail is three such parts again. *)
LEMMA TailOfThree ==
  ASSUME NEW S, NEW p \in Seq(S), NEW r \in Seq(S), NEW a \in Seq(S),
         p # <<>> => Tail(p) = <<>>,
         r # <<>> => Tail(r) = <<>>,
         a # <<>> => Tail(a) = <<>>,
         p \o r \o a # <<>>
  PROVE  /\ p \o r \o a \in Seq(S)
         /\ \/ Tail(p \o r \o a) = <<>> \o r \o a
            \/ Tail(p \o r \o a) = <<>> \o <<>> \o a
            \/ Tail(p \o r \o a) = <<>>
<1>1. p \o r \o a = p \o (r \o a) /\ r \o a \in Seq(S) /\ p \o r \o a \in Seq(S)
  BY ConcatAssociative, ConcatProperties
<1>2. CASE p # <<>>
  <2>1. Tail(p) \in Seq(S)
    BY <1>2, HeadTailProperties
  <2>2. Tail(p) \o r \o a = Tail(p) \o (r \o a)
    BY <2>1, ConcatAssociative
  <2>3. Tail(p \o (r \o a)) = Tail(p) \o (r \o a)
    BY <1>1, <1>2, TailOfConcat
  <2>4. Tail(p \o r \o a) = <<>> \o r \o a
    BY <1>1, <1>2, <2>2, <2>3, Zenon
  <2> QED BY <1>1, <2>4, Zenon
<1>3. CASE p = <<>> /\ r # <<>>
  <2>1. p \o r \o a = r \o a
    BY <1>1, <1>3, ConcatEmptySeq
  <2>2. Tail(r) = <<>> /\ <<>> \o Tail(r) = Tail(r)
    BY <1>3, EmptySeq, ConcatEmptySeq
  <2>3. Tail(r \o a) = Tail(r) \o a
    BY <1>3, TailOfConcat
  <2>4. Tail(p \o r \o a) = <<>> \o <<>> \o a
    BY <2>1, <2>2, <2>3, Zenon
  <2> QED BY <1>1, <2>4, Zenon
<1>4. CASE p = <<>> /\ r = <<>>
  <2>1. p \o r \o a = a
    BY <1>1, <1>4, ConcatEmptySeq
  <2>2. Tail(p \o r \o a) = <<>>
    BY <2>1, Zenon
  <2> QED BY <1>1, <2>2, Zenon
<1> QED BY <1>2, <1>3, <1>4

LEMMA OneLeft ==
  ASSUME NEW S, NEW s \in Seq(S), s # <<>>
  PROVE  /\ Len(s) # 1 => Tail(s) # <<>>
         /\ Head(s) \in S
<1>1. Len(Tail(s)) = Len(s) - 1 /\ Len(s) \in Nat /\ Head(s) \in S
  BY HeadTailProperties, LenProperties
<1>2. Len(<<>>) = 0
  BY EmptySeq
<1>3. Len(s) # 1 => Len(Tail(s)) # 0
  BY ONLY <1>1, SMT
<1>4. Len(Tail(s)) # 0 => Tail(s) # <<>>
  BY <1>2, Zenon
<1> QED BY <1>1, <1>3, <1>4

LEMMA PatchGoesOn ==
  ASSUME NEW todo \in Patches
  PROVE  /\ todo \in Seq(Change) /\ todo # <<>>
         /\ Head(todo) \in Change
         /\ Len(todo) # 1 => Tail(todo) \in Patches
<1> DEFINE P == Part({"password"})
           R == Part(Roles)
           A == Part({"enable", "disable"})
<1>1. PICK p \in P, r \in R, a \in A : todo = p \o r \o a /\ todo # <<>>
  BY PatchParts
<1>2. /\ p \in Seq(Change) /\ (p # <<>> => Tail(p) = <<>>)
      /\ r \in Seq(Change) /\ (r # <<>> => Tail(r) = <<>>)
      /\ a \in Seq(Change) /\ (a # <<>> => Tail(a) = <<>>)
  BY PartIsShort DEF Change, Roles
<1>3. <<>> \in P /\ <<>> \in R
  BY DEF Part
<1>4. \A q \in P, s \in R, b \in A : q \o s \o b # <<>> => q \o s \o b \in Patches
  BY PatchParts
<1> HIDE DEF P, R, A
<1>5. todo \in Seq(Change)
  <2>1. p \o r \o a \in Seq(Change)
    BY <1>2, TailOfThree
  <2> QED BY <2>1, <1>1
<1>6. Head(todo) \in Change /\ (Len(todo) # 1 => Tail(todo) # <<>>)
  BY <1>1, <1>5, OneLeft
<1>7. \/ Tail(todo) = <<>> \o r \o a
      \/ Tail(todo) = <<>> \o <<>> \o a
      \/ Tail(todo) = <<>>
  BY <1>1, <1>2, TailOfThree
<1>8. Tail(todo) # <<>> => Tail(todo) \in Patches
  BY <1>3, <1>4, <1>7
<1> QED BY <1>1, <1>5, <1>6, <1>8

-----------------------------------------------------------------------------
(* Calls, and what a step does to them.                                    *)

Creating == [op: {"create"}, user: Names, role: Roles]
Issuing == [op: {"issue"}, user: Names, version: Nat]
Patching == [op: {"read", "count", "write"}, user: Names, todo: Patches]

LEMMA Calls ==
  /\ Call = {Idle} \cup Creating \cup Issuing \cup Patching
  /\ Idle.op = "idle"
  /\ \A u \in Names, asRole \in Roles : [op |-> "create", user |-> u, role |-> asRole] \in Creating
  /\ \A u \in Names, n \in Nat : [op |-> "issue", user |-> u, version |-> n] \in Issuing
  /\ \A o \in {"read", "count", "write"}, u \in Names, todo \in Patches :
       [op |-> o, user |-> u, todo |-> todo] \in Patching
BY DEF Call, Idle, Creating, Issuing, Patching

LEMMA CallKinds ==
  ASSUME NEW c \in Call
  PROVE  /\ c = Idle <=> c.op = "idle"
         /\ c.op = "create" => c.user \in Names /\ c.role \in Roles
         /\ c.op = "issue" => c.user \in Names /\ c.version \in Nat
         /\ c.op \in {"read", "count", "write"} => c.user \in Names /\ c.todo \in Patches
         /\ c.op \in {"read", "count", "write"} =>
              \A o : [c EXCEPT !.op = o] = [op |-> o, user |-> c.user, todo |-> c.todo]
<1>1. CASE c = Idle
  BY <1>1 DEF Idle
<1>2. CASE c \in Creating
  BY <1>2 DEF Creating, Idle
<1>3. CASE c \in Issuing
  BY <1>3 DEF Issuing, Idle
<1>4. CASE c \in Patching
  <2>1. /\ c.op \in {"read", "count", "write"} /\ c.user \in Names /\ c.todo \in Patches
        /\ c # Idle
    BY <1>4 DEF Patching, Idle
  <2>2. ASSUME NEW o
        PROVE  [c EXCEPT !.op = o] = [op |-> o, user |-> c.user, todo |-> c.todo]
    BY <1>4 DEF Patching
  <2> QED BY <2>1, <2>2
<1> QED BY <1>1, <1>2, <1>3, <1>4, Calls

(* One request's call changes; those of the others do not. *)
LEMMA CallOf ==
  ASSUME NEW r \in Requests, NEW c \in Call, TypeOK, call' = [call EXCEPT ![r] = c]
  PROVE  /\ call' \in [Requests -> Call]
         /\ call'[r] = c
         /\ \A q \in Requests \ {r} : call'[q] = call[q]
BY DEF TypeOK

(* A PATCH goes from one of its store calls to the next.                   *)
LEMMA PatchCallOf ==
  ASSUME NEW r \in Requests, NEW o \in {"read", "count", "write"}, TypeOK,
         call[r].op \in {"read", "count", "write"},
         call' = [call EXCEPT ![r].op = o]
  PROVE  /\ call' \in [Requests -> Call]
         /\ call'[r] = [op |-> o, user |-> call[r].user, todo |-> call[r].todo]
         /\ \A q \in Requests \ {r} : call'[q] = call[q]
<1> DEFINE c == [op |-> o, user |-> call[r].user, todo |-> call[r].todo]
<1>1. call[r] \in Call /\ call \in [Requests -> Call]
  BY DEF TypeOK
<1>2. call[r].user \in Names /\ call[r].todo \in Patches /\ [call[r] EXCEPT !.op = o] = c
  BY <1>1, CallKinds
<1>3. c \in Call
  BY <1>2, Calls
<1>4. call' = [call EXCEPT ![r] = [call[r] EXCEPT !.op = o]]
  BY <1>1
<1>5. call' = [call EXCEPT ![r] = c]
  BY <1>2, <1>4
<1> QED BY <1>3, <1>5, CallOf

(* After a write the PATCH goes on to its next change, or is over. *)
LEMMA WrittenCall ==
  ASSUME NEW r \in Requests, TypeOK, WriteUser(r)
  PROVE  /\ call' \in [Requests -> Call]
         /\ call'[r] # Idle => call'[r].op = "read" /\ call'[r].user = call[r].user
         /\ \A q \in Requests \ {r} : call'[q] = call[q]
<1>1. call[r].user \in Names /\ call[r].todo \in Patches
  BY CallKinds DEF WriteUser, TypeOK
<1>2. CASE Len(call[r].todo) = 1
  BY <1>2, Calls, CallOf DEF WriteUser
<1>3. CASE Len(call[r].todo) # 1
  <2>1. [op |-> "read", user |-> call[r].user, todo |-> Tail(call[r].todo)] \in Call
    BY <1>1, <1>3, PatchGoesOn, Calls
  <2> QED BY <1>3, <2>1, CallOf DEF WriteUser
<1> QED BY <1>2, <1>3

(* What a PATCH writes, change by change. *)
LEMMA Applied ==
  ASSUME NEW u, NEW change \in Change, Apply(u, change)
  PROVE  /\ change \in Roles =>
              role' = [role EXCEPT ![u] = change] /\ UNCHANGED <<active, version, sessions>>
         /\ change = "password" =>
              /\ version' = [version EXCEPT ![u] = version[u] + 1]
              /\ sessions' = SessionsOfOthers(u)
              /\ UNCHANGED <<role, active>>
         /\ change = "enable" =>
              active' = [active EXCEPT ![u] = TRUE] /\ UNCHANGED <<role, version, sessions>>
         /\ change = "disable" =>
              /\ active' = [active EXCEPT ![u] = FALSE]
              /\ sessions' = SessionsOfOthers(u)
              /\ UNCHANGED <<role, version>>
<1>1. CASE change \in Roles
  BY <1>1 DEF Apply, Roles
<1>2. CASE change = "password"
  BY <1>2 DEF Apply, Roles
<1>3. CASE change = "enable"
  BY <1>3 DEF Apply, Roles
<1>4. CASE change = "disable"
  BY <1>4 DEF Apply, Roles
<1> QED BY <1>1, <1>2, <1>3, <1>4 DEF Change, Roles

-----------------------------------------------------------------------------
(* Rows and calls stay well formed.                                        *)

LEMMA TypeStep ==
  ASSUME TypeOK, Next
  PROVE  TypeOK'
<1>1. ASSUME NEW r \in Requests, NEW u \in Names, BootstrapAdmin(r, u)
      PROVE  TypeOK'
  <2>1. [op |-> "issue", user |-> u, version |-> 1] \in Call
    BY Calls
  <2>2. call' \in [Requests -> Call]
    BY <1>1, <2>1, CallOf DEF BootstrapAdmin
  <2> QED BY <1>1, <2>2 DEF TypeOK, BootstrapAdmin, AddUser, Roles
<1>2. ASSUME NEW r \in Requests, NEW u \in Names, NEW asRole \in Roles, AskToCreate(r, u, asRole)
      PROVE  TypeOK'
  <2>1. [op |-> "create", user |-> u, role |-> asRole] \in Call
    BY Calls
  <2>2. call' \in [Requests -> Call]
    BY <1>2, <2>1, CallOf DEF AskToCreate
  <2> QED BY <1>2, <2>2 DEF TypeOK, AskToCreate
<1>3. ASSUME NEW r \in Requests, NEW u \in Names, Authenticate(r, u)
      PROVE  TypeOK'
  <2>1. [op |-> "issue", user |-> u, version |-> version[u]] \in Call
    BY Calls DEF TypeOK
  <2>2. call' \in [Requests -> Call]
    BY <1>3, <2>1, CallOf DEF Authenticate
  <2> QED BY <1>3, <2>2 DEF TypeOK, Authenticate
<1>4. ASSUME NEW r \in Requests, NEW u \in Names, NEW todo \in Patches, Patch(r, u, todo)
      PROVE  TypeOK'
  <2>1. [op |-> "read", user |-> u, todo |-> todo] \in Call
    BY Calls
  <2>2. call' \in [Requests -> Call]
    BY <1>4, <2>1, CallOf DEF Patch
  <2> QED BY <1>4, <2>2 DEF TypeOK, Patch
<1>5. ASSUME NEW r \in Requests, CreateUser(r)
      PROVE  TypeOK'
  <2>1. call[r].user \in Names /\ call[r].role \in Roles
    BY <1>5, CallKinds DEF CreateUser, TypeOK
  <2>2. call' \in [Requests -> Call]
    BY <1>5, Calls, CallOf DEF CreateUser
  <2>3. CASE call[r].user \in users
    BY <1>5, <2>2, <2>3 DEF TypeOK, CreateUser
  <2>4. CASE call[r].user \notin users
    <3>1. AddUser(call[r].user, call[r].role)
      BY <1>5, <2>4 DEF CreateUser
    <3>2. /\ users' \subseteq Names /\ role' \in [Names -> Roles]
          /\ active' \in [Names -> BOOLEAN] /\ version' \in [Names -> Nat]
      BY <2>1, <3>1 DEF TypeOK, AddUser
    <3> QED BY <1>5, <2>2, <3>2 DEF TypeOK, CreateUser
  <2> QED BY <2>3, <2>4
<1>6. ASSUME NEW r \in Requests, CreateSession(r)
      PROVE  TypeOK'
  <2>1. call[r].user \in Names /\ call[r].version \in Nat
    BY <1>6, CallKinds DEF CreateSession, TypeOK
  <2>2. call' \in [Requests -> Call]
    BY <1>6, Calls, CallOf DEF CreateSession
  <2>3. [token |-> issued, user |-> call[r].user, expires |-> now + TTL,
         version |-> call[r].version] \in Session
    BY <2>1, AccountAssumption DEF TypeOK, Session
  <2>4. sessions' \subseteq Session /\ issued' \in Nat
    BY <1>6, <2>3 DEF CreateSession, TypeOK
  <2> QED BY <1>6, <2>2, <2>4 DEF TypeOK, CreateSession
<1>7. ASSUME NEW r \in Requests, DestroySession(r)
      PROVE  TypeOK'
  BY <1>7 DEF TypeOK, DestroySession
<1>8. ASSUME NEW r \in Requests, ReadUser(r)
      PROVE  TypeOK'
  <2>1. call' \in [Requests -> Call]
    <3>1. PICK o \in {"count", "write"} : call' = [call EXCEPT ![r].op = o]
      BY <1>8 DEF ReadUser
    <3> QED BY <1>8, <3>1, PatchCallOf DEF ReadUser
  <2> QED BY <1>8, <2>1 DEF TypeOK, ReadUser
<1>9. ASSUME NEW r \in Requests, CountActiveAdmins(r)
      PROVE  TypeOK'
  <2>1. call' \in [Requests -> Call]
    BY <1>9, Calls, CallOf, PatchCallOf DEF CountActiveAdmins
  <2> QED BY <1>9, <2>1 DEF TypeOK, CountActiveAdmins
<1>10. ASSUME NEW r \in Requests, WriteUser(r)
       PROVE  TypeOK'
  <2>1. call[r].user \in Names /\ call[r].todo \in Patches
    BY <1>10, CallKinds DEF WriteUser, TypeOK
  <2>2. Head(call[r].todo) \in Change
    BY <2>1, PatchGoesOn
  <2>3. call' \in [Requests -> Call]
    BY <1>10, WrittenCall
  <2>4. /\ role' \in [Names -> Roles] /\ active' \in [Names -> BOOLEAN]
        /\ version' \in [Names -> Nat] /\ sessions' \subseteq Session
    <3> DEFINE u == call[r].user
               change == Head(call[r].todo)
    <3>1. Apply(u, change) /\ u \in Names /\ change \in Change
      BY <1>10, <2>1, <2>2 DEF WriteUser
    <3> HIDE DEF u, change
    <3>2. CASE change \in Roles
      BY <3>1, <3>2, Applied DEF TypeOK
    <3>3. CASE change = "password"
      <4>1. version[u] + 1 \in Nat
        BY <3>1 DEF TypeOK
      <4> QED BY <3>1, <3>3, <4>1, Applied DEF TypeOK, SessionsOfOthers
    <3>4. CASE change \in {"enable", "disable"}
      BY <3>1, <3>4, Applied DEF TypeOK, SessionsOfOthers
    <3> QED BY <3>1, <3>2, <3>3, <3>4 DEF Change
  <2> QED BY <1>10, <2>3, <2>4 DEF TypeOK, WriteUser
<1>11. ASSUME UNCHANGED vars
       PROVE  TypeOK'
  BY <1>11 DEF TypeOK, vars
<1>12. CASE PurgeExpiredSessions
  BY <1>12 DEF TypeOK, PurgeExpiredSessions
<1>13. CASE Tick
  BY <1>13 DEF TypeOK, Tick
<1> QED
  BY <1>1, <1>2, <1>3, <1>4, <1>5, <1>6, <1>7, <1>8, <1>9, <1>10, <1>11, <1>12, <1>13
     DEF Next, LoginFails

(* Only some steps drop sessions, each of them for one of the reasons. *)
LEMMA SignedOutStep ==
  ASSUME TypeOK, Next, NEW s \in sessions, s \notin sessions'
  PROVE  \/ s.expires <= now
         \/ sessions' = sessions \ {s}
         \/ ~active'[s.user]
         \/ version'[s.user] # version[s.user]
<1>1. now \in Nat /\ s.expires \in Nat
  BY DEF TypeOK, Session
<1>2. ASSUME NEW r \in Requests, CreateSession(r)
      PROVE  s.expires <= now
  BY <1>1, <1>2 DEF CreateSession
<1>3. ASSUME NEW r \in Requests, DestroySession(r)
      PROVE  sessions' = sessions \ {s}
  BY <1>3 DEF DestroySession
<1>4. CASE PurgeExpiredSessions
  BY <1>1, <1>4 DEF PurgeExpiredSessions
<1>5. ASSUME NEW r \in Requests, WriteUser(r)
      PROVE  ~active'[s.user] \/ version'[s.user] # version[s.user]
  <2> DEFINE u == call[r].user
             change == Head(call[r].todo)
  <2>1. call[r].user \in Names /\ call[r].todo \in Patches
    BY <1>5, CallKinds DEF WriteUser, TypeOK
  <2>2. change \in Change /\ Apply(u, change)
    BY <1>5, <2>1, PatchGoesOn DEF WriteUser
  <2>3. u \in Names
    BY <2>1
  <2> HIDE DEF u, change
  <2>4. sessions' = SessionsOfOthers(u) /\ change \in {"password", "disable"}
    BY <2>2, Applied DEF Change
  <2>5. s.user = u
    BY <2>4 DEF SessionsOfOthers
  <2>6. CASE change = "password"
    <3>1. version' = [version EXCEPT ![u] = version[u] + 1] /\ version[u] \in Nat
      BY <2>2, <2>3, <2>6, Applied DEF TypeOK
    <3>2. version'[u] = version[u] + 1
      BY <2>3, <3>1 DEF TypeOK
    <3> QED BY <2>5, <3>1, <3>2
  <2>7. CASE change = "disable"
    BY <2>2, <2>3, <2>5, <2>7, Applied DEF TypeOK
  <2> QED BY <2>4, <2>6, <2>7
<1>6. sessions' # sessions
  OBVIOUS
<1> QED
  BY <1>2, <1>3, <1>4, <1>5, <1>6
     DEF Next, BootstrapAdmin, AskToCreate, Authenticate, Patch, CreateUser, ReadUser,
         CountActiveAdmins, Tick, LoginFails, vars

(* The accounts that exist bound everything else: AccountInv's middle part. *)
LEMMA AccountsStep ==
  ASSUME TypeOK, OfAccounts, OneFirstAccount, Next
  PROVE  OfAccounts' /\ OneFirstAccount'
<1>1. ASSUME NEW r \in Requests, NEW u \in Names, BootstrapAdmin(r, u)
      PROVE  OfAccounts' /\ OneFirstAccount'
  <2>1. users = {} /\ firsts = {} /\ sessions = {}
    BY <1>1 DEF BootstrapAdmin, OfAccounts
  <2>2. users' = {u} /\ firsts' = {u} /\ sessions' = {}
    BY <1>1, <2>1 DEF BootstrapAdmin, AddUser
  <2>3. IsFiniteSet(users') /\ Cardinality(firsts') = 1
    BY <2>2, FS_Singleton
  <2>4. [op |-> "issue", user |-> u, version |-> 1] \in Call
    BY Calls
  <2>5. call'[r].op = "issue" /\ call'[r].user = u
    BY <1>1, <2>4, CallOf DEF BootstrapAdmin
  <2>6. \A q \in Requests \ {r} : call'[q] = call[q]
    BY <1>1, <2>4, CallOf DEF BootstrapAdmin
  <2>7. \A q \in Requests \ {r} : call[q].op \notin {"issue", "read", "count", "write", "create"}
    BY <2>1 DEF OfAccounts
  <2> QED BY <2>2, <2>3, <2>5, <2>6, <2>7 DEF OfAccounts, OneFirstAccount
<1>2. ASSUME NEW r \in Requests, NEW u \in Names, NEW asRole \in Roles, AskToCreate(r, u, asRole)
      PROVE  OfAccounts' /\ OneFirstAccount'
  <2>1. [op |-> "create", user |-> u, role |-> asRole] \in Call
    BY Calls
  <2>2. call'[r].op = "create" /\ \A q \in Requests \ {r} : call'[q] = call[q]
    BY <1>2, <2>1, CallOf DEF AskToCreate
  <2>3. users # {}
    BY <1>2 DEF AskToCreate, AdminSignedIn, OfAccounts
  <2> QED BY <1>2, <2>2, <2>3 DEF OfAccounts, OneFirstAccount, AskToCreate
<1>3. ASSUME NEW r \in Requests, NEW u \in Names, Authenticate(r, u)
      PROVE  OfAccounts' /\ OneFirstAccount'
  <2>1. [op |-> "issue", user |-> u, version |-> version[u]] \in Call
    BY Calls DEF TypeOK
  <2>2. /\ call'[r].op = "issue" /\ call'[r].user = u
        /\ \A q \in Requests \ {r} : call'[q] = call[q]
    BY <1>3, <2>1, CallOf DEF Authenticate
  <2> QED BY <1>3, <2>2 DEF OfAccounts, OneFirstAccount, Authenticate
<1>4. ASSUME NEW r \in Requests, NEW u \in Names, NEW todo \in Patches, Patch(r, u, todo)
      PROVE  OfAccounts' /\ OneFirstAccount'
  <2>1. [op |-> "read", user |-> u, todo |-> todo] \in Call
    BY Calls
  <2>2. /\ call'[r].op = "read" /\ call'[r].user = u
        /\ \A q \in Requests \ {r} : call'[q] = call[q]
    BY <1>4, <2>1, CallOf DEF Patch
  <2> QED BY <1>4, <2>2 DEF OfAccounts, OneFirstAccount, Patch
<1>5. ASSUME NEW r \in Requests, CreateUser(r)
      PROVE  OfAccounts' /\ OneFirstAccount'
  <2>1. call'[r].op = "idle" /\ \A q \in Requests \ {r} : call'[q] = call[q]
    BY <1>5, Calls, CallOf DEF CreateUser
  <2>2. users' = users \/ users' = users \cup {call[r].user}
    BY <1>5 DEF CreateUser, AddUser
  <2>3. IsFiniteSet(users') /\ users \subseteq users'
    BY <2>2, FS_AddElement DEF OfAccounts
  <2> QED BY <1>5, <2>1, <2>3 DEF OfAccounts, OneFirstAccount, CreateUser
<1>6. ASSUME NEW r \in Requests, CreateSession(r)
      PROVE  OfAccounts' /\ OneFirstAccount'
  <2>1. call'[r].op = "idle" /\ \A q \in Requests \ {r} : call'[q] = call[q]
    BY <1>6, Calls, CallOf DEF CreateSession
  <2>2. call[r].user \in users
    BY <1>6 DEF CreateSession, OfAccounts
  <2>3. \A s \in sessions' : s.user \in users
    BY <1>6, <2>2 DEF CreateSession, OfAccounts
  <2> QED BY <1>6, <2>1, <2>3 DEF OfAccounts, OneFirstAccount, CreateSession
<1>7. ASSUME NEW r \in Requests, DestroySession(r)
      PROVE  OfAccounts' /\ OneFirstAccount'
  BY <1>7 DEF OfAccounts, OneFirstAccount, DestroySession
<1>8. ASSUME NEW r \in Requests, ReadUser(r)
      PROVE  OfAccounts' /\ OneFirstAccount'
  <2>1. PICK o \in {"count", "write"} : call' = [call EXCEPT ![r].op = o]
    BY <1>8 DEF ReadUser
  <2>2. /\ call'[r] = [op |-> o, user |-> call[r].user, todo |-> call[r].todo]
        /\ \A q \in Requests \ {r} : call'[q] = call[q]
    BY <1>8, <2>1, PatchCallOf DEF ReadUser
  <2>3. call[r].user \in users
    BY <1>8 DEF ReadUser, OfAccounts
  <2> QED BY <1>8, <2>2, <2>3 DEF OfAccounts, OneFirstAccount, ReadUser
<1>9. ASSUME NEW r \in Requests, CountActiveAdmins(r)
      PROVE  OfAccounts' /\ OneFirstAccount'
  <2>1. call[r].user \in users
    BY <1>9 DEF CountActiveAdmins, OfAccounts
  <2>2. \/ call'[r] = Idle
        \/ call'[r] = [op |-> "write", user |-> call[r].user, todo |-> call[r].todo]
    BY <1>9, Calls, CallOf, PatchCallOf DEF CountActiveAdmins
  <2>3. \A q \in Requests \ {r} : call'[q] = call[q]
    BY <1>9, Calls, CallOf, PatchCallOf DEF CountActiveAdmins
  <2> QED BY <1>9, <2>1, <2>2, <2>3, Calls DEF OfAccounts, OneFirstAccount, CountActiveAdmins
<1>10. ASSUME NEW r \in Requests, WriteUser(r)
       PROVE  OfAccounts' /\ OneFirstAccount'
  <2>1. call[r].user \in Names /\ call[r].todo \in Patches /\ call[r].user \in users
    BY <1>10, CallKinds DEF WriteUser, TypeOK, OfAccounts
  <2>2. /\ call'[r] # Idle => call'[r].op = "read" /\ call'[r].user = call[r].user
        /\ \A q \in Requests \ {r} : call'[q] = call[q]
    BY <1>10, <2>1, WrittenCall
  <2>3. sessions' \subseteq sessions
    <3>1. Head(call[r].todo) \in Change /\ Apply(call[r].user, Head(call[r].todo))
      BY <1>10, <2>1, PatchGoesOn DEF WriteUser
    <3> QED BY <3>1, Applied DEF Change, SessionsOfOthers
  <2> QED BY <1>10, <2>1, <2>2, <2>3, Calls DEF OfAccounts, OneFirstAccount, WriteUser
<1>11. ASSUME UNCHANGED vars
       PROVE  OfAccounts' /\ OneFirstAccount'
  BY <1>11 DEF OfAccounts, OneFirstAccount, vars
<1>12. CASE PurgeExpiredSessions
  BY <1>12 DEF OfAccounts, OneFirstAccount, PurgeExpiredSessions
<1>13. CASE Tick
  BY <1>13 DEF OfAccounts, OneFirstAccount, Tick
<1> QED
  BY <1>1, <1>2, <1>3, <1>4, <1>5, <1>6, <1>7, <1>8, <1>9, <1>10, <1>11, <1>12, <1>13
     DEF Next, LoginFails

-----------------------------------------------------------------------------
(* One request after the other.                                            *)

(* Of more than one thing, one is not the one that is taken away.          *)
LEMMA AnotherOne ==
  ASSUME NEW S, IsFiniteSet(S), Cardinality(S) > 1, NEW u
  PROVE  \E v \in S : v # u
<1>1. IsFiniteSet({u}) /\ Cardinality({u}) = 1
  BY FS_Singleton
<1>2. ASSUME S \subseteq {u}
      PROVE  FALSE
  <2>1. Cardinality(S) <= 1
    BY <1>1, <1>2, FS_Subset
  <2> QED BY <2>1, FS_CardinalityType
<1> QED BY <1>2

(* A request that starts while none is in progress is alone.               *)
LEMMA Alone ==
  ASSUME TypeOK, NoteOverlap, ~overlapped'
  PROVE  ~overlapped /\ \A q \in Requests : call[q] = Idle
BY DEF NoteOverlap

LEMMA SerialStep ==
  ASSUME AccountInv, Next, TypeOK', ~overlapped'
  PROVE  Serial' /\ Promises'
<1> USE DEF AccountInv
<1>0. ASSUME NEW r \in Requests, NEW q \in Requests, call[r] # Idle, call[q] # Idle, ~overlapped
      PROVE  q = r
  BY <1>0 DEF Serial, AtMostOneCall
<1>1. ASSUME NEW r \in Requests, NEW u \in Names, BootstrapAdmin(r, u)
      PROVE  Serial' /\ Promises'
  <2>1. users = {} /\ sessions = {}
    BY <1>1 DEF BootstrapAdmin, OfAccounts
  <2>2. users' = {u} /\ sessions' = {} /\ role'[u] = "admin" /\ active'[u] /\ version'[u] = 1
    BY <1>1, <2>1 DEF BootstrapAdmin, AddUser, TypeOK, OfAccounts
  <2>3. [op |-> "issue", user |-> u, version |-> 1] \in Call
    BY Calls
  <2>4. /\ call'[r] = [op |-> "issue", user |-> u, version |-> 1]
        /\ \A q \in Requests \ {r} : call'[q] = call[q]
    BY <1>1, <2>3, CallOf DEF BootstrapAdmin
  <2>5. \A q \in Requests \ {r} : call'[q] = Idle
    BY <1>1, <2>4, Alone DEF BootstrapAdmin
  <2>6. u \in ActiveAdmins'
    BY <2>2 DEF ActiveAdmins
  <2>7. Serial'
    BY <2>2, <2>4, <2>5, Calls DEF Serial, AtMostOneCall, LoginIsCurrent, CountHolds
  <2> QED BY <2>2, <2>6, <2>7
           DEF Promises, AlwaysAWayBackIn, DisabledHoldsNoSession, SessionsMatchPassword
<1>2. ASSUME NEW r \in Requests, NEW u \in Names, NEW asRole \in Roles, AskToCreate(r, u, asRole)
      PROVE  Serial' /\ Promises'
  <2>1. [op |-> "create", user |-> u, role |-> asRole] \in Call
    BY Calls
  <2>2. call'[r].op = "create" /\ \A q \in Requests \ {r} : call'[q] = Idle
    BY <1>2, <2>1, CallOf, Alone DEF AskToCreate
  <2>3. ~overlapped
    BY <1>2, Alone DEF AskToCreate
  <2>4. Serial'
    BY <2>2, Calls DEF Serial, AtMostOneCall, LoginIsCurrent, CountHolds
  <2> QED BY <1>2, <2>3, <2>4
           DEF AskToCreate, Promises, AlwaysAWayBackIn, ActiveAdmins, DisabledHoldsNoSession,
               SessionsMatchPassword
<1>3. ASSUME NEW r \in Requests, NEW u \in Names, Authenticate(r, u)
      PROVE  Serial' /\ Promises'
  <2>1. [op |-> "issue", user |-> u, version |-> version[u]] \in Call
    BY Calls DEF TypeOK
  <2>2. /\ call'[r] = [op |-> "issue", user |-> u, version |-> version[u]]
        /\ \A q \in Requests \ {r} : call'[q] = Idle
    BY <1>3, <2>1, CallOf, Alone DEF Authenticate
  <2>3. ~overlapped
    BY <1>3, Alone DEF Authenticate
  <2>4. active'[u] /\ version'[u] = version[u]
    BY <1>3 DEF Authenticate
  <2>5. Serial'
    BY <2>2, <2>4, Calls DEF Serial, AtMostOneCall, LoginIsCurrent, CountHolds
  <2> QED BY <1>3, <2>3, <2>5
           DEF Authenticate, Promises, AlwaysAWayBackIn, ActiveAdmins, DisabledHoldsNoSession,
               SessionsMatchPassword
<1>4. ASSUME NEW r \in Requests, NEW u \in Names, NEW todo \in Patches, Patch(r, u, todo)
      PROVE  Serial' /\ Promises'
  <2>1. [op |-> "read", user |-> u, todo |-> todo] \in Call
    BY Calls
  <2>2. call'[r].op = "read" /\ \A q \in Requests \ {r} : call'[q] = Idle
    BY <1>4, <2>1, CallOf, Alone DEF Patch
  <2>3. ~overlapped
    BY <1>4, Alone DEF Patch
  <2>4. Serial'
    BY <2>2, Calls DEF Serial, AtMostOneCall, LoginIsCurrent, CountHolds
  <2> QED BY <1>4, <2>3, <2>4
           DEF Patch, Promises, AlwaysAWayBackIn, ActiveAdmins, DisabledHoldsNoSession,
               SessionsMatchPassword
<1>5. ASSUME NEW r \in Requests, CreateUser(r)
      PROVE  Serial' /\ Promises'
  <2> DEFINE u == call[r].user
  <2>1. ~overlapped /\ call[r] # Idle /\ u \in Names /\ users # {}
    BY <1>5, CallKinds, Calls DEF CreateUser, TypeOK, OfAccounts
  <2>2. call'[r] = Idle /\ \A q \in Requests \ {r} : call'[q] = call[q]
    BY <1>5, Calls, CallOf DEF CreateUser
  <2>3. \A q \in Requests : call'[q] = Idle
    BY <1>0, <2>1, <2>2
  <2>4. Serial'
    BY <2>3, Calls DEF Serial, AtMostOneCall, LoginIsCurrent, CountHolds
  <2>5. CASE u \in users
    BY <1>5, <2>1, <2>4, <2>5
       DEF CreateUser, Promises, AlwaysAWayBackIn, ActiveAdmins, DisabledHoldsNoSession,
           SessionsMatchPassword
  <2>6. CASE u \notin users
    <3>1. AddUser(u, call[r].role) /\ sessions' = sessions
      BY <1>5, <2>6 DEF CreateUser
    <3> HIDE DEF u
    <3>2. \A v \in users : role'[v] = role[v] /\ active'[v] = active[v] /\ version'[v] = version[v]
      BY <2>1, <2>6, <3>1 DEF AddUser, TypeOK
    <3>3. ActiveAdmins \subseteq ActiveAdmins'
      BY <3>1, <3>2 DEF ActiveAdmins, AddUser
    <3>4. AlwaysAWayBackIn'
      BY <2>1, <3>3 DEF AlwaysAWayBackIn, Promises
    <3> QED BY <2>1, <2>4, <3>1, <3>2, <3>4
             DEF Promises, DisabledHoldsNoSession, SessionsMatchPassword, OfAccounts
  <2> QED BY <2>5, <2>6
<1>6. ASSUME NEW r \in Requests, CreateSession(r)
      PROVE  Serial' /\ Promises'
  <2>1. ~overlapped /\ call[r] # Idle
    BY <1>6, Calls DEF CreateSession
  <2>2. active[call[r].user] /\ version[call[r].user] = call[r].version
    BY <1>6, <2>1 DEF CreateSession, Serial, LoginIsCurrent
  <2>3. \A q \in Requests : call'[q] = Idle
    BY <1>0, <1>6, <2>1, Calls, CallOf DEF CreateSession
  <2>4. Serial'
    BY <2>3, Calls DEF Serial, AtMostOneCall, LoginIsCurrent, CountHolds
  <2>5. \A s \in sessions' : active[s.user] /\ s.version = version[s.user]
    BY <1>6, <2>1, <2>2
       DEF CreateSession, Promises, DisabledHoldsNoSession, SessionsMatchPassword
  <2> QED BY <1>6, <2>1, <2>4, <2>5
           DEF CreateSession, Promises, AlwaysAWayBackIn, ActiveAdmins, DisabledHoldsNoSession,
               SessionsMatchPassword
<1>7. ASSUME NEW r \in Requests, DestroySession(r)
      PROVE  Serial' /\ Promises'
  BY <1>7 DEF DestroySession, Serial, AtMostOneCall, LoginIsCurrent, CountHolds, Guarded,
              Promises, AlwaysAWayBackIn, ActiveAdmins, DisabledHoldsNoSession,
              SessionsMatchPassword
<1>8. ASSUME NEW r \in Requests, ReadUser(r)
      PROVE  Serial' /\ Promises'
  <2> DEFINE o == IF Guarded(call[r].user, Head(call[r].todo)) THEN "count" ELSE "write"
  <2>1. ~overlapped /\ call[r] # Idle /\ o \in {"count", "write"}
    BY <1>8, Calls DEF ReadUser
  <2>2. call' = [call EXCEPT ![r].op = o]
    BY <1>8 DEF ReadUser
  <2>3. /\ call'[r] = [op |-> o, user |-> call[r].user, todo |-> call[r].todo]
        /\ \A q \in Requests \ {r} : call'[q] = call[q]
    BY <1>8, <2>1, <2>2, PatchCallOf DEF ReadUser
  <2>4. \A q \in Requests \ {r} : call'[q] = Idle
    BY <1>0, <2>1, <2>3
  <2>5. role' = role
    BY <1>8 DEF ReadUser
  <2>6. CountHolds'
    BY <2>3, <2>4, <2>5, Calls DEF CountHolds, Guarded
  <2>7. AtMostOneCall' /\ LoginIsCurrent'
    BY <2>1, <2>3, <2>4, Calls DEF AtMostOneCall, LoginIsCurrent
  <2> QED BY <1>8, <2>1, <2>6, <2>7
           DEF ReadUser, Serial, Promises, AlwaysAWayBackIn, ActiveAdmins,
               DisabledHoldsNoSession, SessionsMatchPassword
<1>9. ASSUME NEW r \in Requests, CountActiveAdmins(r)
      PROVE  Serial' /\ Promises'
  <2>1. ~overlapped /\ call[r] # Idle
    BY <1>9, Calls DEF CountActiveAdmins
  <2>2. \A q \in Requests \ {r} : call'[q] = call[q]
    BY <1>9, Calls, CallOf, PatchCallOf DEF CountActiveAdmins
  <2>3. \A q \in Requests \ {r} : call'[q] = Idle
    BY <1>0, <2>1, <2>2
  <2>4. \/ call'[r] = Idle
        \/ /\ call'[r] = [op |-> "write", user |-> call[r].user, todo |-> call[r].todo]
           /\ ~(Cardinality(ActiveAdmins) <= 1)
    BY <1>9, Calls, CallOf, PatchCallOf DEF CountActiveAdmins
  <2>5. IsFiniteSet(ActiveAdmins) /\ ActiveAdmins' = ActiveAdmins
    BY <1>9, FS_Subset DEF CountActiveAdmins, ActiveAdmins, OfAccounts
  <2>6. Cardinality(ActiveAdmins) \in Nat
    BY <2>5, FS_CardinalityType
  <2>7. AtMostOneCall' /\ LoginIsCurrent' /\ CountHolds'
    BY <2>3, <2>4, <2>5, <2>6, Calls DEF AtMostOneCall, LoginIsCurrent, CountHolds
  <2> QED BY <1>9, <2>1, <2>5, <2>7
           DEF CountActiveAdmins, Serial, Promises, AlwaysAWayBackIn, DisabledHoldsNoSession,
               SessionsMatchPassword
<1>10. ASSUME NEW r \in Requests, WriteUser(r)
       PROVE  Serial' /\ Promises'
  <2> DEFINE u == call[r].user
             change == Head(call[r].todo)
  <2>1. ~overlapped /\ call[r] # Idle /\ u \in Names /\ call[r].todo \in Patches /\ u \in users
    BY <1>10, CallKinds, Calls DEF WriteUser, TypeOK, OfAccounts
  <2>2. \A q \in Requests \ {r} : call'[q] = Idle
    BY <1>0, <1>10, <2>1, WrittenCall
  <2>3. call'[r].op \in {"idle", "read"}
    BY <1>10, WrittenCall, Calls
  <2>4. Serial'
    BY <2>2, <2>3, Calls DEF Serial, AtMostOneCall, LoginIsCurrent, CountHolds
  <2>5. change \in Change /\ Apply(u, change) /\ users' = users
    BY <1>10, <2>1, PatchGoesOn DEF WriteUser
  <2>6. Guarded(u, change) => Cardinality(ActiveAdmins) > 1
    BY <1>10, <2>1 DEF Serial, CountHolds, WriteUser
  <2>7. ActiveAdmins # {} /\ IsFiniteSet(ActiveAdmins)
    BY <2>1, FS_Subset DEF Promises, AlwaysAWayBackIn, ActiveAdmins, OfAccounts
  <2>8. /\ role \in [Names -> Roles] /\ active \in [Names -> BOOLEAN]
        /\ version \in [Names -> Nat] /\ users \subseteq Names
    BY DEF TypeOK
  <2>9. \A s \in sessions : s.user \in Names /\ active[s.user] /\ s.version = version[s.user]
    BY <2>1 DEF Promises, DisabledHoldsNoSession, SessionsMatchPassword, TypeOK, Session
  <2> HIDE DEF u, change
  <2>10. /\ \A v \in users : v # u => role'[v] = role[v] /\ active'[v] = active[v]
         /\ ~Guarded(u, change) /\ u \in ActiveAdmins => role'[u] = "admin" /\ active'[u]
    <3>1. CASE change \in Roles
      BY <2>1, <2>5, <2>8, <3>1, Applied DEF Guarded, ActiveAdmins
    <3>2. CASE change = "password"
      BY <2>1, <2>5, <2>8, <3>2, Applied DEF ActiveAdmins
    <3>3. CASE change = "enable"
      BY <2>1, <2>5, <2>8, <3>3, Applied DEF ActiveAdmins
    <3>4. CASE change = "disable"
      BY <2>1, <2>5, <2>8, <3>4, Applied DEF Guarded, ActiveAdmins
    <3> QED BY <2>5, <3>1, <3>2, <3>3, <3>4 DEF Change
  <2>11. AlwaysAWayBackIn'
    <3>1. PICK v \in ActiveAdmins : v # u \/ ~Guarded(u, change)
      BY <2>6, <2>7, AnotherOne
    <3>2. v \in users /\ role[v] = "admin" /\ active[v]
      BY DEF ActiveAdmins
    <3>3. role'[v] = "admin" /\ active'[v]
      BY <2>10, <3>1, <3>2
    <3> QED BY <2>5, <3>2, <3>3 DEF AlwaysAWayBackIn, ActiveAdmins
  <2>12. \A s \in sessions' : active'[s.user] /\ s.version = version'[s.user]
    <3>1. CASE change \in Roles
      BY <2>5, <2>9, <3>1, Applied
    <3>2. CASE change = "password"
      BY <2>5, <2>8, <2>9, <3>2, Applied DEF SessionsOfOthers
    <3>3. CASE change = "enable"
      BY <2>1, <2>5, <2>8, <2>9, <3>3, Applied
    <3>4. CASE change = "disable"
      BY <2>5, <2>8, <2>9, <3>4, Applied DEF SessionsOfOthers
    <3> QED BY <2>5, <3>1, <3>2, <3>3, <3>4 DEF Change
  <2> QED BY <2>4, <2>11, <2>12 DEF Promises, DisabledHoldsNoSession, SessionsMatchPassword
<1>11. ASSUME UNCHANGED vars
       PROVE  Serial' /\ Promises'
  BY <1>11 DEF vars, Serial, AtMostOneCall, LoginIsCurrent, CountHolds, Guarded, Promises,
               AlwaysAWayBackIn, ActiveAdmins, DisabledHoldsNoSession, SessionsMatchPassword
<1>12. CASE PurgeExpiredSessions
  BY <1>12 DEF PurgeExpiredSessions, Serial, AtMostOneCall, LoginIsCurrent, CountHolds, Guarded,
               Promises, AlwaysAWayBackIn, ActiveAdmins, DisabledHoldsNoSession,
               SessionsMatchPassword
<1>13. CASE Tick
  BY <1>13 DEF Tick, Serial, AtMostOneCall, LoginIsCurrent, CountHolds, Guarded, Promises,
               AlwaysAWayBackIn, ActiveAdmins, DisabledHoldsNoSession, SessionsMatchPassword
<1> QED
  BY <1>1, <1>2, <1>3, <1>4, <1>5, <1>6, <1>7, <1>8, <1>9, <1>10, <1>11, <1>12, <1>13
     DEF Next, LoginFails

-----------------------------------------------------------------------------
(* The theorems.                                                           *)

LEMMA AccountInvariant == Spec => []AccountInv
<1>1. ASSUME Init
      PROVE  AccountInv
  <2>1. TypeOK
    BY <1>1, Calls DEF Init, TypeOK, Roles
  <2>2. OfAccounts /\ OneFirstAccount
    BY <1>1, Calls, FS_EmptySet DEF Init, OfAccounts, OneFirstAccount
  <2>3. Serial /\ Promises
    BY <1>1, Calls
       DEF Init, Serial, AtMostOneCall, LoginIsCurrent, CountHolds, Promises, AlwaysAWayBackIn,
           DisabledHoldsNoSession, SessionsMatchPassword
  <2> QED BY <2>1, <2>2, <2>3 DEF AccountInv
<1>2. ASSUME AccountInv, [Next]_vars
      PROVE  AccountInv'
  <2>1. CASE Next
    BY <1>2, <2>1, TypeStep, AccountsStep, SerialStep DEF AccountInv
  <2>2. CASE UNCHANGED vars
    BY <1>2, <2>2
       DEF vars, AccountInv, TypeOK, OfAccounts, OneFirstAccount, Serial, AtMostOneCall,
           LoginIsCurrent, CountHolds, Guarded, Promises, AlwaysAWayBackIn, ActiveAdmins,
           DisabledHoldsNoSession, SessionsMatchPassword
  <2> QED BY <1>2, <2>1, <2>2
<1> QED BY <1>1, <1>2, PTL DEF Spec

(* Rows and calls stay well formed and bootstrap_admin makes one account,  *)
(* whatever requests overlap.                                              *)
THEOREM StoreStaysSound == Spec => []StoreIsSound
<1>1. AccountInv => StoreIsSound
  BY DEF AccountInv, StoreIsSound
<1> QED BY <1>1, AccountInvariant, PTL

(* Requests that come one after the other leave an administrator to sign   *)
(* in, no session of a disabled account and none of an old password.       *)
THEOREM PromisesKeptAlone == Spec => []SerialPromises
<1>1. AccountInv => SerialPromises
  BY DEF AccountInv, Promises, SerialPromises, AdminWhenAlone, SessionsWhenAlone
<1> QED BY <1>1, AccountInvariant, PTL

(* However requests overlap, no step signs a browser out without a reason. *)
THEOREM NobodySignedOutIdly == Spec => SignedOutForAReason
<1>1. ASSUME AccountInv, [Next]_vars
      PROVE  [\A s \in sessions \ sessions' :
                 \/ s.expires <= now
                 \/ sessions' = sessions \ {s}
                 \/ ~active'[s.user]
                 \/ version'[s.user] # version[s.user]]_vars
  BY <1>1, SignedOutStep DEF AccountInv
<1> QED BY <1>1, AccountInvariant, PTL DEF Spec, SignedOutForAReason
=============================================================================
