------------------------------- MODULE Tenancy -------------------------------
(***************************************************************************)
(* Operators as tenants of the platform and their staff (cpo/service.go,   *)
(* auth/cpo_access.go, cpopermissions/): provisioning, the primary         *)
(* administrator and its replacement, activation and suspension, and the   *)
(* roles, overrides and status the staff give each other.                  *)
(*                                                                         *)
(* A request is one transaction: it takes its locks one after the other,   *)
(* sees under each what was committed before it, and writes at its commit. *)
(* An identity or a membership that does not exist cannot be locked: the   *)
(* unique indexes refuse the second of two inserts.                        *)
(***************************************************************************)
EXTENDS Integers, Sequences, FiniteSets

CONSTANTS
  Operators,        \* CPOs, one of which is provisioned: First
  First,
  People,           \* e-mail addresses; Founder is First's primary administrator
  Founder,
  TenantRequests,   \* requests in flight at the same time
  Overrides,        \* of the capability, among "none", "allow" and "deny"
  Absent

VARIABLES
  operator,    \* operator[o]: status, or Absent; histories of its lifecycle
               \* events: the last one "told", and whether one "repeated"
  identity,    \* identity[p]: whether users has p, "mailed": the temporary
               \* passwords mailed to p (a history), "created": how many p had
  membership,  \* membership[<<o, p>>]: role, status, primary, override, or Absent
  task         \* task[h]: what it asks for, its locks, and what it saw

tenancyVars == <<operator, identity, membership, task>>

Nothing == [op |-> "none"]
Member(role, primary) ==
  [role |-> role, status |-> "ACTIVE", primary |-> primary, override |-> "none"]

Provisioned == [status |-> "PENDING", told |-> "PENDING", repeated |-> FALSE]

TenancyInit ==
  /\ operator = [o \in Operators |->
       IF o = First THEN Provisioned ELSE Absent]
  /\ identity = [p \in People |-> IF p = Founder THEN [created |-> 1, mailed |-> 1]
                                                 ELSE [created |-> 0, mailed |-> 0]]
  /\ membership = [m \in Operators \X People |->
       IF m = <<First, Founder>> THEN Member("ADMIN", TRUE) ELSE Absent]
  /\ task = [h \in TenantRequests |-> Nothing]

-----------------------------------------------------------------------------
(* cpopermissions and auth/cpo_access.go, for the capability to manage staff. *)

\* Effective: DENY, then ALLOW, then the bundle of the role.
Effective(m) ==
  CASE m.override = "deny" -> {}
    [] m.override = "allow" -> {"staff"}
    [] OTHER -> IF m.role = "ADMIN" THEN {"staff"} ELSE {}

\* EvaluateCPOAccess: read for each request, never taken from a token.
Access(o, p) ==
  LET m == membership[<<o, p>>] IN
  IF m = Absent \/ operator[o] = Absent THEN {}
  ELSE IF m.status = "ACTIVE" /\ operator[o].status = "ACTIVE" THEN Effective(m) ELSE {}

\* requireDelegation: a role and an override that the principal holds itself.
MayDelegate(o, p, role, override) ==
  (role = "ADMIN" \/ override = "allow") => "staff" \in Access(o, p)

-----------------------------------------------------------------------------
Roles == {"ADMIN", "VIEWER"}

\* A staff change chooses what it writes at its commit: no lock depends on it.
Requested ==
  [op : {"CREATE", "SET_PRIMARY"}, operator : Operators, person : People]
  \cup [op : {"ACTIVE", "SUSPENDED"}, operator : Operators]
  \cup [op : {"RESEND", "PROFILE", "SET_LIVE"}, operator : Operators]
  \cup [op : {"CREATE_STAFF", "UPDATE_STAFF", "TRANSITION_STAFF"},
        operator : Operators, person : People, by : People]

PrimaryOf(o) == {p \in People : membership[<<o, p>>] # Absent /\ membership[<<o, p>>].primary}
KnownIdentity(p) == IF identity[p].created > 0 THEN {p} ELSE {}

Exclusive(kind, ids) == [kind |-> kind, ids |-> ids, shared |-> FALSE]
Shared(kind, ids) == [kind |-> kind, ids |-> ids, shared |-> TRUE]
MembershipRows(o, people) == {<<o, p>> : p \in {q \in people : membership[<<o, q>>] # Absent}}

\* Mutant: a staff change reads the membership without FOR UPDATE.
StaffLocksNone(r) == <<Exclusive("membership", {})>>

StaffLocks(r) == <<Exclusive("membership", MembershipRows(r.operator, {r.person}))>>

\* The locks of a request in order, as the rows are now.  An insert of a
\* membership shares its operator's row (its foreign key).
LocksOf(r) ==
  CASE r.op = "CREATE" ->
         <<Exclusive("admin", {r.person}), Exclusive("identity", KnownIdentity(r.person))>>
    [] r.op = "SET_PRIMARY" ->
         <<Exclusive("primary", {r.operator}), Exclusive("operator", {r.operator}),
           Exclusive("admin", {r.person}),
           Exclusive("membership", MembershipRows(r.operator, PrimaryOf(r.operator))),
           Exclusive("identity", KnownIdentity(r.person)),
           Exclusive("membership", MembershipRows(r.operator, {r.person}))>>
    [] r.op \in {"ACTIVE", "SUSPENDED", "PROFILE", "SET_LIVE"} ->
         <<Exclusive("operator", {r.operator})>>
    [] r.op = "RESEND" ->
         <<Shared("operator", {r.operator}),
           Exclusive("membership", MembershipRows(r.operator, PrimaryOf(r.operator))),
           Exclusive("identity", PrimaryOf(r.operator))>>
    [] r.op = "CREATE_STAFF" ->
         <<Exclusive("staff", {<<r.operator, r.person>>}),
           Exclusive("identity", KnownIdentity(r.person)), Shared("operator", {r.operator})>>
    [] OTHER -> StaffLocks(r)

Busy(h) == task[h] # Nothing
HasAll(h) == Busy(h) /\ Len(task[h].held) = Len(LocksOf(task[h].asked))
Wanted(h) == LocksOf(task[h].asked)[Len(task[h].held) + 1]
Conflict(k, l) == k.kind = l.kind /\ k.ids \cap l.ids # {} /\ ~(k.shared /\ l.shared)
HeldUp(h) ==
  \E g \in TenantRequests \ {h} : Busy(g) /\
    \E i \in DOMAIN task[g].held : Conflict(Wanted(h), task[g].held[i])

\* Platform requests need a platform administrator; a staff change needs the
\* capability, which is all that CreateStaff, before its transaction, checks
\* its delegation against.
Permitted(r) ==
  /\ (operator[r.operator] = Absent) = (r.op = "CREATE")
  /\ r.op \in {"CREATE_STAFF", "UPDATE_STAFF", "TRANSITION_STAFF"} =>
       "staff" \in Access(r.operator, r.by)
  /\ r.op \in {"UPDATE_STAFF", "TRANSITION_STAFF"} => membership[<<r.operator, r.person>>] # Absent

BeginTask(h, r) ==
  /\ ~Busy(h) /\ Permitted(r)
  /\ task' = [task EXCEPT ![h] = [op |-> r.op, asked |-> r, held |-> <<>>, read |-> Absent]]
  /\ UNCHANGED <<operator, identity, membership>>

\* A staff change reads the membership with its lock.
TakeLock(h) ==
  /\ Busy(h) /\ ~HasAll(h) /\ ~HeldUp(h)
  /\ task' = [task EXCEPT ![h].held = Append(@, Wanted(h)), ![h].read =
       IF task[h].op \in {"UPDATE_STAFF", "TRANSITION_STAFF"}
       THEN membership[<<task[h].asked.operator, task[h].asked.person>>] ELSE Absent]
  /\ UNCHANGED <<operator, identity, membership>>

\* A check refuses, the client goes away, or PostgreSQL ends a deadlock
\* (CreateStaff has the identity and waits for the operator's row that a
\* replacement of the primary administrator has).
Withdraw(h) ==
  /\ Busy(h)
  /\ task' = [task EXCEPT ![h] = Nothing]
  /\ UNCHANGED <<operator, identity, membership>>

Done(h, ops) == HasAll(h) /\ task[h].op \in ops /\ task' = [task EXCEPT ![h] = Nothing]
Asks(h) == task[h].asked
SawIdentity(h) ==
  \E i \in DOMAIN task[h].held : task[h].held[i].kind = "identity"
                                   /\ Asks(h).person \in task[h].held[i].ids

\* An identity that was not found is created, and its temporary password is
\* mailed in the same transaction; users.email is unique.
WithIdentity(h) ==
  LET p == Asks(h).person IN
  IF SawIdentity(h) THEN UNCHANGED identity
  ELSE /\ identity[p].created = 0
       /\ identity' = [identity EXCEPT ![p].created = 1, ![p].mailed = @ + 1]

-----------------------------------------------------------------------------
(* The platform's administrators. *)

Create(h) ==
  LET r == Asks(h) IN
  /\ Done(h, {"CREATE"})
  /\ operator[r.operator] = Absent
  /\ operator' = [operator EXCEPT ![r.operator] = Provisioned]
  /\ membership' = [membership EXCEPT ![<<r.operator, r.person>>] = Member("ADMIN", TRUE)]
  /\ WithIdentity(h)

\* The same person is restored, or another replaces them: the one before is
\* REVOKED and its sessions end.  Overrides stay as they are.
SetPrimaryAdmin(h) ==
  LET r == Asks(h)
      target == <<r.operator, r.person>>
      before == membership[target] IN
  /\ Done(h, {"SET_PRIMARY"})
  /\ WithIdentity(h)
  /\ membership' = [m \in DOMAIN membership |->
       IF m = target
       THEN [Member("ADMIN", TRUE) EXCEPT
               !.override = IF before = Absent THEN @ ELSE before.override]
       ELSE IF m[1] = r.operator /\ membership[m] # Absent /\ membership[m].primary
       THEN [membership[m] EXCEPT !.primary = FALSE, !.status = "REVOKED"]
       ELSE membership[m]]
  /\ UNCHANGED operator

Told(o, status) ==
  [operator EXCEPT ![o].status = status, ![o].told = status,
                   ![o].repeated = @ \/ operator[o].told = status]

\* transitionStatus; a suspension also revokes every session (AdminAccess,
\* CustomerAccess).
TransitionStatus(h) ==
  LET o == Asks(h).operator IN
  /\ Done(h, {"ACTIVE", "SUSPENDED"})
  /\ operator' = IF operator[o].status = Asks(h).op THEN operator
                 ELSE Told(o, Asks(h).op)
  /\ UNCHANGED <<identity, membership>>

\* What these write (names, the live app, a mail without a password to an
\* administrator who is active) is not modelled; their locks are.
UpdateProfile(h) == Done(h, {"PROFILE"}) /\ UNCHANGED <<operator, identity, membership>>

SetLiveAppID(h) == Done(h, {"SET_LIVE"}) /\ UNCHANGED <<operator, identity, membership>>

ResendPrimaryAdminOnboarding(h) ==
  /\ Done(h, {"RESEND"})
  /\ UNCHANGED <<operator, identity, membership>>

-----------------------------------------------------------------------------
(* The staff. *)

CreateStaff(h) ==
  LET r == Asks(h) IN
  /\ Done(h, {"CREATE_STAFF"})
  /\ membership[<<r.operator, r.person>>] = Absent
  /\ \E role \in Roles, override \in Overrides :
       membership' = [membership EXCEPT ![<<r.operator, r.person>>] =
                        [Member(role, FALSE) EXCEPT !.override = override]]
  /\ WithIdentity(h)
  /\ UNCHANGED operator

\* The primary administrator and one's own membership are left alone.
UpdateStaff(h) ==
  LET r == Asks(h)
      m == <<r.operator, r.person>> IN
  /\ Done(h, {"UPDATE_STAFF"})
  /\ ~task[h].read.primary /\ r.person # r.by
  /\ \E role \in Roles, override \in Overrides :
       /\ MayDelegate(r.operator, r.by, role, override)
       /\ membership' = [membership EXCEPT ![m].role = role, ![m].override = override]
  /\ UNCHANGED <<operator, identity>>

TransitionStaff(h) ==
  LET r == Asks(h)
      m == <<r.operator, r.person>> IN
  /\ Done(h, {"TRANSITION_STAFF"})
  /\ ~task[h].read.primary
  /\ \E status \in {"ACTIVE", "SUSPENDED", "REVOKED"} :
       membership' = [membership EXCEPT ![m].status = status]
  /\ UNCHANGED <<operator, identity>>

TenancyNext ==
  \E h \in TenantRequests :
    \/ \E r \in Requested : BeginTask(h, r)
    \/ TakeLock(h)
    \/ Create(h) \/ SetPrimaryAdmin(h) \/ TransitionStatus(h)
    \/ UpdateProfile(h) \/ SetLiveAppID(h) \/ ResendPrimaryAdminOnboarding(h)
    \/ CreateStaff(h) \/ UpdateStaff(h) \/ TransitionStaff(h)
    \/ Withdraw(h)

TenancySpec == TenancyInit /\ [][TenancyNext]_tenancyVars

-----------------------------------------------------------------------------
TypeOK ==
  /\ operator \in [Operators -> {Absent} \cup
       [status : {"PENDING", "ACTIVE", "SUSPENDED"}, told : {"PENDING", "ACTIVE", "SUSPENDED"},
        repeated : BOOLEAN]]
  /\ identity \in [People -> [created : {0, 1}, mailed : 0 .. 1]]
  /\ membership \in [Operators \X People -> {Absent} \cup
       [role : Roles, status : {"ACTIVE", "SUSPENDED", "REVOKED"}, primary : BOOLEAN,
        override : Overrides \cup {"none"}]]
  /\ \A h \in TenantRequests : Busy(h) => task[h].asked \in Requested

\* Every operator has one primary administrator, who is an active ADMIN,
\* whatever replacements and staff changes of that person overlap: somebody
\* can always sign in for an operator the platform has activated.
PrimaryAdminStands ==
  \A o \in Operators : operator[o] # Absent =>
    /\ Cardinality(PrimaryOf(o)) = 1
    /\ \A p \in PrimaryOf(o) : membership[<<o, p>>].status = "ACTIVE"
                                 /\ membership[<<o, p>>].role = "ADMIN"

\* A person whom several operators invite at the same time gets one identity
\* and one temporary password, and a membership is never left without one.
InvitedOnce ==
  /\ \A p \in People : identity[p].mailed = identity[p].created
  /\ \A m \in DOMAIN membership :
        membership[m] # Absent => identity[m[2]].created = 1 /\ operator[m[1]] # Absent

\* The platform's stream tells each change of an operator's status once and
\* in order: its last word is the status.
StatusIsTold ==
  \A o \in Operators : operator[o] # Absent =>
    operator[o].told = operator[o].status /\ ~operator[o].repeated
=============================================================================
