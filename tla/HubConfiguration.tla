-------------------------- MODULE HubConfiguration --------------------------
(***************************************************************************)
(* What a CPO sells: hubs, the chargers in them, their tariffs and their   *)
(* tax profile (cpo/service.go, commercial/), changed by requests that run *)
(* at the same time.                                                       *)
(*                                                                         *)
(* A request is one transaction.  It takes its locks one after the other   *)
(* (rows, and the two advisory locks), reads what they protect, and writes *)
(* and releases them at its commit; the locks it waits for may be held by  *)
(* a request that waits for it.  What a request reads without a lock is    *)
(* read when it begins.  The triggers of migration 000044 repeat, under    *)
(* the same advisory lock, the check made here at the commit.              *)
(*                                                                         *)
(* The tariffs here are those of hubs.  A charger's or a user group's go   *)
(* the same way, without the hub's row and its floor.                      *)
(***************************************************************************)
EXTENDS Integers, Sequences, FiniteSets

Seqs == INSTANCE SequencesExt

CONSTANTS
  Hubs, Chargers, Profiles, States,
  Tariffs,        \* identities a new tariff may get
  Schedules,      \* the date ranges tariffs are given: <<start, end>>
  Requests,       \* requests in flight at the same time
  Instants,       \* the instants prices are asked for
  None

NoDate == -1      \* a start or end that is not set
Taxes == {"inactive", "split", "integrated"}

\* None is no row, and no identity that a row refers to.
ASSUME HubAssumption ==
  /\ None \notin [visible : BOOLEAN, state : States, gst : {None} \cup Profiles]
  /\ None \notin [target : Hubs, schedule : Schedules, active : BOOLEAN]
  /\ None \notin Hubs \cup Profiles \cup Tariffs
  /\ IsFiniteSet(Tariffs)
  /\ Schedules \subseteq Int \X Int /\ Instants \subseteq Int

VARIABLES
  hub,       \* hub[h]: customer_visible, state, gst_id; None if there is none
  charger,   \* charger[c]: hub_id, and whether it is ACTIVE or customer-visible
  gst,       \* gst[g]: state and what it taxes: nothing while it is inactive,
             \* else split components or the integrated one
  tariff,    \* tariff[t]: target, schedule, is_active; None if there is none
  request    \* request[q]: what it asks for, the locks it took, in order

vars == <<hub, charger, gst, tariff, request>>

Idle == [op |-> "IDLE"]

Init ==
  /\ hub = [h \in Hubs |-> None]
  /\ charger = [c \in Chargers |-> [hub |-> None, public |-> FALSE]]
  /\ gst \in [Profiles -> [state : States, tax : {"split"}]]
  /\ tariff = [t \in Tariffs |-> None]
  /\ request = [q \in Requests |-> Idle]

-----------------------------------------------------------------------------
(* commercial/tariff_temporal.go.  A tariff is a root, an open-ended        *)
(* fallback from its start, or an override of a bounded interval.           *)

StartOf(x) == x.schedule[1]
EndOf(x) == x.schedule[2]
IsRoot(x) == StartOf(x) = NoDate /\ EndOf(x) = NoDate
IsOpen(x) == StartOf(x) # NoDate /\ EndOf(x) = NoDate
IsBounded(x) == StartOf(x) # NoDate /\ EndOf(x) # NoDate

\* ValidateTariffDateShape
DateShape(schedule) ==
  /\ schedule[1] = NoDate => schedule[2] = NoDate
  /\ schedule[1] # NoDate /\ schedule[2] # NoDate => schedule[1] < schedule[2]

\* boundedOverlap
Overlap(x, y) == StartOf(x) < EndOf(y) /\ StartOf(y) < EndOf(x)

\* Mutant: an interval contains an identical one.
ContainsEqual(outer, inner) ==
  StartOf(outer) <= StartOf(inner) /\ EndOf(inner) <= EndOf(outer)

\* strictlyContains
StrictlyContains(outer, inner) ==
  /\ StartOf(outer) <= StartOf(inner) /\ EndOf(inner) <= EndOf(outer)
  /\ StartOf(outer) < StartOf(inner) \/ EndOf(inner) < EndOf(outer)

\* ValidateEnabledTariffTopology of a function from tariffs to their rows.
ValidTopology(rows) ==
  LET enabled == {t \in DOMAIN rows : rows[t].active} IN
  /\ \A t \in enabled : DateShape(rows[t].schedule)
  /\ Cardinality({t \in enabled : IsRoot(rows[t])}) <= 1
  /\ \A t, u \in enabled : t # u =>
       /\ ~(IsOpen(rows[t]) /\ IsOpen(rows[u]) /\ StartOf(rows[t]) = StartOf(rows[u]))
       /\ IsBounded(rows[t]) /\ IsBounded(rows[u]) /\ Overlap(rows[t], rows[u])
            => StrictlyContains(rows[t], rows[u]) \/ StrictlyContains(rows[u], rows[t])

\* The rows of one target in a table of tariffs.
RowsOf(table, target) ==
  LET ids == {t \in Tariffs : table[t] # None /\ table[t].target = target} IN
  [t \in ids |-> table[t]]

\* validateVisibleHubTariffFloor: a published hub has one enabled root.
HasFloor(rows) == Cardinality({t \in DOMAIN rows : rows[t].active /\ IsRoot(rows[t])}) = 1

AppliesAt(row, at) ==
  /\ row.active
  /\ StartOf(row) = NoDate \/ StartOf(row) <= at
  /\ EndOf(row) = NoDate \/ at < EndOf(row)

\* The turn of a row of its kind in the loop of ResolveEnabledTariff: whether
\* it replaces the one kept so far.
Replaces(row, kept) ==
  \/ IsRoot(row)
  \/ StartOf(row) > StartOf(kept)
  \/ IsBounded(row) /\ StartOf(row) = StartOf(kept) /\ EndOf(row) < EndOf(kept)

\* What the loop keeps of the rows of a kind, in the order they came in.
KeptOf(kind, rows, order, at) ==
  LET kept[n \in 0..Len(order)] ==
        IF n = 0 THEN None
        ELSE LET before == kept[n - 1]  row == rows[order[n]] IN
             IF /\ order[n] \in kind /\ AppliesAt(row, at)
                /\ before = None \/ Replaces(row, rows[before])
               THEN order[n] ELSE before IN
  kept[Len(order)]

\* ResolveEnabledTariff: the kept override, else fallback, else root.
Resolve(rows, order, at) ==
  LET bounded == KeptOf({t \in DOMAIN rows : IsBounded(rows[t])}, rows, order, at)
      open == KeptOf({t \in DOMAIN rows : IsOpen(rows[t])}, rows, order, at) IN
  IF bounded # None THEN bounded
  ELSE IF open # None THEN open
  ELSE KeptOf({t \in DOMAIN rows : IsRoot(rows[t])}, rows, order, at)

-----------------------------------------------------------------------------
(* commercial/gst.go: a hub in the profile's own state pays split           *)
(* components, one elsewhere the integrated one.                            *)
Fits(profile, state) ==
  /\ profile.tax # "inactive"
  /\ profile.tax # (IF profile.state = state THEN "integrated" ELSE "split")

-----------------------------------------------------------------------------
(* The requests and the locks each takes, in order.  The values a request   *)
(* writes are chosen at its commit: no lock depends on them.                *)

Asked ==
  [op : {"CREATE_TARIFF"}, target : Hubs]
  \cup [op : {"CHANGE_TARIFF"}, target : Hubs, tariff : Tariffs]
  \cup [op : {"UPDATE_HUB", "HUB_VISIBILITY"}, hub : Hubs, visible : BOOLEAN]
  \cup [op : {"ASSIGN_GST"}, hub : Hubs, gst : Profiles]
  \cup [op : {"UNASSIGN_GST", "DELETE_HUB"}, hub : Hubs]
  \cup [op : {"UPDATE_GST"}, gst : Profiles]
  \cup [op : {"CREATE_HUB"}, hub : Hubs, chargers : SUBSET Chargers]
  \cup [op : {"ASSIGN_CHARGER", "UNASSIGN_CHARGER"}, charger : Chargers, hub : Hubs]
  \cup [op : {"UPDATE_CHARGER"}, charger : Chargers]

InHub(h) == {c \in Chargers : charger[c].hub = h}
HubsOf(g) == {h \in Hubs : hub[h] # None /\ hub[h].gst = g}
RowLock(kind, ids) == <<{<<kind, id>> : id \in ids}>>

\* validateTariffTopologyMutation: the hub's row, the target's advisory lock,
\* the target's rows.
TopologyLocks(target) ==
  RowLock("hub", {target}) \o RowLock("topology", {target})
    \o RowLock("tariff", DOMAIN RowsOf(tariff, target))

\* validateVisibleHubTariffFloor, for a hub that will be published.
FloorLocks(r) == IF r.visible THEN RowLock("topology", {r.hub}) ELSE <<>>

\* Mutant: the changes of GST relations do not take their common lock.
RelationLocksNone == <<>>

\* lockCPOGSTRelations
RelationLocks == RowLock("relations", {None})

\* The locks of a request, as the rows are now.
Locks(r) ==
  CASE r.op = "CREATE_TARIFF" -> TopologyLocks(r.target)
    [] r.op = "CHANGE_TARIFF" -> RowLock("tariff", {r.tariff}) \o TopologyLocks(r.target)
    [] r.op = "HUB_VISIBILITY" -> RowLock("hub", {r.hub}) \o FloorLocks(r)
    [] r.op = "UPDATE_HUB" ->
         RelationLocks \o RowLock("hub", {r.hub})
           \o RowLock("gst", {g \in Profiles : r.hub \in HubsOf(g)}) \o FloorLocks(r)
    [] r.op = "ASSIGN_GST" ->
         RelationLocks \o RowLock("hub", {r.hub}) \o RowLock("gst", {r.gst})
    [] r.op = "UNASSIGN_GST" -> RelationLocks \o RowLock("hub", {r.hub})
    [] r.op = "UPDATE_GST" ->
         RelationLocks \o RowLock("gst", {r.gst}) \o RowLock("hub", HubsOf(r.gst))
    [] r.op = "CREATE_HUB" -> RowLock("charger", r.chargers)
    [] r.op = "DELETE_HUB" -> RowLock("charger", InHub(r.hub)) \o RowLock("hub", {r.hub})
    [] r.op = "ASSIGN_CHARGER" -> RowLock("charger", {r.charger}) \o RowLock("hub", {r.hub})
    [] OTHER -> RowLock("charger", {r.charger})

\* What a request reads without a lock, before it takes any.
Admissible(r) ==
  CASE r.op = "CREATE_TARIFF" -> hub[r.target] # None
    [] r.op = "CHANGE_TARIFF" -> r.tariff \in DOMAIN RowsOf(tariff, r.target)
    [] r.op = "CREATE_HUB" -> /\ hub[r.hub] = None
                              /\ \A c \in r.chargers : charger[c].hub = None
    [] r.op = "DELETE_HUB" -> hub[r.hub] # None /\ DOMAIN RowsOf(tariff, r.hub) = {}
    [] r.op \in {"UPDATE_GST", "UPDATE_CHARGER"} -> TRUE
    [] OTHER -> hub[r.hub] # None

InFlight(q) == request[q] # Idle
Held(q) == IF InFlight(q) THEN UNION {request[q].held[i] : i \in DOMAIN request[q].held} ELSE {}
Ready(q) == InFlight(q) /\ Len(request[q].held) = Len(Locks(request[q].asked))
Wants(q) == Locks(request[q].asked)[Len(request[q].held) + 1]
HeldBy(q, locks) == {p \in Requests \ {q} : Held(p) \cap locks # {}}

Begin(q, r) ==
  /\ ~InFlight(q) /\ Admissible(r)
  /\ request' = [request EXCEPT ![q] = [op |-> r.op, asked |-> r, held |-> <<>>]]
  /\ UNCHANGED <<hub, charger, gst, tariff>>

Lock(q) ==
  /\ InFlight(q) /\ ~Ready(q) /\ HeldBy(q, Wants(q)) = {}
  /\ request' = [request EXCEPT ![q].held = Append(@, Wants(q))]
  /\ UNCHANGED <<hub, charger, gst, tariff>>

Ends(q) == request' = [request EXCEPT ![q] = Idle]

\* A check refuses it, the client goes away, or PostgreSQL ends it as the
\* victim of a deadlock.
Abort(q) ==
  /\ InFlight(q) /\ Ends(q)
  /\ UNCHANGED <<hub, charger, gst, tariff>>

Commits(q, op) == Ready(q) /\ request[q].op = op /\ Ends(q)
Of(q) == request[q].asked

-----------------------------------------------------------------------------
(* What each request checks under its locks and writes.                     *)

\* validateTariffTopologyMutation of the resulting rows.
KeepsTopology(table, target) ==
  /\ ValidTopology(RowsOf(table, target))
  /\ hub[target] # None
  /\ hub[target].visible => HasFloor(RowsOf(table, target))

WriteTariff(t, target, row) ==
  /\ tariff' = [tariff EXCEPT ![t] = row]
  /\ KeepsTopology(tariff', target)
  /\ UNCHANGED <<hub, charger, gst>>

\* A new row gets an identity that no request in flight knows (a UUID).
CreateTariff(q) ==
  /\ Commits(q, "CREATE_TARIFF")
  /\ \E t \in Tariffs, schedule \in Schedules, active \in BOOLEAN :
       /\ tariff[t] = None
       /\ \A p \in Requests : request[p].op = "CHANGE_TARIFF" => Of(p).tariff # t
       /\ WriteTariff(t, Of(q).target,
                      [target |-> Of(q).target, schedule |-> schedule, active |-> active])

UpdateTariff(q) ==
  /\ Commits(q, "CHANGE_TARIFF")
  /\ Of(q).tariff \in DOMAIN RowsOf(tariff, Of(q).target)
  /\ \E schedule \in Schedules, active \in BOOLEAN :
       WriteTariff(Of(q).tariff, Of(q).target,
                   [target |-> Of(q).target, schedule |-> schedule, active |-> active])

DeleteTariff(q) ==
  /\ Commits(q, "CHANGE_TARIFF")
  /\ Of(q).tariff \in DOMAIN RowsOf(tariff, Of(q).target)
  /\ WriteTariff(Of(q).tariff, Of(q).target, None)

\* A hub row is written as it may be: published over its floor only.
WriteHub(h, row) ==
  /\ row.visible => HasFloor(RowsOf(tariff, h))
  /\ hub' = [hub EXCEPT ![h] = row]
  /\ UNCHANGED <<charger, gst, tariff>>

UpdateHubCustomerVisibility(q) ==
  /\ Commits(q, "HUB_VISIBILITY") /\ hub[Of(q).hub] # None
  /\ WriteHub(Of(q).hub, [hub[Of(q).hub] EXCEPT !.visible = Of(q).visible])

UpdateHub(q) ==
  LET row == hub[Of(q).hub] IN
  /\ Commits(q, "UPDATE_HUB") /\ row # None
  /\ \E state \in States :
       /\ row.gst # None => Fits(gst[row.gst], state)
       /\ WriteHub(Of(q).hub, [row EXCEPT !.visible = Of(q).visible, !.state = state])

\* AssignGSTToHub and UpdateGSTForHub.
AssignGST(q) ==
  LET h == Of(q).hub  g == Of(q).gst IN
  /\ Commits(q, "ASSIGN_GST")
  /\ hub[h] # None /\ Fits(gst[g], hub[h].state)
  /\ HubsOf(g) \subseteq {h}
  /\ hub' = [hub EXCEPT ![h].gst = g]
  /\ UNCHANGED <<charger, gst, tariff>>

UnassignGST(q) ==
  /\ Commits(q, "UNASSIGN_GST")
  /\ hub[Of(q).hub] # None
  /\ hub' = [hub EXCEPT ![Of(q).hub].gst = None]
  /\ UNCHANGED <<charger, gst, tariff>>

UpdateGST(q) ==
  LET g == Of(q).gst IN
  /\ Commits(q, "UPDATE_GST")
  /\ gst' \in {[gst EXCEPT ![g] = row] : row \in [state : States, tax : Taxes]}
  /\ \A h \in HubsOf(g) : Fits(gst'[g], hub[h].state)
  /\ UNCHANGED <<hub, charger, tariff>>

\* The chargers are moved whatever hub they are in by now.
CreateHub(q) ==
  /\ Commits(q, "CREATE_HUB")
  /\ hub[Of(q).hub] = None
  /\ hub' \in {[hub EXCEPT ![Of(q).hub] =
                 [visible |-> FALSE, state |-> state, gst |-> None]] : state \in States}
  /\ charger' = [c \in Chargers |->
                   IF c \in Of(q).chargers THEN [charger[c] EXCEPT !.hub = Of(q).hub]
                                           ELSE charger[c]]
  /\ UNCHANGED <<gst, tariff>>

OutOfHub(c) == [hub |-> None, public |-> FALSE]

\* What still refers to the hub at the delete refuses it (foreign keys).
DeleteHub(q) ==
  LET h == Of(q).hub IN
  /\ Commits(q, "DELETE_HUB")
  /\ hub[h] # None /\ DOMAIN RowsOf(tariff, h) = {}
  /\ RowLock("charger", InHub(h))[1] \subseteq Held(q)
  /\ charger' = [c \in Chargers |-> IF c \in InHub(h) THEN OutOfHub(c) ELSE charger[c]]
  /\ hub' = [hub EXCEPT ![h] = None]
  /\ UNCHANGED <<gst, tariff>>

AssignCharger(q) ==
  /\ Commits(q, "ASSIGN_CHARGER")
  /\ hub[Of(q).hub] # None
  /\ charger' = [charger EXCEPT ![Of(q).charger].hub = Of(q).hub]
  /\ UNCHANGED <<hub, gst, tariff>>

UnassignCharger(q) ==
  LET c == Of(q).charger IN
  /\ Commits(q, "UNASSIGN_CHARGER")
  /\ charger[c].hub = Of(q).hub
  /\ charger' = [charger EXCEPT ![c] = OutOfHub(c)]
  /\ UNCHANGED <<hub, gst, tariff>>

\* updateChargerStatus and UpdateChargerCustomerVisibility.
UpdateCharger(q) ==
  LET c == Of(q).charger IN
  /\ Commits(q, "UPDATE_CHARGER")
  /\ \E public \in BOOLEAN :
       /\ public => charger[c].hub # None
       /\ charger' = [charger EXCEPT ![c].public = public]
  /\ UNCHANGED <<hub, gst, tariff>>

Commit(q) ==
  \/ CreateTariff(q) \/ UpdateTariff(q) \/ DeleteTariff(q)
  \/ UpdateHubCustomerVisibility(q) \/ UpdateHub(q)
  \/ AssignGST(q) \/ UnassignGST(q) \/ UpdateGST(q)
  \/ CreateHub(q) \/ DeleteHub(q)
  \/ AssignCharger(q) \/ UnassignCharger(q) \/ UpdateCharger(q)

Next == \E q \in Requests :
  \/ \E r \in Asked : Begin(q, r)
  \/ Lock(q) \/ Commit(q) \/ Abort(q)

Spec == Init /\ [][Next]_vars

-----------------------------------------------------------------------------
TypeOK ==
  /\ hub \in [Hubs -> {None} \cup [visible : BOOLEAN, state : States,
                                    gst : {None} \cup Profiles]]
  /\ charger \in [Chargers -> [hub : {None} \cup Hubs, public : BOOLEAN]]
  /\ gst \in [Profiles -> [state : States, tax : Taxes]]
  /\ tariff \in [Tariffs -> {None} \cup [target : Hubs, schedule : Schedules,
                                          active : BOOLEAN]]
  /\ \A q \in Requests : InFlight(q) =>
       /\ request[q].asked \in Asked /\ request[q].op = request[q].asked.op
       /\ Len(request[q].held) <= Len(Locks(request[q].asked))

\* At every instant the price of a target does not depend on the order the
\* database returns its tariffs in, and an override that applies lies inside
\* every other one that applies.
PriceIsDetermined ==
  \A target \in Hubs, at \in Instants :
    LET rows == RowsOf(tariff, target)
        found == {Resolve(rows, order, at) : order \in Seqs!SetToSeqs(DOMAIN rows)} IN
    /\ Cardinality(found) = 1
    /\ \A t \in found \ {None} : \A u \in DOMAIN rows \ {t} :
         IsBounded(rows[u]) /\ AppliesAt(rows[u], at) => StrictlyContains(rows[u], rows[t])

\* Whatever requests overlap, what customers are shown can be sold: a
\* published hub has exactly one enabled root tariff, a published or active
\* charger belongs to a hub that exists, and the tax profile of a hub fits
\* the states both are in now; and it has one price at a time.
ShownCanBeSold ==
  /\ TypeOK
  /\ \A h \in Hubs : hub[h] # None =>
       /\ hub[h].visible => HasFloor(RowsOf(tariff, h))
       /\ hub[h].gst # None => Fits(gst[hub[h].gst], hub[h].state)
  /\ \A c \in Chargers : /\ charger[c].public => charger[c].hub # None
                         /\ charger[c].hub # None => hub[charger[c].hub] # None
  /\ PriceIsDetermined

\* Requests that wait for each other in a circle.
Blockers(q) == IF InFlight(q) /\ ~Ready(q) THEN HeldBy(q, Wants(q)) ELSE {}
Deadlock(S) == S # {} /\ \A q \in S : Blockers(q) \cap S # {}

\* The only requests that can wait for each other in a circle are changes of
\* the tariffs of one target: a change locks its own row before the hub, the
\* target and its other rows.  Everything else takes its locks in one order.
OnlyTariffsDeadlock ==
  \A S \in SUBSET Requests : Deadlock(S) =>
    \E q \in S : request[q].op = "CHANGE_TARIFF"
              /\ \E p \in S \ {q} : /\ request[p].op \in {"CREATE_TARIFF", "CHANGE_TARIFF"}
                                     /\ Of(p).target = Of(q).target
=============================================================================
