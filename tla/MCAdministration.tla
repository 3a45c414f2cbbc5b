--------------------------- MODULE MCAdministration ---------------------------
(***************************************************************************)
(* An operator's tenancy (Tenancy) beside its hubs, tariffs and tax        *)
(* profiles (HubConfiguration).  They share no row but the operator's,     *)
(* whose status no change of a hub looks at, so a behaviour is one part's. *)
(* Prices and taxes meet in the hub's row only: in the behaviours of one   *)
(* part the hub has no tax profile, in those of the other the only tariffs *)
(* are root tariffs.  Of tenancies, either everything happens to the first *)
(* operator, or people are invited by two.  What a session is sold for     *)
(* under one tariff and one tax is a part of its own (Pricing).            *)
(***************************************************************************)
EXTENDS HubConfiguration, FiniteSetsExt, TLC

CONSTANTS Operators, First, People, Founder, Overrides, Absent,
          PerUnit, PriceScale, Precision, Prices, TaxRates, Balances, Buffers, Minimum,
          LimitValues, Readings

\* Absent is no row, and the first operator's administrator exists.
ASSUME TenancyAssumption ==
  /\ Absent \notin [status : {"PENDING", "ACTIVE", "SUSPENDED"},
                    told : {"PENDING", "ACTIVE", "SUSPENDED"}, repeated : BOOLEAN]
  /\ Absent \notin [role : {"ADMIN", "VIEWER"}, status : {"ACTIVE", "SUSPENDED", "REVOKED"},
                    primary : BOOLEAN, override : Overrides \cup {"none"}]
  /\ First \in Operators /\ Founder \in People

\* Amounts, prices and measures are not negative, and each has a greatest.
ASSUME PricingAssumption ==
  /\ {PerUnit, PriceScale, Precision} \subseteq Nat \ {0}
  /\ Minimum \in Nat /\ LimitValues \subseteq Nat /\ Readings \subseteq Nat
  /\ \A S \in {Prices, TaxRates, Balances, Buffers} :
        S \subseteq Nat /\ \E greatest \in S : \A n \in S : n <= greatest

VARIABLES part, operator, identity, membership, task, terms, limits, bill

Tenant == INSTANCE Tenancy WITH TenantRequests <- Requests
Sale == INSTANCE Pricing

tenantVars == <<operator, identity, membership, task>>
saleVars == <<terms, limits, bill>>

\* A root, an open-ended fallback, and an override with one inside it.
MCSchedules == {<<NoDate, NoDate>>, <<1, NoDate>>, <<1, 3>>, <<2, 4>>}
MCInstants == 0..4

\* The terms where no sale is looked at.
OtherTerms ==
  [tariff |-> [kind |-> "ENERGY", price |-> Max(Prices), tax |-> Max(TaxRates)],
   available |-> Max(Balances), buffer |-> Max(Buffers)]

AdministrationInit ==
  /\ part \in {"prices", "taxes", "one operator", "invitations", "sale"}
  /\ Init /\ Tenant!TenancyInit /\ Sale!PricingInit
  /\ part # "sale" => terms = OtherTerms

InPart(t) ==
  t # Tenant!Nothing =>
    IF part = "one operator" \/ t.op = "ACTIVE" THEN t.asked.operator = First
    ELSE t.op \in {"CREATE", "SET_PRIMARY", "CREATE_STAFF"}

AdministrationNext ==
  /\ part' = part
  /\ \/ /\ part \in {"prices", "taxes"} /\ Next
        /\ part = "prices" => /\ gst' = gst
                              /\ \A h \in Hubs : hub'[h] # None => hub'[h].gst = None
        /\ part = "taxes" => \A t \in Tariffs : tariff'[t] # None => IsRoot(tariff'[t])
        /\ UNCHANGED <<tenantVars, saleVars>>
     \/ /\ part \in {"one operator", "invitations"} /\ Tenant!TenancyNext
        /\ \A h \in Requests : InPart(task'[h])
        /\ UNCHANGED <<vars, saleVars>>
     \/ /\ part = "sale" /\ Sale!PricingNext
        /\ UNCHANGED <<vars, tenantVars>>

AdministrationSpec == AdministrationInit /\ [][AdministrationNext]_<<vars, tenantVars, saleVars, part>>

\* The people but the founder, requests, tariffs and states are interchangeable.
Symmetry ==
  Permutations(Tariffs) \cup Permutations(Requests) \cup Permutations(States)
    \cup Permutations(People \ {Founder})

-----------------------------------------------------------------------------
\* Every operator keeps one primary administrator, people are invited once,
\* and the platform's stream says what became of an operator.
TenantStands ==
  Tenant!TypeOK /\ Tenant!PrimaryAdminStands /\ Tenant!InvitedOnce /\ Tenant!StatusIsTold

\* What is held for a session pays for it up to its limits.
HoldCoversTheLimit == Sale!HoldCoversTheLimit
=============================================================================
