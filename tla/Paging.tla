------------------------------- MODULE Paging -------------------------------
(***************************************************************************)
(* The lists of the backend's API, read page by page with a keyset cursor  *)
(* while rows appear, change and leave (cpo/, customerauth/, superadmin/,  *)
(* support/, platformops/).                                                *)
(*                                                                         *)
(* A page is one statement: the rows of the list that come after the       *)
(* cursor, in the list's order, one more than the page holds to know       *)
(* whether more follow.  The cursor of the next page is the sort key and   *)
(* the id of the last row.  A reader follows it to the end.  ORDER BY and  *)
(* WHERE are written apart in each list: here too.                         *)
(***************************************************************************)
EXTENDS Integers, FiniteSets, Sequences

CONSTANTS
  RowIds,      \* ids, compared as numbers
  Keys,        \* sort keys, numbers
  Limit,       \* rows on a page
  Null,        \* a sort key that is not set, and a cursor before the first page
  Absent

VARIABLES
  list,        \* the list that is read
  rows,        \* rows[r]: its sort key and whether the list's filter holds
  reader       \* where the reader is, which rows of its first page's time
               \* stayed as they were ("steady") and which of them each page
               \* showed

pagingVars == <<list, rows, reader>>

-----------------------------------------------------------------------------
(* The lists.  "key": is it fixed when the row is made, does it rise or can   *)
(* it become anything; "nulls": can it be null; "filter": does the query or   *)
(* only the page leave rows out, can rows leave the list; "cursor": is it the *)
(* last row as it was read or read again.                                     *)

Newest == [order |-> "DESC", key |-> "fixed", nulls |-> FALSE,
           filter |-> "none", cursor |-> "row"]
Leaving(l) == [l EXCEPT !.filter = "query"]
BothWays(l) == {l, [l EXCEPT !.order = IF @ = "ASC" THEN "DESC" ELSE "ASC"]}
Sorted(key, nulls, cursor) ==
  BothWays([Newest EXCEPT !.key = key, !.nulls = nulls, !.cursor = cursor])

\* Rows that stay once they are there.
ListCustomerWalletTransactions == Newest
ListWalletTransactions == Newest
WalletTransactionsPage == Newest
ListCustomerChargingSessions == Newest
ListAnnouncements == Newest
ListMailJobs == Newest
ListAudit == Newest
ListChargerOperationHistory == Newest
ListCPOs == Newest
ListGSTs == Newest
ListCustomers == Newest
GetChargingTrace == Newest

\* Rows that a deletion, an assignment, a status or a date removes.
ListCustomerHubs == Leaving(Newest)
ListHubs == Leaving(Newest)
GetHub == Leaving(Newest)
ListHubTariffs == Leaving(Newest)
ListChargerTariffs == Leaving(Newest)
ListUserGroupTariffs == Leaving(Newest)
ListUserGroups == Leaving(Newest)
ListCustomerVehicles == Leaving(Newest)
ListVehicles == Leaving(Newest)
VehiclesPage == Leaving(Newest)
ListNotifications == Leaving(Newest)
ListAdministrators == Leaving(Newest)
ListLiveChargingSessions == Leaving([Newest EXCEPT !.order = "ASC"])
LiveChargingSessionsPage == Leaving([Newest EXCEPT !.order = "ASC"])

\* A favourite that is no longer visible is left out of the page, not of the
\* query: a page may be short or empty and more follow.
ListCustomerFavorites == [Newest EXCEPT !.filter = "page"]

\* An update moves the row: activity on a ticket (at a time taken before its
\* lock, so not only forward), another failed login.
ListTickets == [Newest EXCEPT !.key = "any"]
ListCustomerTickets == [Newest EXCEPT !.key = "any"]
ListLockedIdentities ==
  Leaving([Newest EXCEPT !.order = "ASC", !.key = "rises"])

\* The client chooses the key and the direction.  Of a charging session:
\* created_at and start_time; end_time; duration as of the first page, usage.
ListChargingSessions ==
  Sorted("fixed", FALSE, "row") \cup Sorted("rises", TRUE, "row") \cup Sorted("rises", FALSE, "row")
\* Of a rating: created_at; updated_at; station_rating and charger_rating.
ListCustomerRatings ==
  Sorted("fixed", FALSE, "row") \cup Sorted("rises", FALSE, "row") \cup Sorted("any", TRUE, "row")
CustomerRatingsPage == ListCustomerRatings
ListCustomerRatingHistory == ListCustomerRatings
\* Of a charger: created_at; average_rating and rating_count, which are
\* computed again for the cursor.
ListChargersWithQuery ==
  {Leaving(l) : l \in Sorted("fixed", FALSE, "row") \cup Sorted("any", TRUE, "again")
                        \cup Sorted("any", FALSE, "again")}
ListCustomerChargerPage == ListChargersWithQuery

Lists ==
  {ListCustomerWalletTransactions, ListWalletTransactions, WalletTransactionsPage,
   ListCustomerChargingSessions, ListAnnouncements, ListMailJobs, ListAudit,
   ListChargerOperationHistory, ListCPOs, ListGSTs, ListCustomers, GetChargingTrace,
   ListCustomerHubs, ListHubs, GetHub, ListHubTariffs, ListChargerTariffs,
   ListUserGroupTariffs, ListUserGroups, ListCustomerVehicles, ListVehicles, VehiclesPage,
   ListNotifications, ListAdministrators, ListLiveChargingSessions,
   LiveChargingSessionsPage, ListCustomerFavorites, ListTickets, ListCustomerTickets,
   ListLockedIdentities}
  \cup ListChargingSessions \cup ListCustomerRatings \cup CustomerRatingsPage
  \cup ListCustomerRatingHistory \cup ListChargersWithQuery \cup ListCustomerChargerPage

-----------------------------------------------------------------------------
Row(key) == [key |-> key, listed |-> TRUE]
KeysOf(l) == IF l.nulls THEN Keys \cup {Null} ELSE Keys
TheStart == [id |-> Null, key |-> Null]

PagingInit ==
  /\ list \in Lists
  /\ rows \in [RowIds -> {Row(k) : k \in KeysOf(list)} \cup {Absent}]
  /\ reader = [at |-> "start", cursor |-> TheStart, shown |-> <<>>, steady |-> {}]

Exists(r) == rows[r] # Absent
Listed(r) == Exists(r) /\ rows[r].listed
Queried(r) == IF list.filter = "query" THEN Listed(r) ELSE Exists(r)

\* An operator of SQL on keys that are not null, and on ids.
Beyond(a, b) == IF list.order = "ASC" THEN a > b ELSE a < b

\* ORDER BY key NULLS LAST, id.
Precedes(r, s) ==
  LET k == rows[r].key
      l == rows[s].key IN
  IF k = l THEN Beyond(s, r)
  ELSE k # Null /\ (l = Null \/ Beyond(l, k))

\* Mutant: the cursor is the key alone.
ContinuesByKey(c, r) ==
  LET k == rows[r].key IN
  IF c.key = Null THEN FALSE ELSE k = Null \/ Beyond(k, c.key)

\* WHERE: after a null key only null keys with a further id; otherwise the
\* null keys and (key, id) beyond the cursor's.
Continues(c, r) ==
  LET k == rows[r].key IN
  IF c.key = Null THEN k = Null /\ Beyond(r, c.id)
  ELSE k = Null \/ Beyond(k, c.key) \/ (k = c.key /\ Beyond(r, c.id))

FromCursor(r) == Queried(r) /\ (reader.at = "start" \/ Continues(reader.cursor, r))
Found == {r \in RowIds : FromCursor(r)}
Page == {r \in Found : Cardinality({s \in Found : Precedes(s, r)}) < Limit}
LastOfPage == CHOOSE r \in Page : \A s \in Page \ {r} : Precedes(s, r)
HasMore == Page # Found

ReadPage ==
  LET steady == IF reader.at = "start" THEN {r \in RowIds : Listed(r)} ELSE reader.steady IN
  /\ reader.at \in {"start", "next"}
  /\ reader' =
       [reader EXCEPT
          !.at = IF ~HasMore THEN "end" ELSE IF list.cursor = "row" THEN "next" ELSE "again",
          !.cursor = IF HasMore
                     THEN [id |-> LastOfPage, key |-> rows[LastOfPage].key] ELSE TheStart,
          !.shown = Append(@, Page \cap steady),
          !.steady = steady]
  /\ UNCHANGED <<list, rows>>

\* cpoChargerCursorValue: the aggregate of the last charger, computed again.
ReadCursorAgain ==
  LET now == rows[reader.cursor.id].key IN
  /\ reader.at = "again"
  /\ reader' = IF now = reader.cursor.key THEN [reader EXCEPT !.at = "next"]
               ELSE [reader EXCEPT !.at = "next", !.cursor.key = now, !.steady = {}, !.shown = <<>>]
  /\ UNCHANGED <<list, rows>>

-----------------------------------------------------------------------------
(* What happens to the rows meanwhile. *)

Disturbs(r) ==
  reader' = [reader EXCEPT !.steady = @ \ {r},
                           !.shown = [p \in DOMAIN @ |-> @[p] \ {r}]]

Insert(r) ==
  /\ ~Exists(r)
  /\ \E k \in KeysOf(list) : rows' = [rows EXCEPT ![r] = Row(k)]
  /\ UNCHANGED <<list, reader>>

LaterKeys(key) ==
  IF list.key = "any" THEN KeysOf(list) \ {key}
  ELSE {k \in Keys : key = Null \/ k > key}

Change(r) ==
  /\ Exists(r) /\ list.key # "fixed"
  /\ \E k \in LaterKeys(rows[r].key) : rows' = [rows EXCEPT ![r].key = k]
  /\ Disturbs(r)
  /\ UNCHANGED list

LeaveOrReturn(r) ==
  /\ Exists(r) /\ list.filter # "none"
  /\ rows' = [rows EXCEPT ![r].listed = ~@]
  /\ Disturbs(r)
  /\ UNCHANGED list

PagingNext ==
  \/ ReadPage \/ ReadCursorAgain
  \/ \E r \in RowIds : Insert(r) \/ Change(r) \/ LeaveOrReturn(r)

PagingSpec == PagingInit /\ [][PagingNext]_pagingVars

-----------------------------------------------------------------------------
TypeOK ==
  /\ list \in Lists
  /\ rows \in [RowIds -> {Absent} \cup [key : KeysOf(list), listed : BOOLEAN]]
  /\ reader.at \in {"start", "next", "again", "end"}
  /\ reader.cursor \in [id : RowIds \cup {Null}, key : KeysOf(list) \cup {Null}]
  /\ \A p \in DOMAIN reader.shown : reader.shown[p] \subseteq reader.steady

\* Whoever follows the cursors from the first page to the one without more is
\* shown every row that was in the list all the time and that nobody changed:
\* once, and in the list's order, whatever happens to the other rows, ties
\* and rows without a key among them.  Only the lists that compute the cursor
\* again lose this, when a rating changes the last row of a page just then.
ReadOnceAndWhole ==
  /\ TypeOK
  /\ reader.at = "end" =>
       \A r \in reader.steady : \E p \in DOMAIN reader.shown : r \in reader.shown[p]
  /\ \A p, q \in DOMAIN reader.shown : p < q =>
       \A r \in reader.shown[p], s \in reader.shown[q] : Precedes(r, s)
=============================================================================
