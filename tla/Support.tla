------------------------------ MODULE Support ------------------------------
(***************************************************************************)
(* A support ticket between its raiser and a desk (support/): of an        *)
(* operator to the platform (CPO_PLATFORM, service.go) or of a customer to *)
(* the operator (CUSTOMER_CPO, customer.go).                               *)
(*                                                                         *)
(* A request locks the ticket's row, decides on what it reads there, and   *)
(* commits the ticket, its events, its messages and the notices together.  *)
(***************************************************************************)
EXTENDS Integers, Sequences, FiniteSets

CONSTANTS
  TicketRequests,  \* requests in flight at the same time
  ReplyKeys,       \* idempotency keys of replies, per ticket
  MaxEvents        \* events of a ticket from which on nobody asks for more

VARIABLES
  channel,         \* the kind of ticket: one or the other in a behaviour
  ticket,          \* status, whether closed_at is set, its events in commit order
  notices,         \* the mails and platform events about it, in commit order
  pending          \* pending[q]: what it asks for, and the ticket it read

supportVars == <<channel, ticket, notices, pending>>

Idle == [op |-> "none"]
NoTicket == [status |-> "none", closed |-> FALSE, events |-> <<>>]

SupportInit ==
  /\ channel \in {"CPO_PLATFORM", "CUSTOMER_CPO"}
  /\ ticket = NoTicket
  /\ notices = <<>>
  /\ pending = [q \in TicketRequests |-> Idle]

Statuses == {"OPEN", "IN_PROGRESS", "RESOLVED", "CLOSED"}
ValidTransition(from, to) ==
  <<from, to>> \in {<<"OPEN", "IN_PROGRESS">>, <<"OPEN", "RESOLVED">>, <<"OPEN", "CLOSED">>,
                    <<"IN_PROGRESS", "RESOLVED">>, <<"IN_PROGRESS", "CLOSED">>,
                    <<"RESOLVED", "CLOSED">>, <<"RESOLVED", "OPEN">>, <<"CLOSED", "OPEN">>}

\* recordEvent.
Created == [type |-> "CREATED", by |-> "raiser"]
Message(by, key) == [type |-> "MESSAGE_ADDED", by |-> by, key |-> key]
StatusChange(by, from, to) ==
  [type |-> "STATUS_CHANGED", by |-> by, from |-> from, to |-> to]

\* Whom a commit tells about its events: notifyCPO, emitPlatformTicketActivity.
\* The desk's IN_PROGRESS is not told to the operator.
PlatformNotices(e) ==
  IF e.type = "CREATED" THEN <<"raiser", "desk">>
  ELSE IF e.by = "raiser" THEN <<"desk">>
  ELSE IF e.type = "STATUS_CHANGED" /\ e.to = "IN_PROGRESS" THEN <<>> ELSE <<"raiser">>

\* notifyCustomerCPO: a reply that reopens the ticket is told as a reply.
CustomerNotices(e) ==
  IF e.by = "desk" THEN <<"raiser">>
  ELSE IF e.type = "STATUS_CHANGED" THEN <<>> ELSE <<"desk">>

NoticesOf(e) ==
  LET readers == IF channel = "CPO_PLATFORM" THEN PlatformNotices(e) ELSE CustomerNotices(e) IN
  [i \in DOMAIN readers |-> [to |-> readers[i], about |-> e]]

\* The notices of the events a commit adds (at most two), in their order.
Tell(events) ==
  notices' = IF Len(events) = 1 THEN notices \o NoticesOf(events[1])
             ELSE notices \o NoticesOf(events[1]) \o NoticesOf(events[2])

-----------------------------------------------------------------------------
Asked ==
  [op : {"REPLY"}, by : {"raiser", "desk"}, key : ReplyKeys]
  \cup [op : {"SET_STATUS"}, by : {"desk"}, to : Statuses]

\* Create and CreateCustomer: the ticket, its first message and its event.
CreateTicket ==
  /\ ticket = NoTicket
  /\ ticket' = [status |-> "OPEN", closed |-> FALSE, events |-> <<Created>>]
  /\ Tell(<<Created>>)
  /\ UNCHANGED <<channel, pending>>

AskFor(q, r) ==
  /\ pending[q] = Idle /\ ticket # NoTicket /\ Len(ticket.events) < MaxEvents
  /\ pending' = [pending EXCEPT ![q] = [op |-> r.op, asked |-> r, read |-> NoTicket]]
  /\ UNCHANGED <<channel, ticket, notices>>

Reading(q) == pending[q] # Idle /\ pending[q].read = NoTicket
HasRead(q) == pending[q] # Idle /\ pending[q].read # NoTicket

\* Mutant: the ticket is read without FOR UPDATE.
ReadTicket(q) ==
  /\ Reading(q)
  /\ pending' = [pending EXCEPT ![q].read = ticket]
  /\ UNCHANGED <<channel, ticket, notices>>

LockTicket(q) ==
  /\ Reading(q)
  /\ \A other \in TicketRequests \ {q} : ~HasRead(other)
  /\ pending' = [pending EXCEPT ![q].read = ticket]
  /\ UNCHANGED <<channel, ticket, notices>>

\* A refusal, a replay of a key that was used, the status it has already, or
\* a client that goes away: nothing is written.
LeaveAsIs(q) ==
  /\ pending[q] # Idle
  /\ pending' = [pending EXCEPT ![q] = Idle]
  /\ UNCHANGED <<channel, ticket, notices>>

UsedIn(events, key) ==
  \E i \in DOMAIN events : events[i].type = "MESSAGE_ADDED" /\ events[i].key = key

Commit(q, status, closed, events) ==
  /\ ticket' = [status |-> status, closed |-> closed, events |-> ticket.events \o events]
  /\ Tell(events)
  /\ pending' = [pending EXCEPT ![q] = Idle]
  /\ UNCHANGED channel

\* Reply and customerReply: the raiser's reply opens a ticket that was ended.
Reply(q) ==
  LET r == pending[q].asked
      was == pending[q].read.status
      next == IF r.by = "raiser" /\ was \in {"RESOLVED", "CLOSED"} THEN "OPEN" ELSE was
      message == Message(r.by, r.key) IN
  /\ HasRead(q) /\ pending[q].op = "REPLY"
  /\ ~UsedIn(ticket.events, r.key)
  /\ Commit(q, next, next = "CLOSED",
            IF next = was THEN <<message>>
            ELSE <<message, StatusChange(r.by, was, next)>>)

\* SetStatus and SetCPOCustomerStatus.
SetStatus(q) ==
  LET to == pending[q].asked.to
      was == pending[q].read.status IN
  /\ HasRead(q) /\ pending[q].op = "SET_STATUS"
  /\ ValidTransition(was, to)
  /\ Commit(q, to, to = "CLOSED", <<StatusChange("desk", was, to)>>)

SupportNext ==
  \/ CreateTicket
  \/ \E q \in TicketRequests :
        \/ \E r \in Asked : AskFor(q, r)
        \/ LockTicket(q) \/ Reply(q) \/ SetStatus(q) \/ LeaveAsIs(q)

SupportSpec == SupportInit /\ [][SupportNext]_supportVars

-----------------------------------------------------------------------------
TypeOK ==
  /\ ticket.status \in Statuses \cup {"none"}
  /\ ticket.closed \in BOOLEAN
  /\ \A i \in DOMAIN notices : notices[i].to \in {"raiser", "desk"}
  /\ \A q \in TicketRequests : pending[q] = Idle \/ pending[q].asked \in Asked

\* The changes before the i-th event lead to a status.
IsChange(i) == ticket.events[i].type = "STATUS_CHANGED"
LeadTo(i, status) ==
  \/ status = "OPEN" /\ \A j \in 1 .. i - 1 : ~IsChange(j)
  \/ \E j \in 1 .. i - 1 : /\ IsChange(j) /\ ticket.events[j].to = status
                          /\ \A k \in j + 1 .. i - 1 : ~IsChange(k)

\* The events of a ticket, replies and decisions of both sides mixed, tell one
\* story: each change starts where the ones before lead to, follows the graph
\* (or is the raiser's reopening) and all of them lead to the status.
OneStory ==
  /\ \A i \in DOMAIN ticket.events :
       IsChange(i) => /\ LeadTo(i, ticket.events[i].from)
                      /\ ValidTransition(ticket.events[i].from, ticket.events[i].to)
  /\ ticket # NoTicket => /\ LeadTo(Len(ticket.events) + 1, ticket.status)
                          /\ (ticket.closed <=> ticket.status = "CLOSED")

\* A reply sent again under its key is one message.
OneMessagePerKey ==
  \A i, j \in DOMAIN ticket.events :
    ticket.events[i].type = "MESSAGE_ADDED" /\ ticket.events[j].type = "MESSAGE_ADDED"
      /\ ticket.events[i].key = ticket.events[j].key => i = j

\* The other side is told of every message and every decision, once and in the
\* order of the ticket's own story.
CallsFor(e, side) ==
  /\ e.by # side
  /\ e.type # "STATUS_CHANGED" \/ channel = "CPO_PLATFORM" \/ side = "raiser"
  /\ ~(channel = "CPO_PLATFORM" /\ e.type = "STATUS_CHANGED" /\ e.to = "IN_PROGRESS")
ToBeTold(side) == {i \in DOMAIN ticket.events : CallsFor(ticket.events[i], side)}
Told(side) == {n \in DOMAIN notices : notices[n].to = side /\ notices[n].about.by # side}
Earlier(S, i) == Cardinality({j \in S : j < i})
OtherSideIsTold ==
  \A side \in {"raiser", "desk"} :
    /\ Cardinality(Told(side)) = Cardinality(ToBeTold(side))
    /\ \A n \in Told(side), i \in ToBeTold(side) :
         Earlier(Told(side), n) = Earlier(ToBeTold(side), i) =>
           notices[n].about = ticket.events[i]

\* What a ticket, its history and its notices say of it is the same.
TicketTellsItsStory == TypeOK /\ OneStory /\ OneMessagePerKey /\ OtherSideIsTold
=============================================================================
