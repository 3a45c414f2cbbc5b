--------------------------- MODULE MCCommunications ---------------------------
(***************************************************************************)
(* What the backend tells people, part by part: its mails (MailOutbox),    *)
(* support tickets (Support), lists (Paging) and charging traces           *)
(* (ChargingTrace).  Each part keeps rows of its own, so a behaviour is    *)
(* one part's: "part" says which.                                          *)
(***************************************************************************)
EXTENDS MailOutbox

CONSTANTS TicketRequests, ReplyKeys, MaxEvents, RowIds, Keys, Limit, Null, Absent,
          HALEvents, CMSEvents, Writers, PageSize, MaxSequence, Nobody

\* Events are numbered, 0 is none, and nobody is not a writer.
ASSUME TraceAssumption ==
  /\ HALEvents \cup CMSEvents \subseteq Nat \ {0} /\ IsFiniteSet(HALEvents \cup CMSEvents)
  /\ PageSize \in Nat \ {0} /\ MaxSequence \in Nat /\ Nobody \notin Writers

\* Ids and keys are compared as numbers; an absent row is none.
ASSUME ListAssumption ==
  /\ RowIds \subseteq Int /\ IsFiniteSet(RowIds) /\ Keys \subseteq Int
  /\ Limit \in Nat \ {0} /\ Null \notin Keys \cup RowIds
  /\ Absent \notin [key : Keys \cup {Null}, listed : BOOLEAN]

VARIABLES part, channel, ticket, notices, pending, list, rows, reader,
          root, stored, sequence, writer, acknowledged, came, traceReader

Ticket == INSTANCE Support
Lists == INSTANCE Paging
Trace == INSTANCE ChargingTrace WITH reader <- traceReader

ticketVars == <<channel, ticket, notices, pending>>
listVars == <<list, rows, reader>>
evidenceVars == <<root, stored, sequence, writer, acknowledged, came, traceReader>>
allVars == <<vars, ticketVars, listVars, evidenceVars, part>>

\* The other parts' choices of Init are fixed in a behaviour of one part.
CommunicationsInit ==
  /\ part \in {"mails", "ticket", "list", "trace"}
  /\ Init /\ Ticket!SupportInit /\ Lists!PagingInit /\ Trace!TraceInit
  /\ part # "ticket" => channel = "CPO_PLATFORM"
  /\ part # "trace" => came = FALSE
  /\ part # "list" => list = Lists!ListMailJobs /\ \A r \in RowIds : rows[r] = Absent

InMails(A) == part = "mails" /\ A /\ UNCHANGED <<ticketVars, listVars, evidenceVars, part>>

CommunicationsNext ==
  \/ InMails(Next)
  \/ /\ part = "ticket" /\ Ticket!SupportNext
     /\ UNCHANGED <<vars, listVars, evidenceVars, part>>
  \/ /\ part = "list" /\ Lists!PagingNext
     /\ UNCHANGED <<vars, ticketVars, evidenceVars, part>>
  \/ /\ part = "trace" /\ Trace!TraceNext
     /\ UNCHANGED <<vars, ticketVars, listVars, part>>

\* The fairness of MailOutbox; the other parts promise nothing in time.
CommunicationsSpec ==
  /\ CommunicationsInit /\ [][CommunicationsNext]_allVars
  /\ \A w \in Workers : WF_allVars(InMails(Work(w)))
  /\ \A j \in Jobs : WF_allVars(InMails(Ripen(j)))

-----------------------------------------------------------------------------
\* The status, the history and the notices of a ticket tell one story.
TicketTellsItsStory == Ticket!TicketTellsItsStory

\* A list read to its end shows every row that stayed, and shows it once.
ReadOnceAndWhole == Lists!ReadOnceAndWhole

\* A trace that is followed is whole, and its verdict is what happened.
EvidenceIsWhole == Trace!EvidenceIsWhole
=============================================================================
