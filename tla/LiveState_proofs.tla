--------------------------- MODULE LiveState_proofs ---------------------------
(***************************************************************************)
(* Theorems about LiveState, for any number of workers, any contents and   *)
(* any lengths of the streams: a fact takes effect once and in turn, and a *)
(* stream that shows an old state has an event ahead of its cursor.        *)
(*                                                                         *)
(* Neither is inductive.  The first needs that a handler which read the    *)
(* session FOR UPDATE still knows it when it commits; the second that a    *)
(* handler which will change a row has its one event in the log, and that  *)
(* trimming the log and undoing a handler move cursor and events alike.    *)
(***************************************************************************)
EXTENDS LiveState, FiniteSetTheorems, WellFoundedInduction, SequenceTheorems, TLAPS

Writers == Workers \cup {"committed"}
Entries == [fact : Facts \cup {NoFact}, by : Writers]

-----------------------------------------------------------------------------
(* The log as a sequence. *)

LEMMA LeastNatural ==
  ASSUME NEW B \in SUBSET Nat, B # {}
  PROVE  \E m \in B : \A k \in B : m <= k
  <1>1. PICK m \in B : \A k \in B : ~ (<<k, m>> \in OpToRel(<, Nat))
    BY NatLessThanWellFounded, WFMin
  <1>2. \A k \in B : ~ (k < m)
    BY <1>1 DEF OpToRel
  <1> QED
    BY <1>2

\* An event at the head of a log that nobody will read
Read(log, next, i) ==
  log[i].by = "committed" /\ (next.step = "off" \/ i <= next.cursor)

\* A log cut at n, with the cursor moved along
CutAt(log, next, n) ==
  /\ \A i \in 1 .. n : Read(log, next, i)
  /\ events' \in Seq(Entries) /\ Len(events') = Len(log) - n
  /\ \A i \in 1 .. Len(log) - n : events'[i] = log[i + n]
  /\ live' = [next EXCEPT !.cursor = IF next.cursor > n THEN next.cursor - n ELSE 0]

LEMMA Cut ==
  ASSUME NEW log \in Seq(Entries), NEW next, next.cursor \in 0 .. Len(log),
         UpdateLog(log, next)
  PROVE  \E n \in 0 .. Len(log) : CutAt(log, next, n)
  <1> DEFINE N == Len(log)
             Stop(n) == n < N => ~(log[n + 1].by = "committed" /\
                                   (next.step = "off" \/ n < next.cursor))
             Whole(n) == \A i \in 1 .. n : log[i].by = "committed" /\
                                   (next.step = "off" \/ i <= next.cursor)
             read == CHOOSE n \in 0 .. N : Whole(n) /\ Stop(n)
  <1>0. N \in Nat
    BY LenProperties
  <1>1. \E n \in 0 .. N : Whole(n) /\ Stop(n)
    <2> DEFINE B == {n \in 0 .. N : Stop(n)}
    <2>1. N \in B /\ B \in SUBSET Nat
      BY <1>0
    <2>2. PICK m \in B : \A k \in B : m <= k
      <3> HIDE DEF B
      <3> QED
        BY <2>1, LeastNatural
    <2>3. ASSUME NEW i \in 1 .. m
          PROVE  log[i].by = "committed" /\ (next.step = "off" \/ i <= next.cursor)
      <3>1. i - 1 \in 0 .. N /\ i - 1 \notin B
        BY <1>0, <2>2
      <3>2. ~Stop(i - 1)
        BY <3>1
      <3>3. (i - 1) + 1 = i /\ (i - 1 < next.cursor => i <= next.cursor)
        BY <1>0
      <3> QED
        BY <3>2, <3>3
    <2> QED
      BY <2>2, <2>3
  <1>2. read \in 0 .. N /\ Whole(read) /\ Stop(read)
    <2> HIDE DEF Whole, Stop
    <2> QED
      BY <1>1, Zenon
  <1>3. /\ events' = SubSeq(log, read + 1, N)
        /\ live' = [next EXCEPT !.cursor = IF next.cursor > read
                                           THEN next.cursor - read ELSE 0]
    BY Zenon DEF UpdateLog
  <1> HIDE DEF read
  <1>4. /\ SubSeq(log, read + 1, N) \in Seq(Entries)
        /\ Len(SubSeq(log, read + 1, N)) = N - read
        /\ \A i \in 1 .. N - read : SubSeq(log, read + 1, N)[i] = log[i + read]
    <2>1. \A i \in 1 .. N : log[i] \in Entries
      BY LenProperties
    <2> QED
      BY <1>0, <1>2, <2>1, SubSeqProperties
  <1> QED
    BY <1>2, <1>3, <1>4 DEF CutAt, Read

-----------------------------------------------------------------------------
(* The handlers and the rows. *)

Work == [step : {"idle", "checked", "read", "written"},
         fact : Facts \cup {NoFact}, value : AllValues \cup {None},
         seen : Nat, ended : BOOLEAN]

RowTypes ==
  /\ row \in [Streams -> [seq : Nat, value : AllValues \cup {None}]]
  /\ aged \in [Streams -> Nat]
  /\ \A s \in Streams : /\ row[s].seq <= Len(Contents[s]) /\ aged[s] <= Len(Contents[s])
                        /\ row[s].value \in Values[s] \cup {None}
  /\ DOMAIN receipt \subseteq Facts
  /\ \A f \in DOMAIN receipt : receipt[f] \in Values[f.stream]
  /\ ended \in BOOLEAN /\ outage \in BOOLEAN

WorkTypes ==
  /\ work \in [Workers -> Work]
  /\ \A w \in Workers : work[w].step # "idle" =>
       work[w].fact \in Facts /\ work[w].value \in Values[work[w].fact.stream]

\* What a handler read FOR UPDATE is what the row still says.
KnowsTheSession(w) ==
  HoldsLock(w) /\ ReadsLocked(work[w].fact.stream) =>
    work[w].seen = row[work[w].fact.stream].seq /\ work[w].ended = ended

Alone ==
  \A v, w \in Workers :
    HoldsLock(v) /\ HoldsLock(w) /\ RowOf(work[v].fact.stream) = RowOf(work[w].fact.stream)
      => v = w

WInv == RowTypes /\ WorkTypes /\ Alone /\ \A w \in Workers : KnowsTheSession(w)

LEMMA FactShape ==
  ASSUME NEW f \in Facts
  PROVE  /\ f.stream \in Streams /\ f.seq \in Nat \ {0} /\ f.seq <= Len(Contents[f.stream])
         /\ f = [stream |-> f.stream, seq |-> f.seq] /\ f # NoFact
  <1>1. PICK s \in Streams : f \in [stream : {s}, seq : DOMAIN Contents[s]]
    BY DEF Facts
  <1>2. Len(Contents[s]) \in Nat /\ DOMAIN Contents[s] = 1 .. Len(Contents[s])
    BY BoundsAssumption, LenProperties
  <1> QED
    BY <1>1, <1>2 DEF NoFact, Streams

LEMMA EnvelopeValue ==
  ASSUME NEW f \in Facts, NEW v \in Contents[f.stream][f.seq]
  PROVE  v \in Values[f.stream] /\ v \in AllValues
  <1>1. f.stream \in Streams /\ f.seq \in 1 .. Len(Contents[f.stream])
    BY FactShape
  <1>2. Contents[f.stream] \in Seq(SUBSET Values[f.stream])
    BY <1>1, BoundsAssumption
  <1>3. Contents[f.stream][f.seq] \in SUBSET Values[f.stream]
    BY <1>1, <1>2
  <1> QED
    BY <1>1, <1>3 DEF AllValues

LEMMA IdleIsWork == IdleWork \in Work
  BY DEF IdleWork, Work

LEMMA Delivered ==
  ASSUME NEW f \in Facts, NEW v \in AllValues
  PROVE  LET q == [IdleWork EXCEPT !.step = "checked", !.fact = f, !.value = v]
         IN  q \in Work /\ q.step = "checked" /\ q.fact = f /\ q.value = v
  BY DEF IdleWork, Work

LEMMA HasWritten ==
  ASSUME NEW q \in Work
  PROVE  LET r == [q EXCEPT !.step = "written"]
         IN  /\ r \in Work /\ r.step = "written" /\ r.fact = q.fact /\ r.value = q.value
             /\ r.seen = q.seen /\ r.ended = q.ended
  BY DEF Work

\* One handler moves, the rows stay.
Moves(w, q) ==
  work' = [work EXCEPT ![w] = q] /\ UNCHANGED <<row, receipt, ended>>

\* What a handler that does not move still knows
LEMMA OthersKeep ==
  ASSUME WInv, NEW w \in Workers, NEW q \in Work, Moves(w, q)
  PROVE  /\ work' \in [Workers -> Work] /\ work'[w] = q
         /\ \A o \in Workers \ {w} :
              /\ work'[o] = work[o]
              /\ HoldsLock(o)' <=> HoldsLock(o)
              /\ KnowsTheSession(o)'
  <1>1. /\ work' \in [Workers -> Work] /\ work'[w] = q
        /\ \A o \in Workers \ {w} : work'[o] = work[o]
    BY DEF Moves, WInv, WorkTypes
  <1>2. UNCHANGED <<row, ended>>
    BY DEF Moves
  <1> QED
    BY <1>1, <1>2 DEF WInv, KnowsTheSession, HoldsLock, Advances

\* A handler that gets no lock, or has none left, moves.
LEMMA MovesUnlocked ==
  ASSUME WInv, NEW w \in Workers, NEW q \in Work, Moves(w, q), UNCHANGED <<aged, outage>>,
         q.step # "idle" => q.fact \in Facts /\ q.value \in Values[q.fact.stream],
         q.step \in {"idle", "checked"}
  PROVE  WInv'
  <1>1. RowTypes'
    BY DEF WInv, RowTypes, Moves
  <1>2. WorkTypes'
    BY OthersKeep DEF WInv, WorkTypes
  <1>3. ~HoldsLock(w)'
    BY OthersKeep DEF HoldsLock
  <1>4. Alone'
    <2> SUFFICES ASSUME NEW u \in Workers, NEW v \in Workers, HoldsLock(u)', HoldsLock(v)',
                        RowOf(work'[u].fact.stream) = RowOf(work'[v].fact.stream)
                 PROVE  u = v
      BY DEF Alone
    <2>1. u # w /\ v # w
      BY <1>3
    <2> QED
      BY <2>1, OthersKeep DEF WInv, Alone
  <1>5. \A o \in Workers : KnowsTheSession(o)'
    BY <1>3, OthersKeep DEF KnowsTheSession
  <1> QED
    BY <1>1, <1>2, <1>4, <1>5 DEF WInv

\* A handler moves on with its fact, and has or gets the lock alone.
LEMMA MovesLocked ==
  ASSUME WInv, NEW w \in Workers, NEW q \in Work, Moves(w, q), UNCHANGED <<aged, outage>>,
         work[w].step # "idle", q.fact = work[w].fact, q.value = work[w].value,
         HoldsLock(w)' => LockFree(w), KnowsTheSession(w)'
  PROVE  WInv'
  <1>1. RowTypes'
    BY DEF WInv, RowTypes, Moves
  <1>2. WorkTypes'
    BY OthersKeep DEF WInv, WorkTypes
  <1>3. work'[w].fact = work[w].fact
    BY OthersKeep
  <1>4. Alone'
    <2>1. ASSUME NEW v \in Workers \ {w}, HoldsLock(w)', HoldsLock(v)',
                 RowOf(work'[w].fact.stream) = RowOf(work'[v].fact.stream)
          PROVE  FALSE
      BY <1>3, <2>1, OthersKeep DEF LockFree
    <2>2. ASSUME NEW u \in Workers \ {w}, NEW v \in Workers \ {w},
                 HoldsLock(u)', HoldsLock(v)',
                 RowOf(work'[u].fact.stream) = RowOf(work'[v].fact.stream)
          PROVE  u = v
      BY <2>2, OthersKeep DEF WInv, Alone
    <2> QED
      BY <2>1, <2>2 DEF Alone
  <1>5. \A o \in Workers : KnowsTheSession(o)'
    BY OthersKeep
  <1> QED
    BY <1>1, <1>2, <1>4, <1>5 DEF WInv

\* Whoever has the lock is alone with the row.
LEMMA LockHeld ==
  ASSUME WInv, NEW w \in Workers, HoldsLock(w)
  PROVE  LockFree(w)
  BY DEF WInv, Alone, LockFree

LEMMA DeliverKeeps ==
  ASSUME WInv, NEW w \in Workers, NEW f \in Facts, NEW v \in Contents[f.stream][f.seq],
         Deliver(w, f, v)
  PROVE  WInv'
  <1> DEFINE q == [IdleWork EXCEPT !.step = "checked", !.fact = f, !.value = v]
  <1>1. v \in Values[f.stream] /\ v \in AllValues
    BY EnvelopeValue
  <1>2. q \in Work /\ q.step = "checked" /\ q.fact = f /\ q.value = v
    BY <1>1, Delivered
  <1>3. Moves(w, q) /\ UNCHANGED <<aged, outage>>
    BY DEF Deliver, Moves
  <1> HIDE DEF q
  <1> QED
    BY <1>1, <1>2, <1>3, MovesUnlocked

LEMMA ReadRowKeeps ==
  ASSUME WInv, NEW w \in Workers, ReadRow(w)
  PROVE  WInv'
  <1> DEFINE s == work[w].fact.stream
             q == [work[w] EXCEPT !.step = "read", !.seen = row[s].seq, !.ended = ended]
  <1>1. work[w] \in Work /\ work[w].fact \in Facts /\ work[w].step = "checked"
    BY DEF ReadRow, WInv, WorkTypes
  <1>2. s \in Streams
    BY <1>1, FactShape
  <1>3. row[s].seq \in Nat /\ ended \in BOOLEAN
    BY <1>2 DEF WInv, RowTypes
  <1>4. /\ q \in Work /\ q.step = "read" /\ q.fact = work[w].fact /\ q.value = work[w].value
        /\ q.seen = row[s].seq /\ q.ended = ended
    <2>1. PICK b \in BOOLEAN : b = ended
      BY <1>3, Zenon
    <2>2. q = [work[w] EXCEPT !.step = "read", !.seen = row[s].seq, !.ended = b]
      BY <2>1, Zenon
    <2> HIDE DEF q
    <2>3. /\ q.step = "read" /\ q.fact = work[w].fact
          /\ q.value = work[w].value /\ q.seen = row[s].seq
      BY <1>1, <2>2 DEF Work
    <2>4. q.ended = b
      BY <1>1, <2>2, Zenon DEF Work
    <2>5. q \in Work
      BY <1>1, <1>3, <2>2 DEF Work
    <2> QED
      BY <2>1, <2>3, <2>4, <2>5, Zenon
  <1>5. Moves(w, q) /\ UNCHANGED <<aged, outage>>
    BY DEF ReadRow, Moves, WInv, WorkTypes
  <1> HIDE DEF q
  <1>6. work'[w] = q
    BY <1>4, <1>5, OthersKeep
  <1>7. HoldsLock(w)' => LockFree(w)
    BY <1>4, <1>6 DEF HoldsLock, ReadRow
  <1>8. KnowsTheSession(w)'
    BY <1>4, <1>5, <1>6 DEF KnowsTheSession, Moves
  <1> QED
    BY <1>1, <1>4, <1>5, <1>7, <1>8, MovesLocked

LEMMA WriteRowKeeps ==
  ASSUME WInv, NEW w \in Workers, WriteRow(w)
  PROVE  WInv'
  <1> DEFINE q == [work[w] EXCEPT !.step = "written"]
  <1>1. work[w] \in Work /\ work[w].fact \in Facts /\ work[w].step = "read"
    BY DEF WriteRow, WInv, WorkTypes
  <1>2. /\ q \in Work /\ q.step = "written" /\ q.fact = work[w].fact
        /\ q.value = work[w].value /\ q.seen = work[w].seen /\ q.ended = work[w].ended
    BY <1>1, HasWritten
  <1>3. Moves(w, q) /\ UNCHANGED <<aged, outage>>
    BY DEF WriteRow, Moves, WInv, WorkTypes
  <1> HIDE DEF q
  <1>4. work'[w] = q
    BY <1>2, <1>3, OthersKeep
  <1>5. HoldsLock(w)' => LockFree(w)
    <2>1. CASE ReadsLocked(work[w].fact.stream)
      <3>1. HoldsLock(w)
        BY <1>1, <2>1 DEF HoldsLock
      <3> QED
        BY <3>1, LockHeld
    <2>2. CASE ~ReadsLocked(work[w].fact.stream)
      <3>1. HoldsLock(w)' => Advances(w)
        BY <1>2, <1>4, <2>2 DEF HoldsLock, Advances
      <3> QED
        BY <3>1 DEF WriteRow
    <2> QED
      BY <2>1, <2>2
  <1>6. KnowsTheSession(w)'
    <2> SUFFICES ASSUME ReadsLocked(work[w].fact.stream)
                 PROVE  KnowsTheSession(w)'
      BY <1>2, <1>4 DEF KnowsTheSession
    <2>1. HoldsLock(w)
      BY <1>1 DEF HoldsLock
    <2>2. work[w].seen = row[work[w].fact.stream].seq /\ work[w].ended = ended
      BY <2>1 DEF WInv, KnowsTheSession
    <2> QED
      BY <1>2, <1>3, <1>4, <2>2 DEF KnowsTheSession, Moves
  <1> QED
    BY <1>1, <1>2, <1>3, <1>5, <1>6, MovesLocked

LEMMA RollbackKeeps ==
  ASSUME WInv, NEW w \in Workers, Rollback(w)
  PROVE  WInv'
  <1>1. Moves(w, IdleWork) /\ UNCHANGED <<aged, outage>>
    BY DEF Rollback, Moves
  <1>2. IdleWork.step = "idle"
    BY DEF IdleWork
  <1> QED
    BY <1>1, <1>2, IdleIsWork, MovesUnlocked

\* A handler in its transaction changes a row only while nobody else has it.
LEMMA OnlyMyRow ==
  ASSUME WInv, NEW w \in Workers, Commit(w),
         NEW o \in Workers \ {w}, HoldsLock(o), ReadsLocked(work[o].fact.stream)
  PROVE  row'[work[o].fact.stream] = row[work[o].fact.stream]
  <1> DEFINE f == work[w].fact
             s == work[o].fact.stream
  <1>1. CASE ~Advances(w)
    BY <1>1 DEF Commit
  <1>2. CASE Advances(w)
    <2>1. HoldsLock(w)
      BY <1>2 DEF HoldsLock, Commit
    <2>2. RowOf(f.stream) # RowOf(s)
      BY <2>1 DEF WInv, Alone
    <2>3. f.stream # s
      BY <2>2
    <2>4. row' = [row EXCEPT ![f.stream] = [seq |-> f.seq, value |-> work[w].value]]
      BY <1>2 DEF Commit
    <2>5. s \in Streams
      BY FactShape DEF HoldsLock, WInv, WorkTypes
    <2> QED
      BY <2>3, <2>4, <2>5 DEF WInv, RowTypes
  <1> QED
    BY <1>1, <1>2

LEMMA CommitKeeps ==
  ASSUME WInv, NEW w \in Workers, Commit(w)
  PROVE  WInv'
  <1> DEFINE f == work[w].fact
             v == work[w].value
  <1>1. /\ f \in Facts /\ v \in Values[f.stream] /\ f.stream \in Streams
        /\ f.seq \in Nat /\ f.seq <= Len(Contents[f.stream])
    BY FactShape DEF Commit, WInv, WorkTypes
  <1>2. v \in AllValues
    BY <1>1 DEF AllValues
  <1>3. UNCHANGED <<ended, aged, outage>> /\ work' = [work EXCEPT ![w] = IdleWork]
    BY DEF Commit
  <1>4. RowTypes'
    <2>1. /\ row' \in [Streams -> [seq : Nat, value : AllValues \cup {None}]]
          /\ \A s \in Streams : /\ row'[s].seq <= Len(Contents[s])
                                /\ row'[s].value \in Values[s] \cup {None}
      <3>1. CASE ~Advances(w)
        BY <3>1 DEF Commit, WInv, RowTypes
      <3>2. CASE Advances(w)
        <4>1. row' = [row EXCEPT ![f.stream] = [seq |-> f.seq, value |-> v]]
          BY <3>2 DEF Commit
        <4> QED
          BY <1>1, <1>2, <4>1 DEF WInv, RowTypes
      <3> QED
        BY <3>1, <3>2
    <2>2. /\ DOMAIN receipt' = DOMAIN receipt \cup {f}
          /\ \A g \in DOMAIN receipt' : receipt'[g] = IF g = f THEN v ELSE receipt[g]
      BY DEF Commit
    <2>3. /\ DOMAIN receipt' \subseteq Facts
          /\ \A g \in DOMAIN receipt' : receipt'[g] \in Values[g.stream]
      BY <1>1, <2>2 DEF WInv, RowTypes
    <2> QED
      BY <1>3, <2>1, <2>3 DEF WInv, RowTypes
  <1>5. /\ work' \in [Workers -> Work] /\ work'[w].step = "idle"
        /\ \A o \in Workers \ {w} : work'[o] = work[o]
    BY <1>3, IdleIsWork DEF WInv, WorkTypes, IdleWork
  <1>6. WorkTypes'
    BY <1>5 DEF WInv, WorkTypes
  <1>7. ~HoldsLock(w)' /\ \A o \in Workers \ {w} : HoldsLock(o)' <=> HoldsLock(o)
    BY <1>5 DEF HoldsLock, Advances
  <1>8. Alone'
    BY <1>5, <1>7 DEF WInv, Alone
  <1>9. \A o \in Workers : KnowsTheSession(o)'
    <2>1. KnowsTheSession(w)'
      BY <1>7 DEF KnowsTheSession
    <2>2. ASSUME NEW o \in Workers \ {w}, HoldsLock(o)', ReadsLocked(work'[o].fact.stream)
          PROVE  /\ work'[o].seen = row'[work'[o].fact.stream].seq
                 /\ work'[o].ended = ended'
      <3>1. HoldsLock(o) /\ ReadsLocked(work[o].fact.stream) /\ work'[o] = work[o]
        BY <1>5, <1>7, <2>2
      <3>2. row'[work[o].fact.stream] = row[work[o].fact.stream]
        BY <3>1, OnlyMyRow
      <3>3. work[o].seen = row[work[o].fact.stream].seq /\ work[o].ended = ended
        BY <3>1 DEF WInv, KnowsTheSession
      <3> QED
        BY <1>3, <3>1, <3>2, <3>3
    <2> QED
      BY <2>1, <2>2 DEF KnowsTheSession
  <1> QED
    BY <1>4, <1>6, <1>8, <1>9 DEF WInv

LEMMA EndSessionKeeps ==
  ASSUME WInv, EndSession
  PROVE  WInv'
  <1>1. UNCHANGED <<row, receipt, work, aged, outage>> /\ ended' = TRUE
    BY DEF EndSession
  <1>2. \A w \in Workers : ~(HoldsLock(w) /\ ReadsLocked(work[w].fact.stream))
    BY DEF EndSession, ReadsLocked
  <1>3. \A w \in Workers : HoldsLock(w)' <=> HoldsLock(w)
    BY <1>1 DEF HoldsLock, Advances
  <1>4. RowTypes' /\ WorkTypes' /\ Alone'
    BY <1>1, <1>3 DEF WInv, RowTypes, WorkTypes, Alone
  <1>5. \A w \in Workers : KnowsTheSession(w)'
    BY <1>1, <1>2, <1>3 DEF KnowsTheSession
  <1> QED
    BY <1>4, <1>5 DEF WInv

LEMMA AgeKeeps ==
  ASSUME WInv, NEW s \in Ageing, Age(s)
  PROVE  WInv'
  <1>1. s \in Streams /\ Len(Contents[s]) \in Nat
    <2>1. s \in Streams
      BY BoundsAssumption DEF Streams
    <2> QED
      BY <2>1, BoundsAssumption, LenProperties
  <1>2. /\ aged' \in [Streams -> Nat]
        /\ \A t \in Streams : aged'[t] <= Len(Contents[t])
    BY <1>1 DEF Age, WInv, RowTypes
  <1>3. UNCHANGED <<row, receipt, work, ended, outage>>
    BY DEF Age
  <1> QED
    BY <1>2, <1>3 DEF WInv, RowTypes, WorkTypes, Alone, KnowsTheSession, HoldsLock, Advances

LEMMA StillKeeps ==
  ASSUME WInv, UNCHANGED <<row, receipt, work, ended, aged>>, outage' \in BOOLEAN
  PROVE  WInv'
  BY DEF WInv, RowTypes, WorkTypes, Alone, KnowsTheSession, HoldsLock, Advances

\* Which handlers do what in a step
HandlerSteps(w) ==
  \/ \E f \in Facts : \E v \in Contents[f.stream][f.seq] : Deliver(w, f, v)
  \/ ReadRow(w) \/ WriteRow(w) \/ Commit(w)
  \/ Rollback(w) /\ work[w].step # "idle"

StreamSteps == Open \/ Show \/ Poll \/ Heartbeat \/ Disconnect

LEMMA Steps ==
  ASSUME [Next]_vars
  PROVE  \/ UNCHANGED vars \/ EndSession \/ OutageEnds \/ StreamSteps
         \/ \E s \in Ageing : Age(s)
         \/ \E w \in Workers : HandlerSteps(w)
  BY DEF Next, Handle, InsertFails, ReceiptTaken, Fail, HandlerSteps, StreamSteps

LEMMA WorkersKeep ==
  ASSUME WInv, [Next]_vars
  PROVE  WInv'
  <1>1. ASSUME NEW w \in Workers, HandlerSteps(w)
        PROVE  WInv'
    BY <1>1, DeliverKeeps, ReadRowKeeps, WriteRowKeeps, CommitKeeps, RollbackKeeps DEF HandlerSteps
  <1>2. CASE OutageEnds
    BY <1>2, StillKeeps DEF OutageEnds
  <1>3. CASE StreamSteps
    BY <1>3, StillKeeps DEF StreamSteps, Open, Show, Poll, Heartbeat, Disconnect, WInv, RowTypes
  <1>4. CASE UNCHANGED vars
    BY <1>4, StillKeeps DEF vars, WInv, RowTypes
  <1> QED
    BY <1>1, <1>2, <1>3, <1>4, EndSessionKeeps, AgeKeeps, Steps

LEMMA WorkersStart ==
  ASSUME Init
  PROVE  WInv
  <1>1. \A s \in Streams : Len(Contents[s]) \in Nat
    BY BoundsAssumption, LenProperties
  <1>2. RowTypes
    <2>1. DOMAIN receipt = {}
      BY DEF Init
    <2>2. ended \in BOOLEAN /\ outage \in BOOLEAN
      BY Zenon DEF Init
    <2>3. row = [s \in Streams |-> NoRow] /\ aged = [s \in Streams |-> 0]
      BY DEF Init
    <2>4. NoRow.seq = 0 /\ NoRow.value = None /\ NoRow \in [seq : Nat, value : {None}]
      BY DEF NoRow
    <2>5. /\ row \in [Streams -> [seq : Nat, value : AllValues \cup {None}]]
          /\ aged \in [Streams -> Nat]
          /\ \A s \in Streams : row[s] = NoRow /\ aged[s] = 0
      BY <2>3, <2>4
    <2> QED
      BY <1>1, <2>1, <2>2, <2>4, <2>5 DEF RowTypes
  <1>3. \A w \in Workers : work[w] = IdleWork /\ work[w].step = "idle"
    BY DEF Init, IdleWork
  <1>4. work \in [Workers -> Work]
    BY IdleIsWork DEF Init
  <1> QED
    BY <1>2, <1>3, <1>4 DEF WInv, WorkTypes, Alone, KnowsTheSession, HoldsLock

-----------------------------------------------------------------------------
(* The log and the stream. *)

IsLive(l) ==
  l \in [step : {"off", "load", "waiting"}, cursor : Nat, shown : {l.shown},
         missed : BOOLEAN]

\* An event that is not committed is the only one of a handler that has
\* written, and about its fact.
OwnIn(log, wk) ==
  \A i \in 1 .. Len(log) : \A w \in Workers :
    log[i].by = w => wk[w].step = "written" /\ log[i].fact = wk[w].fact
UniqueIn(log) ==
  \A i, j \in 1 .. Len(log) :
    log[i].by \in Workers /\ log[i].by = log[j].by => i = j

\* Whoever is going to change a row has its event in the log.
Writing == {w \in Workers : work[w].step = "written" /\ Advances(w)}
WroteIn(log, W) == \A w \in W : \E i \in 1 .. Len(log) : log[i].by = w

GoodLog(log, wk, W) ==
  log \in Seq(Entries) /\ OwnIn(log, wk) /\ UniqueIn(log) /\ WroteIn(log, W)

\* A change that is not shown has a committed event ahead.
AheadIn(log, n) == \E i \in 1 .. Len(log) : i > n /\ log[i].by = "committed"
Announced ==
  live.step = "waiting" /\ ~live.missed /\ Seen(live.shown) # Seen(Projection)
    => AheadIn(events, live.cursor)

LInv ==
  /\ GoodLog(events, work, Writing)
  /\ IsLive(live) /\ live.cursor <= Len(events)
  /\ Announced

LEMMA LogLen ==
  ASSUME NEW log \in Seq(Entries)
  PROVE  /\ Len(log) \in Nat /\ DOMAIN log = 1 .. Len(log)
         /\ \A i \in 1 .. Len(log) : log[i] \in Entries
  BY LenProperties

LEMMA LiveMoved ==
  ASSUME NEW l, IsLive(l), NEW n \in Nat, NEW m, m = [l EXCEPT !.cursor = n]
  PROVE  /\ IsLive(m) /\ m.step = l.step /\ m.cursor = n
         /\ m.shown = l.shown /\ m.missed = l.missed
  BY DEF IsLive

\* Trimming the log moves the cursor with it, and takes no event away that is
\* ahead of it or not committed.
LEMMA CutKeeps ==
  ASSUME NEW log, NEW wk, NEW W \in SUBSET Workers, GoodLog(log, wk, W),
         NEW next, IsLive(next), next.cursor <= Len(log), UpdateLog(log, next)
  PROVE  /\ GoodLog(events', wk, W)
         /\ IsLive(live') /\ live'.cursor <= Len(events')
         /\ live'.step = next.step /\ live'.shown = next.shown
         /\ live'.missed = next.missed
         /\ next.step # "off" /\ AheadIn(log, next.cursor)
              => AheadIn(events', live'.cursor)
  <1>0. log \in Seq(Entries) /\ Len(log) \in Nat /\ next.cursor \in 0 .. Len(log)
    BY LogLen DEF GoodLog, IsLive
  <1>1. PICK n \in 0 .. Len(log) : CutAt(log, next, n)
    BY <1>0, Cut
  <1>2. /\ events' \in Seq(Entries) /\ Len(events') = Len(log) - n
        /\ \A i \in 1 .. Len(log) - n : events'[i] = log[i + n]
        /\ \A i \in 1 .. n : log[i].by = "committed"
        /\ next.step # "off" => \A i \in 1 .. n : i <= next.cursor
    BY <1>1 DEF CutAt, Read
  <1>3. OwnIn(events', wk) /\ UniqueIn(events')
    <2>1. \A i \in 1 .. Len(events') : i + n \in 1 .. Len(log) /\ events'[i] = log[i + n]
      BY <1>0, <1>2
    <2>2. OwnIn(events', wk)
      BY <2>1 DEF GoodLog, OwnIn
    <2>3. \A i, j \in 1 .. Len(events') : i + n = j + n => i = j
      BY <1>0
    <2>4. UniqueIn(events')
      BY <2>1, <2>3 DEF GoodLog, UniqueIn
    <2> QED
      BY <2>2, <2>4
  <1>4. WroteIn(events', W)
    <2> SUFFICES ASSUME NEW w \in W
                 PROVE  \E i \in 1 .. Len(events') : events'[i].by = w
      BY DEF WroteIn
    <2>1. PICK i \in 1 .. Len(log) : log[i].by = w
      BY DEF GoodLog, WroteIn
    <2>2. w # "committed"
      BY BoundsAssumption
    <2>3. i \notin 1 .. n
      BY <1>2, <2>1, <2>2
    <2>4. i - n \in 1 .. Len(events') /\ (i - n) + n = i
      BY <1>0, <1>2, <2>3
    <2>5. events'[i - n].by = w
      BY <1>2, <2>1, <2>4
    <2> QED
      BY <2>4, <2>5
  <1> DEFINE c == IF next.cursor > n THEN next.cursor - n ELSE 0
  <1>5. c \in Nat /\ c <= Len(events')
    BY <1>0, <1>2
  <1>6. live' = [next EXCEPT !.cursor = c]
    BY <1>1 DEF CutAt
  <1>7. /\ IsLive(live') /\ live'.cursor = c /\ live'.step = next.step
        /\ live'.shown = next.shown /\ live'.missed = next.missed
    <2> HIDE DEF c
    <2> QED
      BY <1>5, <1>6, LiveMoved
  <1>8. ASSUME next.step # "off", AheadIn(log, next.cursor)
        PROVE  AheadIn(events', live'.cursor)
    <2>1. PICK i \in 1 .. Len(log) : i > next.cursor /\ log[i].by = "committed"
      BY <1>8 DEF AheadIn
    <2>2. n <= next.cursor
      BY <1>0, <1>2, <1>8
    <2>3. i - n \in 1 .. Len(events') /\ i - n > c /\ (i - n) + n = i
      BY <1>0, <1>2, <2>1, <2>2
    <2>4. events'[i - n].by = "committed"
      BY <1>2, <2>1, <2>3
    <2> QED
      BY <1>7, <2>3, <2>4 DEF AheadIn
  <1> QED
    BY <1>2, <1>3, <1>4, <1>5, <1>7, <1>8 DEF GoodLog

\* What the screen shows of the rows
LEMMA SeenIsRows ==
  Seen(Projection) = <<row["connection"].seq, row["connector"].seq, row["meter"].seq,
                       row["soc"].seq, ~ended>>
  BY DEF Seen, Projection, ChargerState, ConnectorState, SessionState

LEMMA SameSeen ==
  ASSUME UNCHANGED <<row, ended>>
  PROVE  Seen(Projection)' = Seen(Projection)
  <1>1. Seen(Projection)' = <<row'["connection"].seq, row'["connector"].seq,
                              row'["meter"].seq, row'["soc"].seq, ~ended'>>
    BY DEF Seen, Projection, ChargerState, ConnectorState, SessionState
  <1> QED
    BY <1>1, SeenIsRows

-----------------------------------------------------------------------------
(* The log, step by step. *)

\* The log is left alone by a handler that has no event in it.
LEMMA LogStays ==
  ASSUME LInv, UNCHANGED <<events, live, row, ended>>,
         NEW w \in Workers, work[w].step # "written", work'[w].step # "written",
         \A o \in Workers \ {w} : work'[o] = work[o]
  PROVE  LInv'
  <1>1. Writing' = Writing
    BY DEF Writing, Advances
  <1>2. GoodLog(events, work', Writing)
    BY DEF LInv, GoodLog, OwnIn
  <1>3. Announced'
    BY SameSeen DEF LInv, Announced
  <1> QED
    BY <1>1, <1>2, <1>3 DEF LInv

LEMMA LogSame ==
  ASSUME LInv, UNCHANGED <<events, live, row, ended, work>>
  PROVE  LInv'
  <1>1. Writing' = Writing
    BY DEF Writing, Advances
  <1>2. Announced'
    BY SameSeen DEF LInv, Announced
  <1> QED
    BY <1>1, <1>2 DEF LInv

\* The stream's own steps but Show trim the log, or leave it.
LEMMA LogTrimmed ==
  ASSUME LInv, UNCHANGED <<row, ended, work>>, NEW next, IsLive(next),
         next.cursor <= Len(events), UpdateLog(events, next), next.step # "waiting"
  PROVE  LInv'
  <1>1. Writing' = Writing /\ Writing \in SUBSET Workers
    BY DEF Writing, Advances
  <1>2. /\ GoodLog(events', work, Writing) /\ IsLive(live')
        /\ live'.cursor <= Len(events') /\ live'.step = next.step
    BY <1>1, CutKeeps DEF LInv
  <1> QED
    BY <1>1, <1>2 DEF LInv, Announced

LEMMA GreatestNatural ==
  ASSUME NEW N \in Nat, NEW S \in SUBSET (0 .. N), S # {}
  PROVE  \E x \in S : \A y \in S : y <= x
  <1> DEFINE B == {N - x : x \in S}
  <1>1. B \in SUBSET Nat /\ B # {}
    <2>1. \A x \in S : N - x \in Nat
      OBVIOUS
    <2>2. PICK x \in S : TRUE
      OBVIOUS
    <2> QED
      BY <2>1, <2>2
  <1>2. PICK m \in B : \A k \in B : m <= k
    <2> HIDE DEF B
    <2> QED
      BY <1>1, LeastNatural
  <1>3. PICK x \in S : m = N - x
    BY <1>2
  <1>4. ASSUME NEW y \in S
        PROVE  y <= x
    <2>1. N - x <= N - y
      BY <1>2, <1>3
    <2> QED
      BY <2>1
  <1> QED
    BY <1>4

LEMMA WatermarkInLog ==
  ASSUME LInv
  PROVE  MaxOr(CommittedAfter(0), 0) \in 0 .. Len(events)
  <1> DEFINE S == CommittedAfter(0)
  <1>1. Len(events) \in Nat /\ S \in SUBSET (0 .. Len(events))
    BY LogLen DEF CommittedAfter, LInv, GoodLog
  <1>2. CASE S = {}
    BY <1>1, <1>2 DEF MaxOr
  <1>3. CASE S # {}
    <2> HIDE DEF S
    <2>1. \E x \in S : \A y \in S : y <= x
      BY <1>1, <1>3, GreatestNatural
    <2>2. MaxOr(S, 0) \in S
      BY <1>3, <2>1, Zenon DEF MaxOr
    <2> QED
      BY <1>1, <2>2 DEF S
  <1> QED
    BY <1>2, <1>3

\* A page ends at an event: the last, or the one that fills it.
LEMMA PageEndInLog ==
  ASSUME LInv, CommittedAfter(live.cursor) # {}
  PROVE  PageEnd \in 0 .. Len(events)
  <1> DEFINE new == CommittedAfter(live.cursor)
             page(i) == {j \in new : j <= i}
             End(i) == \/ Cardinality(page(i)) = Batch
                       \/ page(i) = new /\ Cardinality(page(i)) < Batch
             B == {i \in new : Cardinality(page(i)) >= Batch}
  <1>1. /\ Len(events) \in Nat /\ new \in SUBSET (0 .. Len(events)) /\ new # {}
        /\ Batch \in Nat \ {0}
    BY LogLen, BoundsAssumption DEF CommittedAfter, LInv, GoodLog, IsLive
  <1>2. \A i \in new : IsFiniteSet(page(i)) /\ Cardinality(page(i)) \in Nat
    <2>1. IsFiniteSet(0 .. Len(events))
      BY <1>1, FS_Interval
    <2>2. \A i \in new : page(i) \in SUBSET (0 .. Len(events))
      BY <1>1
    <2> QED
      BY <2>1, <2>2, FS_Subset, FS_CardinalityType
  <1> HIDE DEF new
  <1>3. PICK last \in new : \A y \in new : y <= last
    BY <1>1, GreatestNatural
  <1>4. page(last) = new
    BY <1>3
  <1>5. \E i \in new : End(i)
    <2>1. CASE B = {}
      <3>1. ~(Cardinality(page(last)) >= Batch)
        BY <1>3, <2>1, Zenon
      <3>2. Cardinality(page(last)) \in Nat
        BY <1>2, <1>3, Zenon
      <3>3. Cardinality(page(last)) < Batch
        <4> HIDE DEF page
        <4> QED
          BY <1>1, <3>1, <3>2
      <3> QED
        BY <1>3, <1>4, <3>3
    <2>2. CASE B # {}
      <3>1. B \in SUBSET Nat
        <4>1. new \in SUBSET Nat /\ B \subseteq new
          BY <1>1
        <4> HIDE DEF B
        <4> QED
          BY <4>1
      <3>2. PICK m \in B : \A k \in B : m <= k
        <4> HIDE DEF B
        <4> QED
          BY <2>2, <3>1, LeastNatural
      <3> DEFINE rest == page(m) \ {m}
      <3>3. /\ IsFiniteSet(page(m)) /\ Cardinality(page(m)) \in Nat
            /\ Cardinality(rest) = Cardinality(page(m)) - 1
        <4>1. IsFiniteSet(page(m)) /\ Cardinality(page(m)) \in Nat /\ m \in page(m)
          BY <1>1, <1>2
        <4> HIDE DEF page
        <4> QED
          BY <4>1, FS_RemoveElement
      <3>4. Cardinality(page(m)) <= Batch
        <4> SUFFICES ASSUME Cardinality(page(m)) > Batch
                     PROVE  FALSE
          BY <1>1, <3>3
        <4>1. Cardinality(rest) >= Batch
          BY <1>1, <3>3
        <4>2. rest # {}
          BY <1>1, <4>1, FS_EmptySet
        <4>3. rest \in SUBSET (0 .. Len(events))
          BY <1>1
        <4>4. PICK k \in rest : \A y \in rest : y <= k
          <5> HIDE DEF rest
          <5> QED
            BY <1>1, <4>2, <4>3, GreatestNatural
        <4>5. k \in new /\ k < m
          BY <1>1, <4>4
        <4>6. page(k) = rest
          <5>1. \A j \in new : j \in Nat
            BY <1>1
          <5>2. \A j \in new : j <= k <=> j <= m /\ j # m
            BY <4>4, <4>5, <5>1
          <5> QED
            BY <4>5, <5>2
        <4>7. k \in B
          BY <4>1, <4>5, <4>6
        <4> QED
          BY <1>1, <3>2, <4>5, <4>7
      <3>5. Cardinality(page(m)) = Batch /\ m \in new
        BY <1>1, <3>3, <3>4
      <3> QED
        BY <3>5
    <2> QED
      BY <2>1, <2>2
  <1>6. PageEnd = CHOOSE i \in new : End(i)
    BY Zenon DEF PageEnd, new
  <1>7. PageEnd \in new
    <2> HIDE DEF End
    <2> QED
      BY <1>5, <1>6, Zenon
  <1> QED
    BY <1>1, <1>7

\* Opening, polling and closing a stream trim the log.
LEMMA StreamTrims ==
  ASSUME LInv, Open \/ Poll \/ Disconnect
  PROVE  \E next : /\ IsLive(next) /\ next.step # "waiting"
                   /\ next.cursor <= Len(events) /\ UpdateLog(events, next)
  <1>0. IsLive(live) /\ live.cursor <= Len(events) /\ Len(events) \in Nat
    BY LogLen DEF LInv, GoodLog
  <1>1. CASE Open
    <2> DEFINE n == MaxOr(CommittedAfter(0), 0)
    <2>1. n \in 0 .. Len(events)
      BY WatermarkInLog
    <2> HIDE DEF n
    <2>2. PICK next : next = [live EXCEPT !.step = "load", !.cursor = n]
      OBVIOUS
    <2>3. IsLive(next) /\ next.step # "waiting" /\ next.cursor <= Len(events)
      <3>0. n \in Nat /\ "load" \in {"off", "load", "waiting"}
        BY <1>0, <2>1
      <3>1. next.step = "load" /\ next.cursor = n /\ next.shown = live.shown
        BY <1>0, <2>2, <3>0 DEF IsLive
      <3>2. IsLive(next)
        BY <1>0, <2>2, <3>0, <3>1 DEF IsLive
      <3> QED
        BY <1>0, <2>1, <3>1, <3>2
    <2>4. UpdateLog(events, next)
      BY <1>1, <2>2 DEF Open, n
    <2> QED
      BY <2>3, <2>4
  <1>2. CASE Poll
    <2> DEFINE n == PageEnd
    <2>1. n \in 0 .. Len(events)
      BY <1>2, PageEndInLog DEF Poll
    <2> HIDE DEF n
    <2>2. PICK next : next = [live EXCEPT !.step = "load", !.shown = None, !.cursor = n]
      OBVIOUS
    <2>3. IsLive(next) /\ next.step # "waiting" /\ next.cursor <= Len(events)
      <3>0. n \in Nat /\ "load" \in {"off", "load", "waiting"}
        BY <1>0, <2>1
      <3>1. next.step = "load" /\ next.cursor = n /\ next.shown = None
        BY <1>0, <2>2, <3>0 DEF IsLive
      <3>2. IsLive(next)
        BY <1>0, <2>2, <3>0, <3>1 DEF IsLive
      <3> QED
        BY <1>0, <2>1, <3>1, <3>2
    <2>4. UpdateLog(events, next)
      BY <1>2, <2>2 DEF Poll, n
    <2> QED
      BY <2>3, <2>4
  <1>3. CASE Disconnect
    <2>2. PICK next : next = [live EXCEPT !.step = "off", !.cursor = 0, !.shown = None,
                                          !.missed = FALSE]
      OBVIOUS
    <2>3. IsLive(next) /\ next.step # "waiting" /\ next.cursor <= Len(events)
      <3>0. 0 \in Nat /\ "off" \in {"off", "load", "waiting"}
        OBVIOUS
      <3>1. next.step = "off" /\ next.cursor = 0 /\ next.shown = None
        BY <1>0, <2>2, <3>0 DEF IsLive
      <3>2. IsLive(next)
        BY <1>0, <2>2, <3>0, <3>1 DEF IsLive
      <3> QED
        BY <1>0, <3>1, <3>2
    <2>4. UpdateLog(events, next)
      BY <1>3, <2>2 DEF Disconnect
    <2> QED
      BY <2>3, <2>4
  <1> QED
    BY <1>1, <1>2, <1>3

LEMMA StreamKeeps ==
  ASSUME LInv, StreamSteps
  PROVE  LInv'
  <1>0. /\ UNCHANGED <<row, ended, work>>
        /\ IsLive(live) /\ live.cursor <= Len(events) /\ Len(events) \in Nat
    BY LogLen DEF StreamSteps, Open, Show, Poll, Heartbeat, Disconnect, LInv, GoodLog
  <1>1. CASE Open \/ Poll \/ Disconnect
    <2>1. PICK next : /\ IsLive(next) /\ next.step # "waiting"
                      /\ next.cursor <= Len(events) /\ UpdateLog(events, next)
      BY <1>1, StreamTrims
    <2> QED
      BY <1>0, <2>1, LogTrimmed
  <1>4. Writing' = Writing
    BY <1>0 DEF Writing, Advances
  <1>5. CASE Heartbeat
    <2>1. live' = [live EXCEPT !.step = "load", !.shown = None] /\ events' = events
      BY <1>5 DEF Heartbeat
    <2>2. IsLive(live') /\ live'.step = "load" /\ live'.cursor = live.cursor
      <3>1. live.cursor \in Nat
        BY <1>0 DEF IsLive
      <3> QED
        BY <1>0, <2>1, <3>1 DEF IsLive
    <2> QED
      BY <1>0, <1>4, <2>1, <2>2 DEF LInv, Announced
  <1>6. CASE Show
    <2>1. /\ live' = [live EXCEPT !.step = "waiting", !.missed = FALSE, !.shown = Projection]
          /\ events' = events
      BY <1>6 DEF Show
    <2>2. IsLive(live') /\ live'.cursor = live.cursor /\ live'.shown = Projection
      <3> DEFINE p == Projection
      <3>1. live' = [live EXCEPT !.step = "waiting", !.missed = FALSE, !.shown = p]
        BY <2>1
      <3> HIDE DEF p
      <3>2. IsLive(live') /\ live'.cursor = live.cursor /\ live'.shown = p
        BY <1>0, <3>1 DEF IsLive
      <3> QED
        BY <3>2 DEF p
    <2>3. Announced'
      <3>1. Seen(live'.shown) = Seen(Projection)'
        BY <1>0, <2>2, SameSeen
      <3> QED
        BY <3>1 DEF Announced
    <2> QED
      BY <1>0, <1>4, <2>1, <2>2, <2>3 DEF LInv
  <1> QED
    BY <1>1, <1>5, <1>6 DEF StreamSteps

LEMMA Appended ==
  ASSUME NEW log \in Seq(Entries), NEW e \in Entries
  PROVE  /\ Append(log, e) \in Seq(Entries)
         /\ Len(Append(log, e)) = Len(log) + 1
         /\ Append(log, e)[Len(log) + 1] = e
         /\ \A i \in 1 .. Len(log) : Append(log, e)[i] = log[i]
  BY AppendProperties

\* A handler writes its event, if it will change the row or repeats it.
LEMMA WriteRowLog ==
  ASSUME WInv, LInv, NEW w \in Workers, WriteRow(w)
  PROVE  LInv'
  <1> DEFINE q == [work[w] EXCEPT !.step = "written"]
             e == [fact |-> work[w].fact, by |-> w]
             N == Len(events)
  <1>1. work[w] \in Work /\ work[w].fact \in Facts /\ work[w].step = "read"
    BY DEF WriteRow, WInv, WorkTypes
  <1>2. /\ q \in Work /\ q.step = "written" /\ q.fact = work[w].fact
        /\ q.value = work[w].value /\ q.seen = work[w].seen /\ q.ended = work[w].ended
    BY <1>1, HasWritten
  <1>3. /\ work' = [work EXCEPT ![w] = q] /\ UNCHANGED <<row, ended, live>>
        /\ events' = IF Emits(w) THEN Append(events, e) ELSE events
    BY DEF WriteRow, WInv, WorkTypes
  <1> HIDE DEF q
  <1>4. work'[w] = q /\ \A o \in Workers \ {w} : work'[o] = work[o]
    BY <1>3 DEF WInv, WorkTypes
  <1>5. /\ Writing' \subseteq Writing \cup {w} /\ (w \in Writing' => Emits(w))
        /\ Writing' \in SUBSET Workers
    BY <1>2, <1>4 DEF Writing, Advances, Emits
  <1>6. /\ events \in Seq(Entries) /\ N \in Nat /\ OwnIn(events, work)
        /\ UniqueIn(events) /\ WroteIn(events, Writing)
        /\ \A i \in 1 .. N : events[i].by # w
    BY <1>1, LogLen DEF LInv, GoodLog, OwnIn
  <1>7. CASE ~Emits(w)
    <2>1. events' = events /\ Writing' \subseteq Writing
      BY <1>3, <1>5, <1>7
    <2>2. OwnIn(events, work') /\ WroteIn(events, Writing')
      BY <1>4, <1>6, <2>1 DEF OwnIn, WroteIn
    <2>3. Announced'
      BY <1>3, <2>1, SameSeen DEF LInv, Announced
    <2> QED
      BY <1>3, <1>6, <2>1, <2>2, <2>3 DEF LInv, GoodLog
  <1>8. CASE Emits(w)
    <2>1. e \in Entries /\ e.fact = work[w].fact /\ e.by = w
      BY <1>1 DEF Entries, Writers
    <2>2. /\ events' \in Seq(Entries) /\ Len(events') = N + 1 /\ events'[N + 1] = e
          /\ \A i \in 1 .. N : events'[i] = events[i]
      <3> HIDE DEF e
      <3> QED
        BY <1>3, <1>6, <1>8, <2>1, Appended
    <2> HIDE DEF e, N
    <2>3. \A i \in 1 .. N + 1 : i = N + 1 \/ i \in 1 .. N
      BY <1>6
    <2>4. OwnIn(events', work')
      <3> SUFFICES ASSUME NEW i \in 1 .. N + 1, NEW o \in Workers, events'[i].by = o
                   PROVE  work'[o].step = "written" /\ events'[i].fact = work'[o].fact
        BY <2>2 DEF OwnIn
      <3>1. CASE i = N + 1
        BY <1>2, <1>4, <2>1, <2>2, <3>1
      <3>2. CASE i \in 1 .. N
        BY <1>4, <1>6, <2>2, <3>2 DEF OwnIn, N
      <3> QED
        BY <2>3, <3>1, <3>2
    <2>5. UniqueIn(events')
      <3> SUFFICES ASSUME NEW i \in 1 .. N + 1, NEW j \in 1 .. N + 1,
                          events'[i].by \in Workers, events'[i].by = events'[j].by
                   PROVE  i = j
        BY <2>2 DEF UniqueIn
      <3> QED
        BY <1>6, <2>1, <2>2, <2>3 DEF UniqueIn, N
    <2>6. WroteIn(events', Writing')
      <3> SUFFICES ASSUME NEW o \in Writing'
                   PROVE  \E i \in 1 .. N + 1 : events'[i].by = o
        BY <2>2 DEF WroteIn
      <3>1. CASE o = w
        BY <1>6, <2>1, <2>2, <3>1
      <3>2. CASE o # w
        <4>1. PICK i \in 1 .. N : events[i].by = o
          BY <1>5, <1>6, <3>2 DEF WroteIn, N
        <4> QED
          BY <1>6, <2>2, <4>1
      <3> QED
        BY <3>1, <3>2
    <2>7. AheadIn(events, live.cursor) => AheadIn(events', live.cursor)
      BY <1>6, <2>2 DEF AheadIn, N
    <2>8. Announced'
      BY <1>3, <2>7, SameSeen DEF LInv, Announced
    <2>9. live'.cursor <= Len(events')
      BY <1>3, <1>6, <2>2 DEF LInv, N, IsLive
    <2> QED
      BY <1>3, <2>2, <2>4, <2>5, <2>6, <2>8, <2>9 DEF LInv, GoodLog
  <1> QED
    BY <1>7, <1>8

\* The end of a session is an event of its own.
LEMMA EndSessionLog ==
  ASSUME LInv, EndSession
  PROVE  LInv'
  <1> DEFINE e == [fact |-> NoFact, by |-> "committed"]
             N == Len(events)
             log == Append(events, e)
  <1>1. UNCHANGED <<row, work>> /\ UpdateLog(log, live)
    BY DEF EndSession
  <1>2. /\ events \in Seq(Entries) /\ N \in Nat /\ OwnIn(events, work)
        /\ UniqueIn(events) /\ WroteIn(events, Writing) /\ IsLive(live)
        /\ live.cursor <= N
    BY LogLen DEF LInv, GoodLog
  <1>3. e \in Entries /\ e.by = "committed"
    BY DEF Entries, Writers
  <1>4. /\ log \in Seq(Entries) /\ Len(log) = N + 1 /\ log[N + 1] = e
        /\ \A i \in 1 .. N : log[i] = events[i]
    <2> HIDE DEF e
    <2> QED
      BY <1>2, <1>3, Appended
  <1> HIDE DEF e, log, N
  <1>5. \A i \in 1 .. N + 1 : i = N + 1 \/ i \in 1 .. N
    BY <1>2
  <1>6. GoodLog(log, work, Writing)
    <2>1. OwnIn(log, work)
      BY <1>2, <1>3, <1>4, <1>5, BoundsAssumption DEF OwnIn, N
    <2>2. UniqueIn(log)
      <3> SUFFICES ASSUME NEW i \in 1 .. N + 1, NEW j \in 1 .. N + 1,
                          log[i].by \in Workers, log[i].by = log[j].by
                   PROVE  i = j
        BY <1>4 DEF UniqueIn
      <3>1. i \in 1 .. N /\ j \in 1 .. N
        BY <1>3, <1>4, <1>5, BoundsAssumption
      <3> QED
        BY <1>2, <1>4, <3>1 DEF UniqueIn, N
    <2>3. WroteIn(log, Writing)
      <3> SUFFICES ASSUME NEW o \in Writing
                   PROVE  \E i \in 1 .. N + 1 : log[i].by = o
        BY <1>4 DEF WroteIn
      <3>1. PICK i \in 1 .. N : events[i].by = o
        BY <1>2 DEF WroteIn, N
      <3> QED
        BY <1>2, <1>4, <3>1
    <2> QED
      BY <1>4, <2>1, <2>2, <2>3 DEF GoodLog
  <1>7. AheadIn(log, live.cursor) /\ live.cursor <= Len(log)
    BY <1>2, <1>3, <1>4 DEF AheadIn, IsLive
  <1>8. Writing' = Writing /\ Writing \in SUBSET Workers
    BY <1>1 DEF Writing, Advances
  <1>9. /\ GoodLog(events', work, Writing) /\ IsLive(live')
        /\ live'.cursor <= Len(events') /\ live'.step = live.step
        /\ live.step # "off" => AheadIn(events', live'.cursor)
    BY <1>1, <1>2, <1>6, <1>7, <1>8, CutKeeps
  <1> QED
    BY <1>1, <1>8, <1>9 DEF LInv, Announced

\* What a handler still has to do does not depend on what others do.
LEMMA WritingLeft ==
  ASSUME WInv, NEW w \in Workers, work' = [work EXCEPT ![w] = IdleWork]
  PROVE  /\ Writing' = Writing \ {w} /\ Writing' \in SUBSET Workers
         /\ work'[w].step = "idle" /\ \A o \in Workers \ {w} : work'[o] = work[o]
  <1>1. work'[w] = IdleWork /\ IdleWork.step = "idle"
    BY DEF WInv, WorkTypes, IdleWork
  <1>2. \A o \in Workers \ {w} : work'[o] = work[o]
    BY DEF WInv, WorkTypes
  <1>3. \A o \in Workers : o \in Writing' <=> o \in Writing /\ o # w
    BY <1>1, <1>2 DEF Writing, Advances
  <1>4. Writing' \in SUBSET Workers /\ Writing \in SUBSET Workers
    BY DEF Writing
  <1> QED
    BY <1>1, <1>2, <1>3, <1>4

\* The log of which one handler's event is committed
Relabelled(w) ==
  [i \in DOMAIN events |-> IF events[i].by = w THEN [events[i] EXCEPT !.by = "committed"]
                                               ELSE events[i]]

LEMMA RelabelledLog ==
  ASSUME events \in Seq(Entries), NEW w \in Workers
  PROVE  /\ Relabelled(w) \in Seq(Entries) /\ Len(Relabelled(w)) = Len(events)
         /\ \A i \in 1 .. Len(events) :
              /\ Relabelled(w)[i].fact = events[i].fact
              /\ Relabelled(w)[i].by = IF events[i].by = w THEN "committed" ELSE events[i].by
              /\ events[i].by # w => Relabelled(w)[i] = events[i]
  <1> DEFINE N == Len(events)
             log == Relabelled(w)
  <1>1. N \in Nat /\ DOMAIN events = 1 .. N /\ \A i \in 1 .. N : events[i] \in Entries
    BY LogLen
  <1>2. \A i \in 1 .. N :
          log[i] = IF events[i].by = w THEN [events[i] EXCEPT !.by = "committed"]
                                       ELSE events[i]
    BY <1>1 DEF Relabelled
  <1>3. ASSUME NEW i \in 1 .. N
        PROVE  /\ log[i] \in Entries /\ log[i].fact = events[i].fact
               /\ log[i].by = IF events[i].by = w THEN "committed" ELSE events[i].by
    <2>1. events[i] \in Entries
      BY <1>1
    <2>2. CASE events[i].by = w
      <3>1. log[i] = [events[i] EXCEPT !.by = "committed"]
        BY <1>2, <2>2
      <3> QED
        BY <2>1, <2>2, <3>1 DEF Entries, Writers
    <2>3. CASE events[i].by # w
      <3>1. log[i] = events[i]
        BY <1>2, <2>3
      <3> QED
        BY <2>1, <2>3, <3>1
    <2> QED
      BY <2>2, <2>3
  <1>4. DOMAIN log = 1 .. N
    BY <1>1 DEF Relabelled
  <1>5. log \in [1 .. N -> Entries]
    BY <1>1, <1>3, <1>4 DEF Relabelled
  <1>6. log \in Seq(Entries)
    BY <1>1, <1>5, SeqDef
  <1>7. Len(log) = N
    BY <1>1, <1>4, <1>6, LenProperties
  <1> QED
    BY <1>2, <1>3, <1>6, <1>7

\* A commit shows the handler's event together with the change of the row: the
\* event is ahead of the cursor, or the stream has missed it.
LEMMA CommitLog ==
  ASSUME WInv, LInv, NEW w \in Workers, Commit(w)
  PROVE  LInv'
  <1> DEFINE N == Len(events)
             log == Relabelled(w)
             m == live.missed \/ \E i \in 1 .. live.cursor : events[i].by = w
  <1>1. /\ UNCHANGED ended /\ work' = [work EXCEPT ![w] = IdleWork]
        /\ ~Advances(w) => row' = row
        /\ UpdateLog(log, [live EXCEPT !.missed = m])
        /\ work[w].step = "written"
    <2>1. UpdateLog(log, [live EXCEPT !.missed = m])
      BY Zenon DEF Commit, ShowEvent, Relabelled
    <2> QED
      BY <2>1 DEF Commit
  <1>2. /\ events \in Seq(Entries) /\ N \in Nat /\ OwnIn(events, work)
        /\ UniqueIn(events) /\ WroteIn(events, Writing) /\ IsLive(live)
        /\ live.cursor \in Nat /\ live.cursor <= N
    BY LogLen DEF LInv, GoodLog, IsLive
  <1>3. /\ log \in Seq(Entries) /\ Len(log) = N
        /\ \A i \in 1 .. N : /\ log[i].fact = events[i].fact
                             /\ log[i].by = IF events[i].by = w THEN "committed" ELSE events[i].by
    BY <1>2, RelabelledLog
  <1> HIDE DEF log
  <1>4. /\ Writing' = Writing \ {w} /\ Writing' \in SUBSET Workers
        /\ \A o \in Workers \ {w} : work'[o] = work[o]
    BY <1>1, WritingLeft
  <1>5. \A i \in 1 .. N : log[i].by \in Workers => log[i].by # w /\ events[i].by = log[i].by
    BY <1>3, BoundsAssumption
  <1>6. GoodLog(log, work', Writing')
    <2>1. OwnIn(log, work')
      BY <1>2, <1>3, <1>4, <1>5 DEF OwnIn
    <2>2. UniqueIn(log)
      BY <1>2, <1>3, <1>5 DEF UniqueIn
    <2>3. WroteIn(log, Writing')
      <3> SUFFICES ASSUME NEW o \in Writing'
                   PROVE  \E i \in 1 .. N : log[i].by = o
        BY <1>3 DEF WroteIn
      <3>1. PICK i \in 1 .. N : events[i].by = o
        BY <1>2, <1>4 DEF WroteIn
      <3>2. log[i].by = o
        BY <1>3, <1>4, <3>1
      <3> QED
        BY <3>2
    <2> QED
      BY <1>3, <2>1, <2>2, <2>3 DEF GoodLog
  <1>7. PICK b \in BOOLEAN : b = m
    <2>1. live.missed \in BOOLEAN
      BY <1>2, Zenon DEF IsLive
    <2> QED
      BY <2>1, Zenon
  <1>8. PICK next : next = [live EXCEPT !.missed = b]
    OBVIOUS
  <1>9. /\ next.step = live.step /\ next.cursor = live.cursor /\ next.shown = live.shown
        /\ IsLive(next)
    <2>1. /\ next.step = live.step /\ next.cursor = live.cursor
          /\ next.shown = live.shown
      BY <1>2, <1>8 DEF IsLive
    <2> QED
      BY <1>2, <1>8, <2>1 DEF IsLive
  <1>10. next.missed <=> m
    BY <1>2, <1>7, <1>8, Zenon DEF IsLive
  <1>11. UpdateLog(log, next)
    <2>1. next = [live EXCEPT !.missed = m]
      BY <1>7, <1>8, Zenon
    <2> QED
      BY <1>1, <2>1, Zenon
  <1> HIDE DEF m
  <1>12. /\ GoodLog(events', work', Writing') /\ IsLive(live')
         /\ live'.cursor <= Len(events') /\ live'.step = live.step
         /\ live'.shown = live.shown /\ live'.missed = next.missed
         /\ live.step # "off" /\ AheadIn(log, live.cursor)
              => AheadIn(events', live'.cursor)
    BY <1>2, <1>3, <1>4, <1>6, <1>9, <1>11, CutKeeps
  <1>13. Announced'
    <2> SUFFICES ASSUME live'.step = "waiting", ~m, Seen(live'.shown) # Seen(Projection)'
                 PROVE  AheadIn(log, live.cursor)
      BY <1>10, <1>12 DEF Announced
    <2>1. CASE row' = row
      <3>1. Seen(Projection)' = Seen(Projection)
        BY <1>1, <2>1, SameSeen
      <3>2. ~live.missed
        BY Zenon DEF m
      <3>3. AheadIn(events, live.cursor)
        BY <1>12, <3>1, <3>2 DEF LInv, Announced
      <3>4. PICK i \in 1 .. N : i > live.cursor /\ events[i].by = "committed"
        BY <3>3 DEF AheadIn
      <3>5. log[i].by = "committed"
        BY <1>3, <3>4
      <3> QED
        BY <1>3, <3>4, <3>5 DEF AheadIn
    <2>2. CASE row' # row
      <3>1. w \in Writing
        BY <1>1, <2>2 DEF Writing
      <3>2. PICK i \in 1 .. N : events[i].by = w
        BY <1>2, <3>1 DEF WroteIn
      <3>3. i \notin 1 .. live.cursor
        BY <3>2, Zenon DEF m
      <3>4. i > live.cursor
        BY <1>2, <3>3
      <3>5. log[i].by = "committed"
        BY <1>3, <3>2
      <3> QED
        BY <1>3, <3>4, <3>5 DEF AheadIn
    <2> QED
      BY <2>1, <2>2
  <1> QED
    BY <1>12, <1>13 DEF LInv

\* The log without its k-th event
Removed(log, k, out) ==
  /\ out \in Seq(Entries) /\ Len(out) = Len(log) - 1
  /\ \A j \in 1 .. Len(log) - 1 : out[j] = log[IF j < k THEN j ELSE j + 1]

LEMMA RemovedAt ==
  ASSUME NEW log \in Seq(Entries), NEW k \in 1 .. Len(log)
  PROVE  Removed(log, k, RemoveAt(log, k))
  <1> DEFINE N == Len(log)
             s == SubSeq(log, 1, k - 1)
             t == SubSeq(log, k + 1, N)
  <1>1. N \in Nat /\ k \in Nat /\ \A i \in 1 .. N : log[i] \in Entries
    BY LogLen
  <1>2. /\ s \in Seq(Entries) /\ Len(s) = k - 1
        /\ \A j \in 1 .. k - 1 : s[j] = log[j]
    <2>1. /\ s \in Seq(Entries)
          /\ Len(s) = IF 1 <= k - 1 THEN (k - 1) - 1 + 1 ELSE 0
          /\ \A j \in 1 .. (k - 1) - 1 + 1 : s[j] = log[1 + j - 1]
      BY <1>1, SubSeqProperties
    <2> HIDE DEF s
    <2>2. \A j \in 1 .. k - 1 : 1 + j - 1 = j /\ j \in 1 .. (k - 1) - 1 + 1
      BY <1>1
    <2> QED
      BY <1>1, <2>1, <2>2
  <1>3. /\ t \in Seq(Entries) /\ Len(t) = N - k
        /\ \A j \in 1 .. N - k : t[j] = log[k + j]
    <2>1. /\ t \in Seq(Entries)
          /\ Len(t) = IF k + 1 <= N THEN N - (k + 1) + 1 ELSE 0
          /\ \A j \in 1 .. N - (k + 1) + 1 : t[j] = log[(k + 1) + j - 1]
      BY <1>1, SubSeqProperties
    <2> HIDE DEF t
    <2>2. \A j \in 1 .. N - k : (k + 1) + j - 1 = k + j /\ j \in 1 .. N - (k + 1) + 1
      BY <1>1
    <2> QED
      BY <1>1, <2>1, <2>2
  <1>4. RemoveAt(log, k) = s \o t
    BY DEF RemoveAt
  <1> HIDE DEF s, t
  <1>5. /\ s \o t \in Seq(Entries) /\ Len(s \o t) = N - 1
        /\ \A j \in 1 .. N - 1 : (s \o t)[j] = IF j <= k - 1 THEN s[j] ELSE t[j - (k - 1)]
    <2>1. /\ s \o t \in Seq(Entries) /\ Len(s \o t) = Len(s) + Len(t)
          /\ \A j \in 1 .. Len(s) + Len(t) :
               (s \o t)[j] = IF j <= Len(s) THEN s[j] ELSE t[j - Len(s)]
      BY <1>2, <1>3, ConcatProperties
    <2>2. Len(s) + Len(t) = N - 1
      BY <1>1, <1>2, <1>3
    <2> QED
      BY <1>2, <2>1, <2>2
  <1>6. ASSUME NEW j \in 1 .. N - 1
        PROVE  (s \o t)[j] = log[IF j < k THEN j ELSE j + 1]
    <2>1. CASE j < k
      BY <1>1, <1>2, <1>5, <2>1
    <2>2. CASE ~(j < k)
      <3>1. j - (k - 1) \in 1 .. N - k /\ k + (j - (k - 1)) = j + 1 /\ ~(j <= k - 1)
        BY <1>1, <2>2
      <3> QED
        BY <1>3, <1>5, <2>2, <3>1
    <2> QED
      BY <2>1, <2>2
  <1> QED
    BY <1>4, <1>5, <1>6 DEF Removed

\* Undoing a handler takes its one event out of the log, if it has one.
LEMMA Undone ==
  ASSUME events \in Seq(Entries), UniqueIn(events), NEW w \in Workers
  PROVE  \/ /\ LogWithout(w) = events
            /\ \A i \in 1 .. Len(events) : events[i].by # w
         \/ \E k \in 1 .. Len(events) :
              /\ events[k].by = w /\ Removed(events, k, LogWithout(w))
              /\ \A i \in 1 .. Len(events) : events[i].by = w => i = k
  <1> DEFINE own == OwnEvent(w, Len(events))
             k == CHOOSE i \in own : TRUE
  <1>1. CASE own = {}
    BY <1>1 DEF LogWithout, OwnEvent
  <1>2. CASE own # {}
    <2>1. LogWithout(w) = RemoveAt(events, k)
      BY <1>2, Zenon DEF LogWithout
    <2>2. k \in own
      BY <1>2, Zenon
    <2> HIDE DEF k
    <2>3. k \in 1 .. Len(events) /\ events[k].by = w
      BY <2>2 DEF OwnEvent
    <2>4. Removed(events, k, LogWithout(w))
      BY <2>1, <2>3, RemovedAt
    <2> QED
      BY <2>3, <2>4 DEF UniqueIn
  <1> QED
    BY <1>1, <1>2

\* The log without a handler's event is a good log without that handler, and
\* the cursor that moves with it has the same events ahead.
LEMMA UndoneKeeps ==
  ASSUME LInv, NEW w \in Workers, NEW wk, NEW W \in SUBSET (Writing \ {w}),
         \A o \in Workers \ {w} : wk[o] = work[o],
         NEW c, c = IF OwnEvent(w, live.cursor) = {} THEN live.cursor ELSE live.cursor - 1
  PROVE  /\ GoodLog(LogWithout(w), wk, W)
         /\ c \in Nat /\ c <= Len(LogWithout(w))
         /\ AheadIn(events, live.cursor) => AheadIn(LogWithout(w), c)
  <1> DEFINE N == Len(events)
             d == live.cursor
             log == LogWithout(w)
  <1>1. /\ events \in Seq(Entries) /\ N \in Nat /\ OwnIn(events, work)
        /\ UniqueIn(events) /\ WroteIn(events, Writing)
        /\ d \in Nat /\ d <= N
    BY LogLen DEF LInv, GoodLog, IsLive
  <1>2. CASE log = events /\ \A i \in 1 .. N : events[i].by # w
    <2>1. c = d
      BY <1>1, <1>2 DEF OwnEvent
    <2>2. OwnIn(log, wk) /\ WroteIn(log, W)
      BY <1>1, <1>2 DEF OwnIn, WroteIn
    <2> QED
      BY <1>1, <1>2, <2>1, <2>2 DEF GoodLog
  <1>3. ASSUME NEW k \in 1 .. N, events[k].by = w, Removed(events, k, log),
               \A i \in 1 .. N : events[i].by = w => i = k
        PROVE  /\ GoodLog(log, wk, W) /\ c \in Nat /\ c <= Len(log)
               /\ AheadIn(events, d) => AheadIn(log, c)
    <2> HIDE DEF log, N, d
    <2> DEFINE g(j) == IF j < k THEN j ELSE j + 1
    <2>0. k \in Nat /\ 1 <= k /\ k <= N
      BY <1>1
    <2>1. log \in Seq(Entries) /\ Len(log) = N - 1
      BY <1>3 DEF Removed, N
    <2>2. \A j \in 1 .. N - 1 : g(j) \in 1 .. N /\ g(j) # k /\ log[j] = events[g(j)]
      BY <1>1, <1>3, <2>0 DEF Removed, N
    <2>3. \A i, j \in 1 .. N - 1 : g(i) = g(j) => i = j
      BY <1>1, <2>0
    <2>4. \A i \in 1 .. N : i # k => \E j \in 1 .. N - 1 : g(j) = i
      <3> SUFFICES ASSUME NEW i \in 1 .. N, i # k
                   PROVE  \E j \in 1 .. N - 1 : g(j) = i
        OBVIOUS
      <3>1. CASE i < k
        <4>1. i \in 1 .. N - 1 /\ g(i) = i
          BY <1>1, <2>0, <3>1
        <4> QED
          BY <4>1, Zenon
      <3>2. CASE i > k
        <4>1. i - 1 \in 1 .. N - 1 /\ g(i - 1) = i
          BY <1>1, <2>0, <3>2
        <4> QED
          BY <4>1, Zenon
      <3> QED
        BY <1>1, <2>0, <3>1, <3>2
    <2>5. c = IF k <= d THEN d - 1 ELSE d
      <3>1. CASE k <= d
        <4>1. k \in OwnEvent(w, live.cursor)
          BY <1>1, <1>3, <2>0, <3>1 DEF OwnEvent, d
        <4> QED
          BY <3>1, <4>1 DEF d
      <3>2. CASE ~(k <= d)
        <4>1. OwnEvent(w, live.cursor) = {}
          BY <1>1, <1>3, <2>0, <3>2 DEF OwnEvent, N, d
        <4> QED
          BY <3>2, <4>1 DEF d
      <3> QED
        BY <3>1, <3>2
    <2>6. c \in Nat /\ c <= N - 1
      BY <1>1, <2>0, <2>5
    <2>7. OwnIn(log, wk)
      <3> SUFFICES ASSUME NEW j \in 1 .. N - 1, NEW o \in Workers, log[j].by = o
                   PROVE  wk[o].step = "written" /\ log[j].fact = wk[o].fact
        BY <2>1 DEF OwnIn
      <3>1. PICK i \in 1 .. N : i # k /\ log[j] = events[i]
        <4> HIDE DEF g
        <4> QED
          BY <2>2
      <3>2. o # w
        BY <1>3, <3>1 DEF N
      <3> QED
        BY <1>1, <3>1, <3>2 DEF OwnIn, N
    <2>8. UniqueIn(log)
      <3> SUFFICES ASSUME NEW i \in 1 .. N - 1, NEW j \in 1 .. N - 1,
                          log[i].by \in Workers, log[i].by = log[j].by
                   PROVE  i = j
        BY <2>1 DEF UniqueIn
      <3>1. g(i) = g(j)
        <4> HIDE DEF g
        <4> QED
          BY <1>1, <2>2 DEF UniqueIn, N
      <3> QED
        BY <2>3, <3>1
    <2>9. WroteIn(log, W)
      <3> SUFFICES ASSUME NEW o \in W
                   PROVE  \E j \in 1 .. N - 1 : log[j].by = o
        BY <2>1 DEF WroteIn
      <3>1. PICK i \in 1 .. N : events[i].by = o
        BY <1>1 DEF WroteIn, N
      <3>2. i # k
        BY <1>3, <3>1
      <3>3. PICK j \in 1 .. N - 1 : g(j) = i
        BY <2>4, <3>2
      <3> HIDE DEF g
      <3> QED
        BY <2>2, <3>1, <3>3
    <2>10. AheadIn(events, d) => AheadIn(log, c)
      <3> SUFFICES ASSUME AheadIn(events, d)
                   PROVE  AheadIn(log, c)
        OBVIOUS
      <3>1. PICK i \in 1 .. N : i > d /\ events[i].by = "committed"
        BY DEF AheadIn, N
      <3>2. i # k
        BY <1>3, <3>1, BoundsAssumption
      <3>3. PICK j \in 1 .. N - 1 : g(j) = i
        BY <2>4, <3>2
      <3>4. j > c
        BY <1>1, <2>0, <2>5, <3>1, <3>2, <3>3
      <3>5. log[j].by = "committed"
        <4> HIDE DEF g
        <4> QED
          BY <2>2, <3>1, <3>3
      <3> QED
        BY <2>1, <3>4, <3>5 DEF AheadIn
    <2> QED
      BY <2>1, <2>6, <2>7, <2>8, <2>9, <2>10 DEF GoodLog
  <1> QED
    BY <1>1, <1>2, <1>3, Undone

LEMMA RollbackLog ==
  ASSUME WInv, LInv, NEW w \in Workers, Rollback(w)
  PROVE  LInv'
  <1> DEFINE c == IF OwnEvent(w, live.cursor) = {} THEN live.cursor ELSE live.cursor - 1
             log == LogWithout(w)
  <1>1. /\ UNCHANGED <<row, ended>> /\ work' = [work EXCEPT ![w] = IdleWork]
        /\ UpdateLog(log, [live EXCEPT !.cursor = c])
    BY DEF Rollback
  <1>2. /\ Writing' = Writing \ {w} /\ Writing' \in SUBSET Workers
        /\ \A o \in Workers \ {w} : work'[o] = work[o]
    BY <1>1, WritingLeft
  <1>3. /\ GoodLog(log, work', Writing') /\ c \in Nat /\ c <= Len(log)
        /\ AheadIn(events, live.cursor) => AheadIn(log, c)
    BY <1>2, UndoneKeeps
  <1>4. PICK next : next = [live EXCEPT !.cursor = c]
    OBVIOUS
  <1>5. IsLive(live)
    BY DEF LInv
  <1>6. UpdateLog(log, next)
    BY <1>1, <1>4, Zenon
  <1> HIDE DEF c, log
  <1>7. /\ next.step = live.step /\ next.cursor = c /\ next.shown = live.shown
        /\ IsLive(next) /\ next.missed = live.missed
    <2>1. next.step = live.step /\ next.cursor = c /\ next.shown = live.shown
      BY <1>3, <1>4, <1>5 DEF IsLive
    <2>2. next.missed = live.missed
      BY <1>4, <1>5, Zenon DEF IsLive
    <2> QED
      BY <1>3, <1>4, <1>5, <2>1, <2>2 DEF IsLive
  <1>8. /\ GoodLog(events', work', Writing') /\ IsLive(live')
        /\ live'.cursor <= Len(events') /\ live'.step = live.step
        /\ live'.shown = live.shown /\ live'.missed = live.missed
        /\ live.step # "off" /\ AheadIn(log, c) => AheadIn(events', live'.cursor)
    BY <1>2, <1>3, <1>6, <1>7, CutKeeps
  <1>9. Announced'
    BY <1>1, <1>3, <1>8, SameSeen DEF LInv, Announced
  <1> QED
    BY <1>8, <1>9 DEF LInv

LEMMA DeliverLog ==
  ASSUME WInv, LInv, NEW w \in Workers, NEW f \in Facts, NEW v \in Contents[f.stream][f.seq],
         Deliver(w, f, v)
  PROVE  LInv'
  <1> DEFINE q == [IdleWork EXCEPT !.step = "checked", !.fact = f, !.value = v]
  <1>1. q.step = "checked"
    BY EnvelopeValue, Delivered
  <1>2. work' = [work EXCEPT ![w] = q] /\ work[w].step = "idle"
    BY DEF Deliver
  <1> HIDE DEF q
  <1>3. work'[w] = q /\ \A o \in Workers \ {w} : work'[o] = work[o]
    BY <1>2 DEF WInv, WorkTypes
  <1>4. UNCHANGED <<events, live, row, ended>>
    BY DEF Deliver
  <1> QED
    BY <1>1, <1>2, <1>3, <1>4, LogStays

LEMMA ReadRowLog ==
  ASSUME WInv, LInv, NEW w \in Workers, ReadRow(w)
  PROVE  LInv'
  <1>1. /\ work[w].step = "checked" /\ work'[w].step = "read"
        /\ \A o \in Workers \ {w} : work'[o] = work[o]
    BY DEF ReadRow, WInv, WorkTypes, Work
  <1>2. UNCHANGED <<events, live, row, ended>>
    BY DEF ReadRow
  <1> QED
    BY <1>1, <1>2, LogStays

LEMMA LogKeeps ==
  ASSUME WInv, LInv, [Next]_vars
  PROVE  LInv'
  <1>1. CASE UNCHANGED vars
    BY <1>1, LogSame DEF vars
  <1>2. CASE OutageEnds
    BY <1>2, LogSame DEF OutageEnds
  <1>3. CASE \E s \in Ageing : Age(s)
    BY <1>3, LogSame DEF Age
  <1>4. ASSUME NEW w \in Workers, HandlerSteps(w)
        PROVE  LInv'
    BY <1>4, DeliverLog, ReadRowLog, WriteRowLog, CommitLog, RollbackLog DEF HandlerSteps
  <1> QED
    BY <1>1, <1>2, <1>3, <1>4, Steps, EndSessionLog, StreamKeeps

LEMMA LogStarts ==
  ASSUME Init
  PROVE  LInv
  <1>1. /\ events = <<>> /\ live.step = "off" /\ live.cursor = 0 /\ IsLive(live)
    <2>1. live = [step |-> "off", cursor |-> 0, shown |-> None, missed |-> FALSE]
      BY DEF Init
    <2>2. live.step = "off" /\ live.cursor = 0 /\ live.shown = None
      BY <2>1
    <2> QED
      BY <2>1, <2>2 DEF Init, IsLive
  <1>2. events \in Seq(Entries) /\ Len(events) = 0
    BY <1>1, EmptySeq
  <1>3. Writing = {}
    <2>1. \A w \in Workers : work[w].step = "idle"
      BY DEF Init, IdleWork
    <2> QED
      BY <2>1 DEF Writing
  <1> QED
    BY <1>1, <1>2, <1>3 DEF LInv, GoodLog, OwnIn, UniqueIn, WroteIn, Announced

-----------------------------------------------------------------------------
(* Whatever changed since it was shown, an event ahead of the cursor tells. *)

IInv == WInv /\ LInv

LEMMA Invariant == Spec => []IInv
  <1>1. Init => IInv
    BY WorkersStart, LogStarts DEF IInv
  <1>2. IInv /\ [Next]_vars => IInv'
    BY WorkersKeep, LogKeeps DEF IInv
  <1> QED
    BY <1>1, <1>2, PTL DEF Spec

\* The types and the announcement, of a state of the invariant
LEMMA TypesHold ==
  ASSUME IInv
  PROVE  TypeOK
  <1>1. \A s \in Streams : Len(Contents[s]) \in Nat
    BY BoundsAssumption, LenProperties
  <1>2. \A s \in Streams :
          /\ row[s] \in [seq : 0 .. Len(Contents[s]), value : Values[s] \cup {None}]
          /\ aged[s] \in 0 .. Len(Contents[s])
    <2> SUFFICES ASSUME NEW s \in Streams
                 PROVE  /\ row[s] \in [seq : 0 .. Len(Contents[s]), value : Values[s] \cup {None}]
                        /\ aged[s] \in 0 .. Len(Contents[s])
      OBVIOUS
    <2>1. row[s] \in [seq : Nat, value : AllValues \cup {None}]
      BY DEF IInv, WInv, RowTypes
    <2>2. /\ row[s].seq <= Len(Contents[s]) /\ aged[s] <= Len(Contents[s])
          /\ row[s].value \in Values[s] \cup {None} /\ aged[s] \in Nat
      BY DEF IInv, WInv, RowTypes
    <2> QED
      BY <1>1, <2>1, <2>2
  <1>3. /\ DOMAIN receipt \subseteq Facts
        /\ \A f \in DOMAIN receipt : receipt[f] \in Values[f.stream]
        /\ ended \in BOOLEAN /\ outage \in BOOLEAN
    BY Zenon DEF IInv, WInv, RowTypes
  <1>4. work \in [Workers -> Work]
    BY DEF IInv, WInv, WorkTypes
  <1>5. /\ events \in Seq(Entries) /\ live.step \in {"off", "load", "waiting"}
        /\ live.cursor \in 0 .. Len(events)
    BY LogLen DEF IInv, LInv, GoodLog, IsLive
  <1> QED
    BY <1>2, <1>3, <1>4, <1>5, Zenon DEF TypeOK, Work, Entries, Writers

\* In every reachable state a stream that shows something else than the rows
\* say has a committed event ahead of its cursor, or knows that one was
\* committed behind it (cpo/router.go:1570-1573).
THEOREM AnnouncedAlways == Spec => []ChangeIsAnnounced
  <1>1. IInv => ChangeIsAnnounced
    <2> SUFFICES ASSUME IInv
                 PROVE  ChangeIsAnnounced
      OBVIOUS
    <2>1. TypeOK
      BY TypesHold
    <2>2. AheadIn(events, live.cursor) => CommittedAfter(live.cursor) # {}
      <3> SUFFICES ASSUME AheadIn(events, live.cursor)
                   PROVE  CommittedAfter(live.cursor) # {}
        OBVIOUS
      <3>1. PICK i \in 1 .. Len(events) : i > live.cursor /\ events[i].by = "committed"
        BY DEF AheadIn
      <3>2. Len(events) \in Nat /\ live.cursor \in Nat
        BY LogLen DEF IInv, LInv, GoodLog, IsLive
      <3>3. i \in CommittedAfter(live.cursor)
        BY <3>1, <3>2 DEF CommittedAfter
      <3> QED
        BY <3>3
    <2> QED
      BY <2>1, <2>2 DEF IInv, LInv, Announced, ChangeIsAnnounced
  <1> QED
    BY <1>1, Invariant, PTL

-----------------------------------------------------------------------------
(* Each fact takes effect once and in turn. *)

\* The committed events of a fact in a log
Committed(log, f) == {i \in 1 .. Len(log) : log[i] = [fact |-> f, by |-> "committed"]}

LEMMA CommittedFinite ==
  ASSUME NEW log \in Seq(Entries), NEW f
  PROVE  IsFiniteSet(Committed(log, f)) /\ Cardinality(Committed(log, f)) \in Nat
  <1>1. Len(log) \in Nat /\ Committed(log, f) \in SUBSET (1 .. Len(log))
    BY LogLen DEF Committed
  <1>2. IsFiniteSet(1 .. Len(log))
    BY <1>1, FS_Interval
  <1> QED
    BY <1>1, <1>2, FS_Subset, FS_CardinalityType

\* A log whose events are among those of another one has no more of a fact.
LEMMA Fewer ==
  ASSUME NEW a \in Seq(Entries), NEW b \in Seq(Entries), NEW f,
         NEW g \in [1 .. Len(b) -> 1 .. Len(a)],
         \A i \in 1 .. Len(b) : b[i] = a[g[i]],
         \A i, j \in 1 .. Len(b) : g[i] = g[j] => i = j
  PROVE  Cardinality(Committed(b, f)) <= Cardinality(Committed(a, f))
  <1> DEFINE S == Committed(b, f)
             T == Committed(a, f)
             h == [i \in S |-> g[i]]
  <1>1. IsFiniteSet(T)
    BY CommittedFinite
  <1>2. \A i \in S : i \in 1 .. Len(b) /\ g[i] \in T
    BY DEF Committed
  <1> HIDE DEF S, T
  <1>3. h \in Injection(S, T)
    <2>1. h \in [S -> T]
      BY <1>2
    <2>2. \A i, j \in S : h[i] = h[j] => i = j
      BY <1>2
    <2> QED
      BY <2>1, <2>2 DEF Injection, IsInjective
  <1> QED
    BY <1>1, <1>3, FS_Injection DEF S, T

LEMMA SubFewer ==
  ASSUME NEW a \in Seq(Entries), NEW b \in Seq(Entries), NEW f,
         Committed(b, f) \subseteq Committed(a, f)
  PROVE  Cardinality(Committed(b, f)) <= Cardinality(Committed(a, f))
  BY CommittedFinite, FS_Subset

\* Trimming the log takes events away, and adds none.
LEMMA CutFewer ==
  ASSUME NEW log \in Seq(Entries), NEW next, next.cursor \in 0 .. Len(log),
         UpdateLog(log, next), NEW f
  PROVE  /\ events' \in Seq(Entries)
         /\ Cardinality(Committed(events', f)) <= Cardinality(Committed(log, f))
  <1>1. PICK n \in 0 .. Len(log) : CutAt(log, next, n)
    BY Cut
  <1>2. /\ Len(log) \in Nat /\ events' \in Seq(Entries) /\ Len(events') = Len(log) - n
        /\ \A i \in 1 .. Len(log) - n : events'[i] = log[i + n]
    BY <1>1, LogLen DEF CutAt
  <1> DEFINE g == [i \in 1 .. Len(log) - n |-> i + n]
  <1>3. /\ g \in [1 .. Len(events') -> 1 .. Len(log)]
        /\ \A i \in 1 .. Len(events') : events'[i] = log[g[i]]
        /\ \A i, j \in 1 .. Len(events') : g[i] = g[j] => i = j
    BY <1>2
  <1> HIDE DEF g
  <1> QED
    BY <1>2, <1>3, Fewer

LEMMA LessStill ==
  ASSUME events \in Seq(Entries), NEW log \in Seq(Entries), NEW next,
         next.cursor \in 0 .. Len(log), UpdateLog(log, next), NEW f,
         Cardinality(Committed(log, f)) <= Cardinality(Committed(events, f))
  PROVE  Cardinality(Committed(events', f)) <= Cardinality(Committed(events, f))
  <1>1. /\ events' \in Seq(Entries)
        /\ Cardinality(Committed(events', f)) <= Cardinality(Committed(log, f))
    BY CutFewer
  <1> QED
    BY <1>1, CommittedFinite

LEMMA RemovedFewer ==
  ASSUME NEW log \in Seq(Entries), NEW k \in 1 .. Len(log), NEW out,
         Removed(log, k, out), NEW f
  PROVE  Cardinality(Committed(out, f)) <= Cardinality(Committed(log, f))
  <1> DEFINE g == [j \in 1 .. Len(log) - 1 |-> IF j < k THEN j ELSE j + 1]
  <1>1. /\ Len(log) \in Nat /\ k \in Nat /\ out \in Seq(Entries)
        /\ Len(out) = Len(log) - 1
        /\ \A j \in 1 .. Len(log) - 1 : out[j] = log[IF j < k THEN j ELSE j + 1]
    BY LogLen DEF Removed
  <1>2. g \in [1 .. Len(out) -> 1 .. Len(log)]
    BY <1>1
  <1>3. \A j \in 1 .. Len(out) : out[j] = log[g[j]]
    BY <1>1
  <1>4. \A i, j \in 1 .. Len(out) : g[i] = g[j] => i = j
    BY <1>1
  <1> HIDE DEF g
  <1> QED
    BY <1>1, <1>2, <1>3, <1>4, Fewer

\* What a step does to the facts that were accepted, and to the rows
Accepted(f) ==
  receipt'[f] = receipt[f] /\
  Cardinality(Committed(events', f)) <= Cardinality(Committed(events, f))
Ordered ==
  /\ \A s \in Streams : row'[s] # row[s] =>
       receipt'[[stream |-> s, seq |-> row'[s].seq]] = row'[s].value
  /\ \A s \in {"meter", "soc"} : row'[s].seq >= row[s].seq
  /\ ended => row'["meter"] = row["meter"]

LEMMA RowsStay ==
  ASSUME IInv, UNCHANGED row
  PROVE  Ordered
  <1>1. \A s \in {"meter", "soc"} : row[s].seq \in Nat
    BY DEF IInv, WInv, RowTypes, Streams
  <1> QED
    BY <1>1 DEF Ordered

\* A fact is not committed again by a handler that adds, undoes or commits an
\* event of another one.
LEMMA FactSteps ==
  ASSUME IInv, [Next]_vars, NEW f \in DOMAIN receipt
  PROVE  Accepted(f)
  <1>0. /\ events \in Seq(Entries) /\ Len(events) \in Nat /\ f \in Facts
        /\ live.cursor \in 0 .. Len(events) /\ f # NoFact
        /\ Cardinality(Committed(events, f)) <= Cardinality(Committed(events, f))
    <2>1. events \in Seq(Entries) /\ f \in Facts
      BY DEF IInv, LInv, GoodLog, WInv, RowTypes
    <2>2. Len(events) \in Nat /\ live.cursor \in 0 .. Len(events)
      BY <2>1, LogLen DEF IInv, LInv, IsLive
    <2>3. Cardinality(Committed(events, f)) \in Nat
      BY <2>1, CommittedFinite
    <2> QED
      BY <2>1, <2>2, <2>3, FactShape
  <1>1. CASE UNCHANGED <<events, receipt>>
    BY <1>0, <1>1 DEF Accepted
  <1>2. CASE EndSession
    <2> DEFINE e == [fact |-> NoFact, by |-> "committed"]
               log == Append(events, e)
    <2>1. UpdateLog(log, live) /\ receipt' = receipt
      BY <1>2 DEF EndSession
    <2>2. e \in Entries /\ e # [fact |-> f, by |-> "committed"]
      BY <1>0 DEF Entries, Writers
    <2> HIDE DEF e
    <2>3. /\ log \in Seq(Entries) /\ Len(log) = Len(events) + 1
          /\ log[Len(events) + 1] = e
          /\ \A i \in 1 .. Len(events) : log[i] = events[i]
      BY <1>0, <2>2, Appended
    <2> HIDE DEF log
    <2>4. Committed(log, f) \subseteq Committed(events, f)
      BY <1>0, <2>2, <2>3 DEF Committed
    <2>5. Cardinality(Committed(log, f)) <= Cardinality(Committed(events, f))
      BY <1>0, <2>3, <2>4, SubFewer
    <2> QED
      BY <1>0, <2>1, <2>3, <2>5, LessStill DEF Accepted
  <1>3. CASE Open \/ Poll \/ Disconnect
    <2>1. PICK next : next.cursor \in 0 .. Len(events) /\ UpdateLog(events, next)
      <3>1. PICK next : /\ IsLive(next) /\ next.cursor <= Len(events)
                        /\ UpdateLog(events, next)
        BY <1>3, StreamTrims DEF IInv
      <3>2. next.cursor \in 0 .. Len(events)
        BY <1>0, <3>1 DEF IsLive
      <3> QED
        BY <3>1, <3>2
    <2>2. receipt' = receipt
      BY <1>3 DEF Open, Poll, Disconnect
    <2> QED
      BY <1>0, <2>1, <2>2, CutFewer DEF Accepted
  <1>4. ASSUME NEW w \in Workers, WriteRow(w)
        PROVE  Accepted(f)
    <2> DEFINE e == [fact |-> work[w].fact, by |-> w]
    <2>1. receipt' = receipt /\ events' \in {events, Append(events, e)}
      BY <1>4 DEF WriteRow
    <2>2. CASE events' = Append(events, e)
      <3>1. work[w].fact \in Facts
        BY <1>4 DEF WriteRow, IInv, WInv, WorkTypes
      <3>2. e \in Entries /\ e # [fact |-> f, by |-> "committed"]
        <4>1. w # "committed"
          BY BoundsAssumption
        <4> QED
          BY <3>1, <4>1 DEF Entries, Writers
      <3> HIDE DEF e
      <3>3. /\ events' \in Seq(Entries) /\ Len(events') = Len(events) + 1
            /\ events'[Len(events) + 1] = e
            /\ \A i \in 1 .. Len(events) : events'[i] = events[i]
        BY <1>0, <2>2, <3>2, Appended
      <3>4. Committed(events', f) \subseteq Committed(events, f)
        BY <1>0, <3>2, <3>3 DEF Committed
      <3> QED
        BY <1>0, <2>1, <3>3, <3>4, SubFewer DEF Accepted
    <2> QED
      BY <1>1, <2>1, <2>2
  <1>5. ASSUME NEW w \in Workers, Commit(w)
        PROVE  Accepted(f)
    <2> DEFINE log == Relabelled(w)
               next == [live EXCEPT !.missed = live.missed
                          \/ \E i \in 1 .. live.cursor : events[i].by = w]
    <2>1. /\ receipt'[f] = receipt[f] /\ f # work[w].fact
      BY <1>5 DEF Commit
    <2>2. UpdateLog(log, next)
      BY <1>5, Zenon DEF Commit, ShowEvent, Relabelled
    <2>3. /\ log \in Seq(Entries) /\ Len(log) = Len(events)
          /\ \A i \in 1 .. Len(events) :
               /\ log[i].fact = events[i].fact
               /\ events[i].by # w => log[i] = events[i]
      BY <1>0, RelabelledLog
    <2>4. next.cursor \in 0 .. Len(log)
      <3>1. next.cursor = live.cursor
        BY Zenon DEF IInv, LInv, IsLive
      <3> QED
        BY <1>0, <2>3, <3>1
    <2> HIDE DEF log, next
    <2>5. Committed(log, f) \subseteq Committed(events, f)
      <3> SUFFICES ASSUME NEW i \in 1 .. Len(events),
                          log[i] = [fact |-> f, by |-> "committed"]
                   PROVE  events[i] = [fact |-> f, by |-> "committed"]
        BY <2>3 DEF Committed
      <3>1. events[i].fact = f
        BY <2>3
      <3>2. events[i].by # w
        BY <2>1, <3>1 DEF IInv, LInv, GoodLog, OwnIn
      <3> QED
        BY <2>3, <3>2
    <2>6. Cardinality(Committed(log, f)) <= Cardinality(Committed(events, f))
      BY <1>0, <2>3, <2>5, SubFewer
    <2> QED
      BY <1>0, <2>1, <2>2, <2>3, <2>4, <2>6, LessStill DEF Accepted
  <1>6. ASSUME NEW w \in Workers, Rollback(w)
        PROVE  Accepted(f)
    <2> DEFINE log == LogWithout(w)
               c == IF OwnEvent(w, live.cursor) = {} THEN live.cursor ELSE live.cursor - 1
               next == [live EXCEPT !.cursor = c]
    <2>1. receipt' = receipt /\ UpdateLog(log, next)
      BY <1>6 DEF Rollback
    <2>2. log \in Seq(Entries) /\ next.cursor \in 0 .. Len(log)
      <3>1. log \in Seq(Entries) /\ c \in Nat /\ c <= Len(log)
        <4>1. \A o \in Workers \ {w} : work[o] = work[o]
          OBVIOUS
        <4> QED
          BY <4>1, UndoneKeeps DEF IInv, GoodLog
      <3>2. next.cursor = c
        <4> HIDE DEF c
        <4> QED
          BY Zenon DEF IInv, LInv, IsLive
      <3> QED
        BY <3>1, <3>2, LogLen
    <2>3. Cardinality(Committed(log, f)) <= Cardinality(Committed(events, f))
      <3>1. UniqueIn(events)
        BY DEF IInv, LInv, GoodLog
      <3> QED
        BY <1>0, <3>1, Undone, RemovedFewer
    <2> HIDE DEF log, next
    <2> QED
      BY <1>0, <2>1, <2>2, <2>3, LessStill DEF Accepted
  <1>7. CASE \E w \in Workers : HandlerSteps(w)
    <2>1. PICK w \in Workers : HandlerSteps(w)
      BY <1>7
    <2>2. CASE (\E g \in Facts : \E v \in Contents[g.stream][g.seq] : Deliver(w, g, v))
               \/ ReadRow(w)
      BY <1>1, <2>2 DEF Deliver, ReadRow
    <2> QED
      BY <1>4, <1>5, <1>6, <2>1, <2>2 DEF HandlerSteps
  <1>8. CASE UNCHANGED vars \/ OutageEnds \/ Show \/ Heartbeat \/ \E s \in Ageing : Age(s)
    BY <1>1, <1>8 DEF vars, OutageEnds, Show, Heartbeat, Age
  <1> QED
    BY <1>2, <1>3, <1>7, <1>8, Steps DEF StreamSteps

\* Only a commit changes a row, to a newer one, and holds its lock.
LEMMA RowSteps ==
  ASSUME IInv, [Next]_vars
  PROVE  Ordered
  <1>1. CASE UNCHANGED row
    BY <1>1, RowsStay
  <1>2. ASSUME NEW w \in Workers, Commit(w), row' # row
        PROVE  Ordered
    <2> DEFINE f == work[w].fact
               s == f.stream
               r == [seq |-> f.seq, value |-> work[w].value]
    <2>1. /\ Advances(w) /\ row' = [row EXCEPT ![s] = r]
          /\ receipt' = [g \in DOMAIN receipt \cup {f} |->
                           IF g = f THEN work[w].value ELSE receipt[g]]
      BY <1>2 DEF Commit
    <2>2. /\ f \in Facts /\ s \in Streams /\ f.seq \in Nat
          /\ f = [stream |-> s, seq |-> f.seq]
      BY <1>2, FactShape DEF Commit, IInv, WInv, WorkTypes
    <2>3. row \in [Streams -> [seq : Nat, value : AllValues \cup {None}]]
      BY DEF IInv, WInv, RowTypes
    <2>4. row'[s] = r /\ \A t \in Streams \ {s} : row'[t] = row[t]
      BY <2>1, <2>2, <2>3
    <2>5. receipt'[f] = work[w].value
      BY <2>1
    <2>6. ReadsLocked(s) => /\ work[w].seen = row[s].seq
                            /\ work[w].ended = ended
      <3>1. HoldsLock(w)
        BY <1>2, <2>1 DEF HoldsLock, Commit
      <3> QED
        BY <3>1 DEF IInv, WInv, KnowsTheSession
    <2>7. \A t \in {"meter", "soc"} : t \in Streams /\ ReadsLocked(t)
      BY DEF Streams, ReadsLocked, RowOf
    <2>8. r.seq = f.seq /\ r.value = work[w].value
      OBVIOUS
    <2> HIDE DEF r
    <2>9. \A t \in Streams : row'[t] # row[t] =>
            receipt'[[stream |-> t, seq |-> row'[t].seq]] = row'[t].value
      BY <2>2, <2>4, <2>5, <2>8
    <2>10. ASSUME NEW t \in {"meter", "soc"}
           PROVE  row'[t].seq >= row[t].seq
      <3>1. row[t].seq \in Nat
        BY <2>3, <2>7
      <3>2. CASE t = s
        BY <2>1, <2>2, <2>4, <2>6, <2>7, <2>8, <3>1, <3>2 DEF Advances
      <3>3. CASE t # s
        BY <2>4, <2>7, <3>1, <3>3
      <3> QED
        BY <3>2, <3>3
    <2>11. ASSUME ended
           PROVE  row'["meter"] = row["meter"]
      <3>1. s # "meter"
        BY <2>1, <2>6, <2>7, <2>11 DEF Advances
      <3> QED
        BY <2>4, <2>7, <3>1
    <2> QED
      BY <2>9, <2>10, <2>11 DEF Ordered
  <1>3. UNCHANGED row \/ \E w \in Workers : Commit(w)
    <2>1. ASSUME NEW w \in Workers, HandlerSteps(w)
          PROVE  UNCHANGED row \/ Commit(w)
      BY <2>1 DEF HandlerSteps, Deliver, ReadRow, WriteRow, Rollback
    <2>2. StreamSteps => UNCHANGED row
      BY DEF StreamSteps, Open, Show, Poll, Heartbeat, Disconnect
    <2> QED
      BY <2>1, <2>2, Steps DEF vars, EndSession, OutageEnds, Age
  <1> QED
    BY <1>1, <1>2, <1>3

\* In every step of every behaviour a fact with a receipt keeps its content and
\* commits no further event, a changed row holds an accepted content, and a
\* session's readings neither go back nor move its meter after the end
\* (halops/facts.go:71-73, charging_facts.go:454-464, 488-502).
THEOREM OnceAndInTurn == Spec => FactsTakeEffectOnce
  <1> DEFINE A == /\ \A f \in DOMAIN receipt :
                       /\ receipt'[f] = receipt[f]
                       /\ Cardinality(CommittedOf(f)') <= Cardinality(CommittedOf(f))
                  /\ \A s \in Streams : row'[s] # row[s] =>
                       receipt'[[stream |-> s, seq |-> row'[s].seq]] = row'[s].value
                  /\ \A s \in {"meter", "soc"} : row'[s].seq >= row[s].seq
                  /\ ended => row'["meter"] = row["meter"]
  <1>1. IInv /\ IInv' /\ [Next]_vars => [A]_vars
    <2> SUFFICES ASSUME IInv, IInv', [Next]_vars
                 PROVE  A
      OBVIOUS
    <2>1. /\ DOMAIN events = 1 .. Len(events) /\ DOMAIN events' = 1 .. Len(events')
      <3>1. events \in Seq(Entries) /\ events' \in Seq(Entries)
        BY DEF IInv, LInv, GoodLog
      <3> QED
        BY <3>1, LogLen
    <2>2. \A f : CommittedOf(f) = Committed(events, f) /\ CommittedOf(f)' = Committed(events', f)
      BY <2>1 DEF CommittedOf, Committed
    <2>3. \A f \in DOMAIN receipt : Accepted(f)
      BY FactSteps
    <2>4. Ordered
      BY RowSteps
    <2> QED
      BY <2>2, <2>3, <2>4 DEF Accepted, Ordered
  <1> QED
    BY <1>1, Invariant, PTL DEF Spec, FactsTakeEffectOnce
=============================================================================
