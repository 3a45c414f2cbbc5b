---------------------- MODULE ChargerOperations_proofs ----------------------
(***************************************************************************)
(* Theorems about ChargerOperations, for any number of workers and         *)
(* handlers and any lengths of the lease and the delays for which the      *)
(* retry delay covers a call and its life on the network; and about the    *)
(* other commands to chargers, SessionStop's.                              *)
(***************************************************************************)
EXTENDS ChargerOperations, SessionStop, TLAPS

LEMMA ConstantTypes ==
  /\ Lease \in Nat /\ CallTimeout \in Nat /\ RetryDelay \in Nat /\ Transit \in Nat
  /\ Lease > 0 /\ CallTimeout > 0 /\ RetryDelay > 0 /\ Transit > 0
  /\ CallTimeout + Transit <= RetryDelay
  /\ NoActor \notin Actors
  BY OperationAssumption

LEMMA InitInv ==
  ASSUME Init
  PROVE  IInv
  <1> USE DEF Init
  <1>0. /\ 0 \in 0 .. CallTimeout /\ 0 \in 0 .. CallTimeout + Transit
        /\ 0 \in 0 .. RetryDelay
    BY ConstantTypes
  <1>1. TypeOK
    BY <1>0 DEF TypeOK, Steps, Results
  <1>2. DispatchCheck /\ OneSend /\ AbsenceIsFinal
    BY DEF DispatchCheck, OneSend, AbsenceIsFinal
  <1>3. Delivery /\ Grace /\ Lookups
    BY DEF Delivery, Delivering, Grace, Lookups
  <1> QED
    BY <1>1, <1>2, <1>3 DEF IInv

-----------------------------------------------------------------------------
\* A step of an actor that touches neither the row nor the network keeps the
\* invariant if it does not set out to send, looks up only what is quiet, and
\* reports an absence only while it is so.
LEMMA ActorStep ==
  ASSUME IInv, NEW a \in Actors, NEW step \in Steps, NEW r \in Results,
         NEW n \in 0 .. CallTimeout, NEW t \in 0 .. RetryDelay,
         at' = [at EXCEPT ![a] = step],
         result' = [result EXCEPT ![a] = r],
         budget' = [budget EXCEPT ![a] = n],
         schedule' = [schedule EXCEPT ![a] = t],
         UNCHANGED <<rowVars, wireVars, hal>>,
         step # "marked" /\ step # "sent",
         step = "answered" => at[a] \in Delivering /\ t = RetryDelay,
         step \in {"reserved", "read"} => Quiet,
         step \in {"answered", "read"} => r # "none",
         r = "absent" => step = "read" /\ hal = "none"
  PROVE  IInv'
  <1> USE DEF IInv, rowVars, wireVars, TypeOK
  <1>1. TypeOK'
    OBVIOUS
  <1>2. DispatchCheck' /\ OneSend' /\ AbsenceIsFinal'
    BY DEF DispatchCheck, OneSend, AbsenceIsFinal
  <1>3. Delivery'
    BY DEF Delivery, Delivering
  <1>4. Grace'
    <2>1. flight[a] <= RetryDelay
      BY ConstantTypes
    <2>2. \A b \in Actors : at'[b] = "answered" => flight[b] <= schedule'[b]
      BY <2>1 DEF Grace
    <2> QED
      BY <2>2 DEF Grace
  <1>5. Quiet => Quiet'
    BY DEF Quiet
  <1>6. Lookups'
    BY <1>5 DEF Lookups
  <1> QED
    BY <1>1, <1>2, <1>3, <1>4, <1>6

LEMMA IdleStep ==
  ASSUME IInv, NEW a \in Actors, Leave(a), UNCHANGED <<rowVars, wireVars, hal>>
  PROVE  IInv'
  <1>1. 0 \in 0 .. CallTimeout /\ 0 \in 0 .. RetryDelay
    BY ConstantTypes
  <1> QED
    BY <1>1, ActorStep DEF Leave, Hear, Steps, Results

\* StartCall, LoseClaim, SendTooLate, Answered, CallFails, Read, ReadFails and
\* Abandon are such steps.
ActorOnly(a) ==
  \/ StartCall(a) \/ LoseClaim(a) \/ SendTooLate(a) \/ Answered(a)
  \/ CallFails(a) \/ Read(a) \/ ReadFails(a) \/ Abandon(a)

LEMMA ActorOnlyKeeps ==
  ASSUME IInv, NEW a \in Actors, ActorOnly(a)
  PROVE  IInv'
  <1> DEFINE Heard(step, r) == Hear(a, step, r) /\ UNCHANGED <<rowVars, wireVars, hal>>
  <1>0. /\ 0 \in 0 .. CallTimeout /\ CallTimeout \in 0 .. CallTimeout
        /\ RetryDelay \in 0 .. RetryDelay
    BY ConstantTypes
  <1>1. CASE StartCall(a)
    <2>1. /\ result' = [result EXCEPT ![a] = result[a]] /\ result[a] \in Results
          /\ schedule' = [schedule EXCEPT ![a] = schedule[a]]
          /\ schedule[a] \in 0 .. RetryDelay
      BY <1>1 DEF StartCall, IInv, TypeOK
    <2>2. result[a] # "absent"
      BY <1>1 DEF StartCall, IInv, Lookups
    <2> QED
      BY <1>0, <1>1, <2>1, <2>2, ActorStep DEF StartCall, Steps
  <1>2. CASE LoseClaim(a) \/ Abandon(a)
    BY <1>2, IdleStep DEF LoseClaim, Abandon
  <1>3. CASE SendTooLate(a) \/ CallFails(a)
    <2>1. Heard("answered", "error") /\ at[a] \in Delivering
      BY <1>3 DEF SendTooLate, CallFails, Delivering
    <2> QED
      BY <1>0, <2>1, ActorStep DEF Hear, Steps, Results
  <1>4. CASE Answered(a)
    <2>1. Heard("answered", hal) /\ hal \in HALStates /\ at[a] \in Delivering
      BY <1>4 DEF Answered, Delivering, IInv, TypeOK
    <2> QED
      BY <1>0, <2>1, ActorStep DEF Hear, Steps, Results, HALStates
  <1>5. CASE Read(a)
    <2>1. Heard("read", IF hal = "none" THEN "absent" ELSE hal) /\ Quiet
      BY <1>5 DEF Read, IInv, Lookups
    <2>2. hal \in HALStates \cup {"none"}
      BY DEF IInv, TypeOK
    <2> QED
      BY <1>0, <2>1, <2>2, ActorStep DEF Hear, Steps, Results, HALStates
  <1>6. CASE ReadFails(a)
    <2>1. Heard("read", "error") /\ Quiet
      BY <1>6 DEF ReadFails, IInv, Lookups
    <2> QED
      BY <1>0, <2>1, ActorStep DEF Hear, Steps, Results
  <1> QED
    BY <1>1, <1>2, <1>3, <1>4, <1>5, <1>6 DEF ActorOnly

-----------------------------------------------------------------------------
LEMMA AdmitKeeps ==
  ASSUME IInv, Admit
  PROVE  IInv'
  <1> USE DEF IInv, Admit, TypeOK, actorVars, wireVars
  <1>1. TypeOK'
    BY DEF Unattempted
  <1>2. DispatchCheck' /\ OneSend' /\ AbsenceIsFinal'
    BY DEF DispatchCheck, OneSend, AbsenceIsFinal, Unattempted
  <1>3. Delivery' /\ Grace'
    BY DEF Delivery, Delivering, Grace
  <1>4. Lookups'
    BY DEF Lookups, Quiet
  <1> QED
    BY <1>1, <1>2, <1>3, <1>4

\* While a row is unattempted, whatever its claim and its schedule become,
\* nothing is being sent and nothing is being looked up.
LEMMA QueueStep ==
  ASSUME IInv, NEW a \in Actors, NEW step \in {"idle", "claimed"},
         ~attempted, ~attempted',
         state' \in Unattempted, valid' = valid, recovery' = recovery,
         claim' \in Actors \cup {NoActor},
         state' = "DISPATCH_CLAIMED" <=> claim' # NoActor,
         lease' \in Nat, due' \in Nat,
         \/ Leave(a) \/ Move(a, step)
         \/ at[a] = "idle" /\ UNCHANGED actorVars,
         UNCHANGED <<wireVars, hal>>
  PROVE  IInv'
  <1> USE DEF IInv, TypeOK, wireVars, actorVars
  <1>1. /\ at' = [at EXCEPT ![a] = at'[a]] /\ at'[a] \in {"idle", "claimed"}
        /\ result' = [result EXCEPT ![a] = result'[a]]
        /\ result'[a] \in {"none", result[a]}
        /\ budget' = [budget EXCEPT ![a] = budget'[a]]
        /\ budget'[a] \in {0, budget[a]}
        /\ schedule' = [schedule EXCEPT ![a] = schedule'[a]]
        /\ schedule'[a] \in {0, schedule[a]}
    BY DEF Leave, Hear, Move
  <1>2. attempted \in BOOLEAN /\ attempted' = FALSE
    OBVIOUS
  <1>3. TypeOK'
    <2>1. 0 \in 0 .. CallTimeout /\ 0 \in 0 .. RetryDelay
      BY ConstantTypes
    <2>2. /\ budget' \in [Actors -> 0 .. CallTimeout]
          /\ schedule' \in [Actors -> 0 .. RetryDelay]
      BY <1>1, <2>1
    <2>3. at' \in [Actors -> Steps] /\ result' \in [Actors -> Results]
      BY <1>1 DEF Steps, Results
    <2> QED
      BY <1>2, <2>2, <2>3
  <1>4. DispatchCheck' /\ OneSend' /\ AbsenceIsFinal'
    BY <1>2 DEF DispatchCheck, OneSend, AbsenceIsFinal, Unattempted
  <1>5. Delivery'
    BY <1>1, <1>2 DEF Delivery, Delivering
  <1>6. Grace'
    BY <1>1, <1>3 DEF Grace, Delivery, Delivering
  <1>7. \A b \in Actors : at[b] \notin {"reserved", "read"} /\ result[b] # "absent"
    BY DEF Lookups, Quiet
  <1>8. Lookups'
    BY <1>1, <1>2, <1>4, <1>7 DEF Lookups, Unattempted
  <1> QED
    BY <1>3, <1>4, <1>5, <1>6, <1>8

\* What the steps on an unattempted row need of the constants and the types.
LEMMA QueueFacts ==
  ASSUME IInv
  PROVE  /\ Lease \in Nat /\ RetryDelay \in Nat /\ 0 \in Nat
         /\ NoActor \notin Actors /\ NoActor \in Actors \cup {NoActor}
         /\ lease \in Nat /\ due \in Nat
         /\ state \in {"none"} \cup Unattempted \cup Uncertain \cup Terminal
         /\ claim \in Actors \cup {NoActor}
         /\ state \in Unattempted \cup {"none"} <=> ~attempted
         /\ state = "DISPATCH_CLAIMED" <=> claim # NoActor
  BY ConstantTypes DEF IInv, TypeOK, DispatchCheck

\* Whoever fails leaves the row, or a worker defers it.
LEMMA DeferKeeps ==
  ASSUME IInv, NEW a \in Actors,
         UNCHANGED <<state, attempted, claim, lease>>, DeferRow(a), Leave(a),
         UNCHANGED <<wireVars, hal>>
  PROVE  IInv'
  <1>1. CASE due' = due
    <2>1. UNCHANGED rowVars
      BY <1>1 DEF DeferRow, rowVars
    <2> QED
      BY <2>1, IdleStep
  <1>2. CASE due' # due
    BY <1>2, QueueFacts, QueueStep DEF DeferRow, Unattempted
  <1> QED
    BY <1>1, <1>2

LEMMA QueueKeeps ==
  ASSUME IInv, NEW a \in Actors,
         Claim(a) \/ ClaimFails(a) \/ ReleaseInvalid(a) \/ MarkTooLate(a)
  PROVE  IInv'
  <1>1. CASE Claim(a)
    BY <1>1, QueueFacts, QueueStep DEF Claim, Claimable, Unattempted
  <1>2. CASE ClaimFails(a)
    BY <1>2, QueueFacts, QueueStep DEF ClaimFails, Claimable, DeferRow, Unattempted
  <1>3. CASE ReleaseInvalid(a) /\ state = "DISPATCH_CLAIMED" /\ claim = a
    BY <1>3, QueueFacts, QueueStep DEF ReleaseInvalid, Unattempted
  <1>4. CASE \/ MarkTooLate(a)
             \/ ReleaseInvalid(a) /\ ~(state = "DISPATCH_CLAIMED" /\ claim = a)
    BY <1>4, DeferKeeps DEF ReleaseInvalid, MarkTooLate
  <1> QED
    BY <1>1, <1>2, <1>3, <1>4

-----------------------------------------------------------------------------
\* The marker starts the grace period, before anything is sent.
LEMMA MarkKeeps ==
  ASSUME IInv, NEW a \in Actors, NEW step \in {"marked", "idle"},
         at[a] = "calling", budget[a] > 0, Markable(a), WriteMarker,
         Move(a, step) \/ (step = "idle" /\ Leave(a)),
         UNCHANGED <<wireVars, hal>>
  PROVE  IInv'
  <1> USE ConstantTypes DEF IInv, TypeOK, wireVars, WriteMarker, Markable
  <1>1. /\ at' = [at EXCEPT ![a] = step]
        /\ result' = [result EXCEPT ![a] = result'[a]]
        /\ result'[a] \in {"none", result[a]}
        /\ budget' = [budget EXCEPT ![a] = budget'[a]]
        /\ budget'[a] \in {0, budget[a]}
        /\ schedule' = [schedule EXCEPT ![a] = schedule'[a]]
        /\ schedule'[a] \in {0, schedule[a]}
    BY DEF Leave, Hear, Move
  <1>2. TypeOK'
    BY <1>1 DEF Steps, Results, Uncertain
  <1>3. DispatchCheck' /\ OneSend' /\ AbsenceIsFinal'
    BY DEF DispatchCheck, OneSend, AbsenceIsFinal, Unattempted
  <1>4. Delivery'
    BY <1>1 DEF Delivery, Delivering
  <1>5. Grace'
    BY <1>1, <1>2 DEF Grace, Delivery, Delivering
  <1>6. \A b \in Actors : at[b] \notin {"reserved", "read"} /\ result[b] # "absent"
    BY DEF Lookups, Quiet
  <1>7. Lookups'
    BY <1>1, <1>6 DEF Lookups
  <1> QED
    BY <1>2, <1>3, <1>4, <1>5, <1>7

LEMMA SendKeeps ==
  ASSUME IInv, NEW a \in Actors, Send(a)
  PROVE  IInv'
  <1> USE ConstantTypes DEF IInv, TypeOK, Send, Move, rowVars
  <1>1. TypeOK'
    BY DEF Steps
  <1>2. sends = 0 /\ attempted /\ ~Quiet
    BY DEF Delivery, Delivering, Quiet
  <1>3. DispatchCheck' /\ OneSend' /\ AbsenceIsFinal'
    BY <1>2 DEF DispatchCheck, OneSend, AbsenceIsFinal
  <1>4. Delivery'
    BY <1>2 DEF Delivery, Delivering
  <1>5. Grace'
    BY DEF Grace
  <1>6. Lookups'
    BY <1>2 DEF Lookups
  <1> QED
    BY <1>1, <1>3, <1>4, <1>5, <1>6

-----------------------------------------------------------------------------
\* An outcome is recorded when it can no longer be disturbed, or when nobody
\* claims an absence.
LEMMA OutcomeKeeps ==
  ASSUME IInv, NEW a \in Actors, state \in Uncertain,
         WriteOutcome(a), Leave(a), UNCHANGED <<wireVars, hal>>,
         at[a] \in {"answered", "read"}
  PROVE  IInv'
  <1> USE ConstantTypes DEF IInv, TypeOK, WriteOutcome, Leave, Hear, wireVars
  <1>0. result[a] # "none"
    BY DEF Lookups
  <1>1. /\ state' \in Uncertain \cup Terminal
        /\ state' = "CONFIRMED_ABSENT" <=> result[a] = "absent"
    BY <1>0 DEF Outcome, Results, HALStates, Uncertain, Terminal
  <1>2. TypeOK'
    BY <1>1 DEF Steps, Results
  <1>3. result[a] = "absent" => hal = "none" /\ Quiet
    BY DEF Lookups
  <1>4. DispatchCheck' /\ OneSend' /\ AbsenceIsFinal'
    BY <1>1, <1>3 DEF DispatchCheck, OneSend, AbsenceIsFinal, Unattempted,
                      Uncertain, Terminal
  <1>5. Delivery'
    BY DEF Delivery, Delivering
  <1>6. Grace'
    <2>1. CASE at[a] = "answered"
      <3>1. /\ flight[a] <= due'
            /\ \A b \in Actors \ {a} : flight[b] = 0 /\ at[b] # "marked"
        BY <2>1 DEF Grace, Delivery, Delivering
      <3> QED
        BY <1>2, <2>1, <3>1 DEF Grace
    <2>2. CASE at[a] = "read"
      <3>1. Quiet
        BY <2>2 DEF Lookups
      <3> QED
        BY <1>2, <3>1 DEF Grace, Quiet
    <2> QED
      BY <2>1, <2>2
  <1>7. Quiet => Quiet'
    BY DEF Quiet
  <1>8. Lookups'
    BY <1>1, <1>3, <1>7 DEF Lookups
  <1> QED
    BY <1>2, <1>4, <1>5, <1>6, <1>8

LEMMA ReserveKeeps ==
  ASSUME IInv, NEW a \in Actors, Reserve(a)
  PROVE  IInv'
  <1> USE ConstantTypes DEF IInv, TypeOK, Reserve, Reservable, Move, wireVars
  <1>1. TypeOK'
    BY DEF Steps
  <1>2. Quiet
    BY DEF Quiet, Grace, DispatchCheck, Unattempted, Uncertain
  <1>3. DispatchCheck' /\ OneSend' /\ AbsenceIsFinal'
    BY DEF DispatchCheck, OneSend, AbsenceIsFinal
  <1>4. Delivery'
    BY DEF Delivery, Delivering
  <1>5. Grace'
    BY <1>1 DEF Grace
  <1>6. Quiet'
    BY <1>2 DEF Quiet
  <1>7. Lookups'
    BY <1>6 DEF Lookups
  <1> QED
    BY <1>1, <1>3, <1>4, <1>5, <1>7

-----------------------------------------------------------------------------
LEMMA HALReceivesKeeps ==
  ASSUME IInv, NEW a \in Actors, HALReceives(a) \/ Lost(a)
  PROVE  IInv'
  <1> USE ConstantTypes DEF IInv, TypeOK, HALReceives, Lost, rowVars, actorVars
  <1>1. TypeOK'
    BY DEF HALStates
  <1>2. ~Quiet /\ attempted
    BY DEF Quiet, Delivery, Delivering
  <1>3. DispatchCheck' /\ OneSend' /\ AbsenceIsFinal'
    BY <1>2 DEF DispatchCheck, OneSend, AbsenceIsFinal, Lookups
  <1>4. Delivery'
    BY <1>2 DEF Delivery, Delivering
  <1>5. Grace'
    BY DEF Grace
  <1>6. Lookups'
    BY <1>2 DEF Lookups
  <1> QED
    BY <1>1, <1>3, <1>4, <1>5, <1>6

LEMMA HALProgressKeeps ==
  ASSUME IInv, HALProgress
  PROVE  IInv'
  <1> USE DEF IInv, TypeOK, HALProgress, rowVars, actorVars, wireVars
  <1>1. TypeOK' /\ DispatchCheck' /\ OneSend' /\ AbsenceIsFinal'
    BY DEF DispatchCheck, OneSend, AbsenceIsFinal, HALStates
  <1>2. Delivery' /\ Grace'
    BY DEF Delivery, Delivering, Grace
  <1>3. Lookups'
    BY DEF Lookups, Quiet
  <1> QED
    BY <1>1, <1>2, <1>3

LEMMA TickKeeps ==
  ASSUME IInv, Tick
  PROVE  IInv'
  <1> USE ConstantTypes DEF IInv, TypeOK, Tick, Less
  <1>1. TypeOK'
    OBVIOUS
  <1>2. DispatchCheck' /\ OneSend' /\ AbsenceIsFinal'
    BY DEF DispatchCheck, OneSend, AbsenceIsFinal
  <1>3. Delivery'
    BY DEF Delivery, Delivering
  <1>4. Grace'
    BY DEF Grace
  <1>5. Quiet => Quiet'
    BY DEF Quiet
  <1>6. Lookups'
    BY <1>5 DEF Lookups
  <1> QED
    BY <1>1, <1>2, <1>3, <1>4, <1>6

-----------------------------------------------------------------------------
LEMMA MarkFailsKeeps ==
  ASSUME IInv, NEW a \in Actors, MarkFails(a)
  PROVE  IInv'
  <1>1. CASE Markable(a) /\ WriteMarker
    BY <1>1, MarkKeeps DEF MarkFails
  <1>2. CASE UNCHANGED <<state, attempted, claim, lease>> /\ DeferRow(a)
    BY <1>2, DeferKeeps DEF MarkFails
  <1> QED
    BY <1>1, <1>2 DEF MarkFails

LEMMA RecordKeeps ==
  ASSUME IInv, NEW a \in Actors, Record(a) \/ RecordRead(a)
  PROVE  IInv'
  <1>1. at[a] \in {"answered", "read"}
    BY DEF Record, RecordRead
  <1>2. CASE UNCHANGED rowVars
    BY <1>2, IdleStep DEF Record, RecordRead
  <1>3. CASE state \in Uncertain /\ WriteOutcome(a)
    BY <1>1, <1>3, OutcomeKeeps DEF Record, RecordRead
  <1> QED
    BY <1>2, <1>3 DEF Record, RecordRead, Uncertain

\* An actor's step, by the group of its action.
LEMMA ActorKeeps ==
  ASSUME IInv, NEW a \in Actors, Proceed(a) \/ TakeUp(a) \/ Disturbed(a)
  PROVE  IInv'
  <1>1. CASE ActorOnly(a)
    BY <1>1, ActorOnlyKeeps
  <1>2. CASE Claim(a) \/ ClaimFails(a) \/ ReleaseInvalid(a) \/ MarkTooLate(a)
    BY <1>2, QueueKeeps
  <1>3. CASE Mark(a)
    BY <1>3, MarkKeeps DEF Mark
  <1>4. CASE MarkFails(a)
    BY <1>4, MarkFailsKeeps
  <1>5. CASE Send(a)
    BY <1>5, SendKeeps
  <1>6. CASE Record(a) \/ RecordRead(a)
    BY <1>6, RecordKeeps
  <1>7. CASE Reserve(a)
    BY <1>7, ReserveKeeps
  <1> QED
    BY <1>1, <1>2, <1>3, <1>4, <1>5, <1>6, <1>7
    DEF Proceed, TakeUp, Disturbed, ActorOnly

LEMMA StepInv ==
  ASSUME IInv, [Next]_vars
  PROVE  IInv'
  <1>1. CASE \E a \in Actors : Proceed(a) \/ TakeUp(a) \/ Disturbed(a)
    BY <1>1, ActorKeeps
  <1>2. CASE Environment
    BY <1>2, AdmitKeeps, HALProgressKeeps, HALReceivesKeeps DEF Environment
  <1>3. CASE Tick
    BY <1>3, TickKeeps
  <1>4. CASE UNCHANGED vars
    BY <1>4 DEF vars, rowVars, actorVars, wireVars, IInv, TypeOK, DispatchCheck,
                OneSend, AbsenceIsFinal, Delivery, Grace, Lookups, Quiet
  <1> QED
    BY <1>1, <1>2, <1>3, <1>4 DEF Next

-----------------------------------------------------------------------------
\* The inductive invariant: a request is sent at most once, only before the
\* grace period of its marker is over, and lookups come after it.
THEOREM OperationInductive == Spec => []IInv
  <1>1. Init => IInv
    BY InitInv
  <1>2. IInv /\ [Next]_vars => IInv'
    BY StepInv
  <1> QED
    BY <1>1, <1>2, PTL DEF Spec

\* The types hold.
THEOREM OperationTypes == Spec => []TypeOK
  <1>1. IInv => TypeOK
    BY DEF IInv
  <1> QED
    BY <1>1, OperationInductive, PTL

\* What the CHECK and the trigger of the table forbid is never written.
THEOREM RowsStayLegal == Spec => []DispatchCheck
  <1>1. IInv => DispatchCheck
    BY DEF IInv
  <1> QED
    BY <1>1, OperationInductive, PTL

\* However many handlers and workers dispatch an operation, and whoever of
\* them dies or is late, one request at most is sent to HAL.
THEOREM SentAtMostOnce == Spec => []OneSend
  <1>1. IInv => OneSend
    BY DEF IInv
  <1> QED
    BY <1>1, OperationInductive, PTL

\* An operation recorded as absent is never known to HAL afterwards.
THEOREM AbsentForGood == Spec => []AbsenceIsFinal
  <1>1. IInv => AbsenceIsFinal
    BY DEF IInv
  <1> QED
    BY <1>1, OperationInductive, PTL

\* A recorded outcome is never replaced.
THEOREM OutcomesAreFinal == Spec => TerminalStays
  <1>1. IInv /\ [Next]_vars => [(state \in Terminal) => state' = state]_vars
    <2> SUFFICES ASSUME IInv, Next, state \in Terminal
                 PROVE  state' = state
      OBVIOUS
    <2>1. /\ state \notin Uncertain /\ state \notin Unattempted \cup {"none"}
          /\ attempted
      BY DEF Terminal, Uncertain, Unattempted, IInv, DispatchCheck
    <2>2. ASSUME NEW a \in Actors, Proceed(a) \/ TakeUp(a) \/ Disturbed(a)
          PROVE  state' = state
      BY <2>1, <2>2
      DEF Proceed, TakeUp, Disturbed, ReleaseInvalid, StartCall, Mark, LoseClaim,
          MarkTooLate, Send, SendTooLate, Answered, CallFails, Record, Read,
          RecordRead, Claim, Reserve, ClaimFails, MarkFails, ReadFails, Abandon,
          Claimable, Markable, Reservable, Unattempted, Uncertain, rowVars
    <2>3. CASE Environment \/ Tick
      BY <2>1, <2>3 DEF Environment, Admit, HALProgress, HALReceives, Lost, Tick,
                        rowVars
    <2> QED
      BY <2>2, <2>3 DEF Next
  <1> QED
    BY <1>1, OperationInductive, PTL DEF Spec, TerminalStays

-----------------------------------------------------------------------------
(* Stop commands, for any number of calls, customers and reconcilers.  What *)
(* CMS holds of HAL's states, in an answer or in what a worker read, may be *)
(* stale, but a refusal is HAL's last word.                                 *)

\* HAL has no command that is still to arrive, and what a call or a worker
\* remembers of a refusal is still so.
Refusals ==
  /\ \A c \in Stops :
       /\ call[c] \in {"idle", "active", "created"} => wire[c] = "none"
       /\ wire[c] # "gone" => halCommand[c] = "none"
  /\ \A c \in Stops : answer[c] = "OCPP_REJECTED" => halCommand[c] = "OCPP_REJECTED"
  /\ \A w \in Lookers :
       look[w].state = "OCPP_REJECTED" =>
         /\ look[w].item \in Stops
         /\ halCommand[look[w].item] = "OCPP_REJECTED"

StopInv == StopTypeOK /\ Refusals

-----------------------------------------------------------------------------
\* A worker that is not idle works on a command.
LEMMA ItemType ==
  ASSUME StopTypeOK, NEW w \in Lookers, look[w].step # "idle"
  PROVE  /\ look[w].item \in Stops
         /\ look[w].state \in StopHALStates \cup {"none"}
         /\ look[w].step \in LookSteps
  BY DEF StopTypeOK, Looks, Idle

LEMMA StatusType ==
  ASSUME NEW s \in SessionStates, session \in SessionStates, SetStatus(s)
  PROVE  session' \in SessionStates
  BY DEF SetStatus

LEMMA CallType ==
  ASSUME StopTypeOK, NEW c \in Stops, Call(c)
  PROVE  StopTypeOK'
  <1> USE DEF StopTypeOK, callVars, stopRowVars, halVars, CallSteps
  <1>1. CASE ReadActive(c)
    BY <1>1 DEF ReadActive
  <1>2. CASE CreateStop(c)
    BY <1>2 DEF CreateStop, SessionStates, CommandStates, StopHALStates
  <1>3. CASE SendStop(c)
    BY <1>3 DEF SendStop
  <1>4. CASE StopAnswered(c)
    BY <1>4 DEF StopAnswered
  <1>5. CASE RecordFailure(c)
    BY <1>5, StatusType DEF RecordFailure, FailCommand, SessionStates, CommandStates
  <1>6. CASE StoreAnswer(c)
    BY <1>6 DEF StoreAnswer, CommandStates
  <1>7. CASE ApplyAnswer(c)
    <2>1. StatusAfter(answer[c]) \in SessionStates
      BY DEF StatusAfter, SessionStates
    <2> QED
      BY <1>7, <2>1, StatusType DEF ApplyAnswer
  <1>8. CASE AbandonStop(c)
    BY <1>8 DEF AbandonStop
  <1> QED
    BY <1>1, <1>2, <1>3, <1>4, <1>5, <1>6, <1>7, <1>8 DEF Call

LEMMA LookUpType ==
  ASSUME StopTypeOK, NEW w \in Lookers, NEW c \in Stops, LookUp(w, c)
  PROVE  StopTypeOK'
  <1>1. [step |-> "command", item |-> c, state |-> "none"] \in Looks
    BY DEF Looks, LookSteps
  <1>2. look' \in [Lookers -> Looks]
    BY <1>1 DEF LookUp, StopTypeOK
  <1> QED
    BY <1>2 DEF LookUp, StopTypeOK, callVars, stopRowVars, halVars

\* The steps of a worker leave a value of Looks, and an idle one at the end.
LEMMA LookType ==
  ASSUME StopTypeOK, NEW w \in Lookers, look[w].step # "idle",
         \/ GoIdle(w)
         \/ \E step \in LookSteps, st \in StopHALStates \cup {"none"} :
              look' = [look EXCEPT ![w].step = step, ![w].state = st]
         \/ \E step \in LookSteps : Goto(w, step)
  PROVE  look' \in [Lookers -> Looks]
  <1>1. look[w] \in [step : LookSteps, item : Stops, state : StopHALStates \cup {"none"}]
    BY DEF StopTypeOK, Looks, Idle
  <1>2. CASE GoIdle(w)
    BY <1>2 DEF GoIdle, StopTypeOK, Looks
  <1>3. CASE \E step \in LookSteps, st \in StopHALStates \cup {"none"} :
               look' = [look EXCEPT ![w].step = step, ![w].state = st]
    <2> PICK step \in LookSteps, st \in StopHALStates \cup {"none"} :
               look' = [look EXCEPT ![w].step = step, ![w].state = st]
      BY <1>3
    <2>1. look' = [look EXCEPT ![w] = [look[w] EXCEPT !.step = step, !.state = st]]
      BY DEF StopTypeOK
    <2>2. [look[w] EXCEPT !.step = step, !.state = st] \in Looks
      BY <1>1 DEF Looks
    <2> QED
      BY <2>1, <2>2 DEF StopTypeOK
  <1>4. CASE \E step \in LookSteps : Goto(w, step)
    <2> PICK step \in LookSteps : look' = [look EXCEPT ![w].step = step]
      BY <1>4 DEF Goto
    <2>1. look' = [look EXCEPT ![w] = [look[w] EXCEPT !.step = step]]
      BY DEF StopTypeOK
    <2>2. [look[w] EXCEPT !.step = step] \in Looks
      BY <1>1 DEF Looks
    <2> QED
      BY <2>1, <2>2 DEF StopTypeOK
  <1> QED
    BY <1>2, <1>3, <1>4

LEMMA WorkerType ==
  ASSUME StopTypeOK, NEW w \in Lookers, Resolve(w) \/ LookupDisturbed(w)
  PROVE  StopTypeOK'
  <1> USE DEF StopTypeOK, callVars, stopRowVars, halVars
  <1>0. look[w].step # "idle"
    BY DEF Resolve, LookupDisturbed, ReadCommand, WriteCommand, ApplyState,
           ApplyAbsence, RecordLookupFailure, LookupStops, At
  <1>1. look[w].item \in Stops /\ look[w].state \in StopHALStates \cup {"none"}
    BY <1>0, ItemType
  <1>2. CASE ReadCommand(w)
    <2>1. look' = [look EXCEPT
             ![w].step = IF halCommand[look[w].item] = "none" THEN "absent" ELSE "read",
             ![w].state = halCommand[look[w].item]]
      BY <1>2 DEF ReadCommand
    <2>2. look' \in [Lookers -> Looks]
      BY <1>0, <1>1, <2>1, LookType DEF LookSteps
    <2> QED
      BY <1>2, <2>2 DEF ReadCommand
  <1>3. CASE WriteCommand(w)
    <2>1. look' \in [Lookers -> Looks]
      BY <1>0, <1>3, LookType DEF WriteCommand, LookSteps
    <2> QED
      BY <1>1, <1>3, <2>1 DEF WriteCommand, CommandStates
  <1>4. CASE ApplyState(w)
    <2>1. StatusAfter(look[w].state) \in SessionStates
      BY DEF StatusAfter, SessionStates
    <2>2. look' \in [Lookers -> Looks]
      BY <1>0, <1>4, LookType DEF ApplyState
    <2> QED
      BY <1>4, <2>1, <2>2, StatusType DEF ApplyState
  <1>5. CASE ApplyAbsence(w)
    <2>1. look' \in [Lookers -> Looks]
      BY <1>0, <1>5, LookType DEF ApplyAbsence
    <2> QED
      BY <1>1, <1>5, <2>1, StatusType DEF ApplyAbsence, SessionStates, CommandStates
  <1>6. CASE RecordLookupFailure(w)
    <2>1. look' \in [Lookers -> Looks]
      BY <1>0, <1>6, LookType DEF RecordLookupFailure
    <2> QED
      BY <1>1, <1>6, <2>1, StatusType
      DEF RecordLookupFailure, FailCommand, SessionStates, CommandStates
  <1>7. CASE LookupStops(w)
    BY <1>0, <1>7, LookType DEF LookupStops
  <1> QED
    BY <1>2, <1>3, <1>4, <1>5, <1>6, <1>7 DEF Resolve, LookupDisturbed

LEMMA OutsideType ==
  ASSUME StopTypeOK,
         \/ \E c \in Stops : HAL(c)
         \/ \E f \in facts : ApplyCommandFact(f)
         \/ EndSession \/ ObserveInvalid \/ TransactionCompletes
  PROVE  StopTypeOK'
  <1> USE DEF StopTypeOK, callVars, stopRowVars, halVars
  <1>1. ASSUME NEW c \in Stops, HALReceivesStop(c) \/ StopLost(c)
        PROVE  StopTypeOK'
    BY <1>1 DEF HALReceivesStop, StopLost, StopHALStates
  <1>2. ASSUME NEW c \in Stops, ChargerAnswers(c)
        PROVE  StopTypeOK'
    BY <1>2, StopAssumption DEF ChargerAnswers, Moves, StopHALStates
  <1>3. ASSUME NEW f \in facts, ApplyCommandFact(f)
        PROVE  StopTypeOK'
    BY <1>3 DEF ApplyCommandFact, CommandStates
  <1>4. CASE EndSession \/ ObserveInvalid \/ TransactionCompletes
    BY <1>4 DEF EndSession, ObserveInvalid, TransactionCompletes, SessionStates
  <1> QED
    BY <1>1, <1>2, <1>3, <1>4 DEF HAL

\* One step per kind of actor.
LEMMA StopTypeStep ==
  ASSUME StopTypeOK, [StopNext]_stopVars
  PROVE  StopTypeOK'
  <1>1. CASE UNCHANGED stopVars
    BY <1>1 DEF StopTypeOK, stopVars, callVars, stopRowVars, halVars
  <1>2. ASSUME NEW w \in Customers, CallAgain(w)
        PROVE  StopTypeOK'
    BY <1>2, LookUpType DEF CallAgain, Lookers, StopTypeOK
  <1>3. ASSUME NEW w \in Reconcilers, NEW c \in Stops, ListCommand(w, c)
        PROVE  StopTypeOK'
    BY <1>3, LookUpType DEF ListCommand, Lookers
  <1> QED
    BY <1>1, <1>2, <1>3, CallType, WorkerType, OutsideType DEF StopNext, Work

-----------------------------------------------------------------------------
(* Refusals.                                                               *)

\* Nothing takes a refusal back at HAL, and nothing arrives twice.
LEMMA Delivered ==
  ASSUME StopInv, [StopNext]_stopVars, NEW c \in Stops
  PROVE  /\ call'[c] \in {"idle", "active", "created"} => wire'[c] = "none"
         /\ wire'[c] # "gone" => halCommand'[c] = "none"
         /\ halCommand[c] = "OCPP_REJECTED" => halCommand'[c] = "OCPP_REJECTED"
  <1>0. /\ call \in [Stops -> CallSteps]
        /\ wire \in [Stops -> {"none", "inflight", "gone"}]
        /\ halCommand \in [Stops -> StopHALStates \cup {"none"}]
        /\ call[c] \in {"idle", "active", "created"} => wire[c] = "none"
        /\ wire[c] # "gone" => halCommand[c] = "none"
    BY DEF StopInv, StopTypeOK, Refusals
  <1>1. ASSUME NEW d \in Stops, HAL(d)
        PROVE  /\ call'[c] \in {"idle", "active", "created"} => wire'[c] = "none"
               /\ wire'[c] # "gone" => halCommand'[c] = "none"
               /\ halCommand[c] = "OCPP_REJECTED" => halCommand'[c] = "OCPP_REJECTED"
    <2>0. d = c \/ d # c
      OBVIOUS
    <2>1. CASE HALReceivesStop(d)
      BY <1>0, <2>0, <2>1 DEF HALReceivesStop, callVars
    <2>2. CASE StopLost(d)
      BY <1>0, <2>0, <2>2 DEF StopLost, callVars
    <2>3. CASE ChargerAnswers(d)
      BY <1>0, <2>0, <2>3 DEF ChargerAnswers, Moves, callVars, StopHALStates
    <2> QED
      BY <1>1, <2>1, <2>2, <2>3 DEF HAL
  <1>2. ASSUME NEW d \in Stops, Call(d)
        PROVE  /\ call'[c] \in {"idle", "active", "created"} => wire'[c] = "none"
               /\ wire'[c] # "gone" => halCommand'[c] = "none"
               /\ UNCHANGED halCommand
    BY <1>0, <1>2 DEF Call, ReadActive, CreateStop, SendStop, StopAnswered,
       RecordFailure, StoreAnswer, ApplyAnswer, AbandonStop, halVars
  <1>3. CASE UNCHANGED <<call, wire, halCommand>>
    BY <1>0, <1>3
  <1>4. \/ \E d \in Stops : Call(d) \/ HAL(d)
        \/ UNCHANGED <<call, wire, halCommand>>
    BY DEF StopNext, Work, stopVars, callVars, halVars, CallAgain, ListCommand, LookUp,
       Resolve, ReadCommand, WriteCommand, ApplyState, ApplyAbsence,
       RecordLookupFailure, LookupDisturbed, LookupStops,
       ApplyCommandFact, EndSession, ObserveInvalid, TransactionCompletes
  <1> QED
    BY <1>1, <1>2, <1>3, <1>4

\* Only a call that HAL answered remembers its state.
LEMMA AnswerKept ==
  ASSUME StopInv, [StopNext]_stopVars, NEW c \in Stops, answer'[c] = "OCPP_REJECTED"
  PROVE  halCommand[c] = "OCPP_REJECTED"
  <1>0. answer \in [Stops -> StopHALStates \cup {"none"}] /\ call \in [Stops -> CallSteps]
    BY DEF StopInv, StopTypeOK
  <1>1. ASSUME NEW d \in Stops, Call(d)
        PROVE  answer'[c] = answer[c] \/ answer'[c] = halCommand[c] \/ answer'[c] = "none"
    BY <1>0, <1>1 DEF Call, ReadActive, CreateStop, SendStop, StopAnswered,
       RecordFailure, StoreAnswer, ApplyAnswer, AbandonStop
  <1>2. (\E d \in Stops : Call(d)) \/ UNCHANGED answer
    BY DEF StopNext, Work, stopVars, callVars, CallAgain, ListCommand, LookUp,
       Resolve, ReadCommand, WriteCommand, ApplyState, ApplyAbsence,
       RecordLookupFailure, LookupDisturbed, LookupStops, HAL,
       HALReceivesStop, StopLost, ChargerAnswers, Moves,
       ApplyCommandFact, EndSession, ObserveInvalid, TransactionCompletes
  <1> QED
    BY <1>1, <1>2 DEF StopInv, Refusals

\* Only a worker that read HAL's state remembers it.
LEMMA LookKept ==
  ASSUME StopInv, [StopNext]_stopVars, NEW w \in Lookers, look'[w].state = "OCPP_REJECTED"
  PROVE  /\ look'[w].item \in Stops
         /\ halCommand[look'[w].item] = "OCPP_REJECTED"
  <1>0. /\ look \in [Lookers -> Looks]
        /\ look[w].state = "OCPP_REJECTED" =>
             look[w].item \in Stops /\ halCommand[look[w].item] = "OCPP_REJECTED"
    BY DEF StopInv, StopTypeOK, Refusals
  <1>1. CASE look'[w] = look[w]
    BY <1>0, <1>1
  <1>2. CASE look'[w] = Idle
    BY <1>2 DEF Idle
  <1>3. ASSUME NEW c \in Stops, look'[w] = [step |-> "command", item |-> c, state |-> "none"]
        PROVE  FALSE
    BY <1>3
  <1>4. ASSUME look[w].step # "idle",
               look' = [look EXCEPT
                 ![w].step = IF halCommand[look[w].item] = "none" THEN "absent" ELSE "read",
                 ![w].state = halCommand[look[w].item]]
        PROVE  look'[w].item = look[w].item /\ look'[w].state = halCommand[look[w].item]
    <2>1. look[w] \in [step : LookSteps, item : Stops, state : StopHALStates \cup {"none"}]
      BY <1>0, <1>4 DEF Looks, Idle
    <2>2. look'[w] = [look[w] EXCEPT
                        !.step = IF halCommand[look[w].item] = "none" THEN "absent" ELSE "read",
                        !.state = halCommand[look[w].item]]
      BY <1>0, <1>4
    <2> QED
      BY <2>1, <2>2
  <1>5. ASSUME NEW step, look[w].step # "idle", Goto(w, step)
        PROVE  look'[w].item = look[w].item /\ look'[w].state = look[w].state
    <2>1. look[w] \in [step : LookSteps, item : Stops, state : StopHALStates \cup {"none"}]
      BY <1>0, <1>5 DEF Looks, Idle
    <2>2. look'[w] = [look[w] EXCEPT !.step = step]
      BY <1>0, <1>5 DEF Goto
    <2> QED
      BY <2>1, <2>2
  <1>6. ASSUME NEW v \in Lookers \ {w}, \/ \E c \in Stops : LookUp(v, c)
                                        \/ Resolve(v) \/ LookupDisturbed(v)
        PROVE  look'[w] = look[w]
    BY <1>0, <1>6 DEF LookUp, Resolve, ReadCommand, WriteCommand, ApplyState,
       ApplyAbsence, RecordLookupFailure, LookupDisturbed, LookupStops,
       Goto, GoIdle
  <1>7. ASSUME NEW c \in Stops, LookUp(w, c)
        PROVE  FALSE
    BY <1>0, <1>3, <1>7 DEF LookUp
  <1>8. ASSUME ReadCommand(w)
        PROVE  /\ look'[w].item \in Stops
               /\ halCommand[look'[w].item] = "OCPP_REJECTED"
    <2>1. look[w].step # "idle"
      BY <1>8 DEF ReadCommand, At
    <2>2. look'[w].item = look[w].item /\ look'[w].state = halCommand[look[w].item]
      BY <1>4, <1>8, <2>1 DEF ReadCommand
    <2> QED
      BY <2>1, <2>2, ItemType DEF StopInv
  <1>9. ASSUME WriteCommand(w)
        PROVE  /\ look'[w].item \in Stops
               /\ halCommand[look'[w].item] = "OCPP_REJECTED"
    <2>1. PICK step \in LookSteps : look[w].step # "idle" /\ Goto(w, step)
      BY <1>9 DEF WriteCommand, At, LookSteps
    <2> QED
      BY <1>0, <1>5, <2>1
  <1>10. ASSUME ApplyState(w) \/ ApplyAbsence(w) \/ RecordLookupFailure(w) \/ LookupStops(w)
         PROVE  look'[w] = Idle
    BY <1>0, <1>10 DEF ApplyState, ApplyAbsence, RecordLookupFailure, LookupStops, GoIdle
  <1>11. \/ UNCHANGED look
         \/ \E v \in Lookers : \/ \E c \in Stops : LookUp(v, c)
                               \/ Resolve(v) \/ LookupDisturbed(v)
    <2>1. ASSUME NEW v \in Customers, CallAgain(v)
          PROVE  \E c \in Stops : LookUp(v, c)
      BY <2>1 DEF CallAgain, StopInv, StopTypeOK
    <2>2. ASSUME NEW v \in Reconcilers, NEW c \in Stops, ListCommand(v, c)
          PROVE  LookUp(v, c)
      BY <2>2 DEF ListCommand
    <2> QED
      BY <2>1, <2>2 DEF StopNext, Work, stopVars, Lookers, Call, ReadActive, CreateStop,
         SendStop, StopAnswered, RecordFailure, StoreAnswer,
         ApplyAnswer, AbandonStop, HAL, HALReceivesStop, StopLost, ChargerAnswers,
         Moves, ApplyCommandFact, EndSession, ObserveInvalid, TransactionCompletes
  <1> QED
    BY <1>1, <1>2, <1>6, <1>7, <1>8, <1>9, <1>10, <1>11 DEF Resolve, LookupDisturbed

LEMMA StopInitInv == StopInit => StopInv
  BY StopAssumption DEF StopInit, StopInv, StopTypeOK, Refusals, SessionStates, CommandStates,
     CallSteps, Looks, Idle

LEMMA StopInvStep == StopInv /\ [StopNext]_stopVars => StopInv'
  <1> SUFFICES ASSUME StopInv, [StopNext]_stopVars
               PROVE  StopInv'
    OBVIOUS
  <1>1. StopTypeOK'
    BY StopTypeStep DEF StopInv
  <1>2. \A c \in Stops : answer'[c] = "OCPP_REJECTED" => halCommand'[c] = "OCPP_REJECTED"
    BY AnswerKept, Delivered
  <1>3. \A w \in Lookers :
          look'[w].state = "OCPP_REJECTED" =>
            look'[w].item \in Stops /\ halCommand'[look'[w].item] = "OCPP_REJECTED"
    BY LookKept, Delivered
  <1> QED
    BY <1>1, <1>2, <1>3, Delivered DEF StopInv, Refusals

-----------------------------------------------------------------------------
\* The inductive invariant of SessionStop.
THEOREM StopInvariant == StopSpec => []StopInv
  BY StopInitInv, StopInvStep, PTL DEF StopSpec

\* The types of SessionStop hold.
THEOREM StopTypes == StopSpec => []StopTypeOK
  <1>1. StopInv => StopTypeOK
    BY DEF StopInv
  <1> QED
    BY <1>1, StopInvariant, PTL

\* Whatever its stop commands do, an ended session stays ended: every
\* transaction that sets a status looks at the end time under the row lock.
THEOREM EndsAreFinal == StopSpec => EndedStaysEnded
  <1>1. [StopNext]_stopVars => [session = "ENDED" => session' = "ENDED"]_stopVars
    BY DEF StopNext, Work, stopVars, callVars, stopRowVars, halVars, Call,
       ReadActive, CreateStop, SendStop, StopAnswered, RecordFailure, FailCommand, StoreAnswer,
       ApplyAnswer, AbandonStop, CallAgain, ListCommand, LookUp, Resolve,
       ReadCommand, WriteCommand, ApplyState, ApplyAbsence,
       RecordLookupFailure, LookupDisturbed, LookupStops, SetStatus,
       HAL, HALReceivesStop, StopLost, ChargerAnswers, Moves,
       ApplyCommandFact, EndSession, ObserveInvalid, TransactionCompletes
  <1> QED
    BY <1>1, PTL DEF StopSpec, EndedStaysEnded

\* A session is reactivated only on a verdict of HAL, for any number of
\* commands, customers and reconcilers.
THEOREM VerdictsReactivate == StopSpec => ReactivatedOnVerdict
  <1>1. StopInv /\ [StopNext]_stopVars =>
          [session # "ACTIVE" /\ session' = "ACTIVE" =>
             \E c \in Stops : \/ halCommand[c] = "OCPP_REJECTED"
                              \/ command'[c] = "CONFIRMED_ABSENT"]_stopVars
    <2> SUFFICES ASSUME StopInv, StopNext, session # "ACTIVE", session' = "ACTIVE"
                 PROVE  \E c \in Stops : \/ halCommand[c] = "OCPP_REJECTED"
                                         \/ command'[c] = "CONFIRMED_ABSENT"
      OBVIOUS
    <2>1. ASSUME NEW c \in Stops, ApplyAnswer(c)
          PROVE  halCommand[c] = "OCPP_REJECTED"
      BY <2>1 DEF ApplyAnswer, SetStatus, StatusAfter, StopInv, Refusals
    <2>2. ASSUME NEW w \in Lookers, ApplyState(w)
          PROVE  look[w].item \in Stops /\ halCommand[look[w].item] = "OCPP_REJECTED"
      BY <2>2 DEF ApplyState, SetStatus, StatusAfter, StopInv, Refusals
    <2>3. ASSUME NEW w \in Lookers, ApplyAbsence(w)
          PROVE  \E c \in Stops : command'[c] = "CONFIRMED_ABSENT"
      <3>1. look[w].item \in Stops
        BY <2>3, ItemType DEF ApplyAbsence, At, StopInv
      <3> QED
        BY <2>3, <3>1 DEF ApplyAbsence, StopInv, StopTypeOK
    <2>4. \/ \E c \in Stops : ApplyAnswer(c)
          \/ \E w \in Lookers : ApplyState(w) \/ ApplyAbsence(w)
      BY DEF StopNext, Work, Lookers, stopRowVars, Call, ReadActive, CreateStop, SendStop,
         StopAnswered, RecordFailure, FailCommand, StoreAnswer,
         AbandonStop, CallAgain, ListCommand, LookUp, Resolve,
         ReadCommand, WriteCommand,
         RecordLookupFailure, LookupDisturbed, LookupStops, SetStatus,
         HAL, HALReceivesStop, StopLost, ChargerAnswers, Moves,
         ApplyCommandFact, EndSession, ObserveInvalid, TransactionCompletes
    <2> QED
      BY <2>1, <2>2, <2>3, <2>4
  <1> QED
    BY <1>1, StopInvariant, PTL DEF StopSpec, ReactivatedOnVerdict
=============================================================================
