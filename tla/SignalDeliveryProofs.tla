------------------------ MODULE SignalDeliveryProofs ------------------------
(***************************************************************************)
(* SignalDelivery keeps its types, sends no second message without an      *)
(* excuse, and stores of a message only what is true, for any signals,     *)
(* handlers and bounds.                                                    *)
(*                                                                         *)
(* The inductive invariant is a budget: the messages already in the chat   *)
(* and the handlers that may still send one are together at most one more  *)
(* than the excuses.  A row that a retry may select while nobody works on  *)
(* it has spent none of it, and neither has a suppressed signal.           *)
(***************************************************************************)
EXTENDS SignalDelivery, FiniteSetTheorems, TLAPS

\* A handler doing w has item i in hand or in its batch and has not sent it.
Unsent(w, i) ==
    \/ i \in w.todo
    \/ w.item = i /\ ~ (w.step = "write" /\ w.result = "sent")

\* The handlers that may still send item i.
Senders(jobs, i) == {h \in Handlers : Unsent(jobs[h], i)}

\* What handler h has in hand at each of its steps.
ShapeOf(h, w) ==
    /\ w.step \in {"idle", "next"} <=> w.item = None
    /\ w.item \notin w.todo
    /\ h \in Posters => w.todo = {}
    /\ w.step = "check" => h \in Posters
    /\ w.step = "write" => w.result \in Results
    /\ w.result = "hushed" => h \in Posters /\ w.item \in Signals

Shape == \A h \in Handlers : ShapeOf(h, job[h])

\* At most one request has reserved an item, and not yet resolved it.
OneRequest ==
    \A p \in Posters :
        /\ job[p].item \notin suppressed
        /\ \A q \in Posters : job[q].item = job[p].item => q = p \/ job[p].item = None

\* What is known of item i: nobody holds it before its row is there; what is
\* suppressed is not selected; and the budget of its messages.
ItemOK(i) ==
    /\ row[i].status = "none" =>
          posts[i] = 0 /\ i \notin suppressed /\ ~ Held(i)
    /\ i \in suppressed => row[i].status \in {"ACTIVE", "PERMANENTLY_FAILED"}
    /\ posts[i] + Cardinality(Senders(job, i)) <= 1 + excuses[i]
    /\ row[i].status \in {"PENDING", "FAILED"} /\ ~ Held(i) => posts[i] <= excuses[i]
    /\ i \in suppressed => posts[i] + Cardinality(Senders(job, i)) <= excuses[i]

IInv == TypeOK /\ Shape /\ OneRequest /\ \A i \in Items : ItemOK(i)
-----------------------------------------------------------------------------
\* How the number of senders of an item changes when one handler moves on.
LEMMA SendersCounted ==
    ASSUME NEW jobs \in [Handlers -> Job], NEW h \in Handlers, NEW w, NEW i
    PROVE  LET n == Cardinality(Senders(jobs, i))
               m == Cardinality(Senders([jobs EXCEPT ![h] = w], i))
           IN /\ n \in Nat /\ m \in Nat
              /\ Unsent(w, i) /\ h \in Senders(jobs, i) => m <= n
              /\ Unsent(w, i) => m <= n + 1
              /\ ~ Unsent(w, i) => m <= n
              /\ ~ Unsent(w, i) /\ h \in Senders(jobs, i) => m + 1 <= n
<1> DEFINE A == Senders(jobs, i)
           B == Senders([jobs EXCEPT ![h] = w], i)
<1>1. IsFiniteSet(A) /\ IsFiniteSet(B)
  BY DeliveryAssumption, FS_Subset DEF Senders
<1>2. Cardinality(A) \in Nat /\ Cardinality(B) \in Nat
  BY <1>1, FS_CardinalityType
<1>3. /\ h \in B <=> Unsent(w, i)
      /\ A \ {h} = B \ {h}
  BY DEF Senders
<1> HIDE DEF A, B
<1>4. CASE Unsent(w, i) /\ h \in A
  <2>1. A = B
    BY <1>3, <1>4
  <2> QED BY <2>1, <1>2, <1>4 DEF A, B
<1>5. CASE ~ Unsent(w, i) /\ ~ h \in A
  <2>1. A = B
    BY <1>3, <1>5
  <2> QED BY <2>1, <1>2, <1>5 DEF A, B
<1>6. CASE Unsent(w, i) /\ ~ h \in A
  <2>1. B = A \cup {h} /\ h \notin A
    BY <1>3, <1>6
  <2>2. Cardinality(B) = Cardinality(A) + 1
    BY <2>1, <1>1, FS_AddElement
  <2> QED BY <2>2, <1>2, <1>6 DEF A, B
<1>7. CASE ~ Unsent(w, i) /\ h \in A
  <2>1. B = A \ {h} /\ h \in A
    BY <1>3, <1>7
  <2>2. Cardinality(B) = Cardinality(A) - 1
    BY <2>1, <1>1, FS_RemoveElement
  <2> QED BY <2>2, <1>2, <1>7 DEF A, B
<1> QED BY <1>4, <1>5, <1>6, <1>7

\* An action of one handler leaves the others as they are.
LEMMA OneHandlerMoves ==
    ASSUME job \in [Handlers -> Job], NEW h \in Handlers,
           \/ h \in Posters /\ \E i \in Items : Receive(h, i)
           \/ SelectBatch(h) \/ Step(h) \/ Lose(h)
    PROVE  job' = [job EXCEPT ![h] = job'[h]]
  BY DEF Receive, SelectBatch, Step, Lose, CheckHushed, WritePosted, Answered,
         AttemptFailed, SendAccepted, SendRefused, SendFailed, SendUnanswered,
         TakeNext, WriteRetried
-----------------------------------------------------------------------------
(* Types, and what a handler has in hand at each of its steps *)

LEMMA RowsTyped ==
    ASSUME NEW r \in [status : Statuses, message : BOOLEAN, old : BOOLEAN],
           NEW result \in Results
    PROVE  /\ PostedRow(r, result) \in [status : Statuses, message : BOOLEAN, old : BOOLEAN]
           /\ result # "hushed" =>
                RetriedRow(r, result) \in [status : Statuses, message : BOOLEAN, old : BOOLEAN]
  BY DEF PostedRow, RetriedRow, Results, Statuses

LEMMA HandlerKept ==
    ASSUME TypeOK, Shape, NEW h \in Handlers, NEW w \in Job, ShapeOf(h, w),
           job' = [job EXCEPT ![h] = w]
    PROVE  job' \in [Handlers -> Job] /\ Shape'
  BY DEF TypeOK, Shape

LEMMA RowKept ==
    ASSUME TypeOK, NEW i \in Items,
           NEW r \in [status : Statuses, message : BOOLEAN, old : BOOLEAN],
           row' = [row EXCEPT ![i] = r]
    PROVE  row' \in [Items -> [status : Statuses, message : BOOLEAN, old : BOOLEAN]]
  BY DEF TypeOK

LEMMA NoJobTyped == NoJob \in Job /\ \A h \in Handlers : ShapeOf(h, NoJob)
  BY DeliveryAssumption DEF NoJob, Job, ShapeOf, Results

\* A handler at a step other than "idle" and "next" has an item in hand.
LEMMA InHand ==
    ASSUME TypeOK, Shape, NEW h \in Handlers, job[h].step \notin {"idle", "next"}
    PROVE  job[h].item \in Items
  BY DEF TypeOK, Shape, ShapeOf, Job

\* send_telegram_message() leaves a handler in shape.
LEMMA SendingKept ==
    ASSUME TypeOK, Shape, NEW h \in Handlers, job[h].step = "send",
           \/ Answered(h, "sent") \/ Answered(h, "refused") \/ AttemptFailed(h)
    PROVE  job' \in [Handlers -> Job] /\ Shape'
<1>1. CASE \E result \in {"sent", "refused", "failed"} : Answered(h, result)
  <2>1. PICK result \in {"sent", "refused", "failed"} : Answered(h, result)
    BY <1>1
  <2> DEFINE w == [job[h] EXCEPT !.step = "write", !.result = result, !.tries = 0]
  <2>2. job' = [job EXCEPT ![h] = w]
    BY <2>1 DEF Answered, TypeOK
  <2>3. w \in Job
    <3>1. 0 \in 0 .. Attempts - 1
      BY DeliveryAssumption
    <3>2. job[h] \in Job
      BY DEF TypeOK
    <3> QED BY <3>1, <3>2 DEF Job, Results
  <2>4. ShapeOf(h, w)
    BY DEF TypeOK, Shape, ShapeOf, Job, Results
  <2> QED BY <2>2, <2>3, <2>4, HandlerKept
<1>2. CASE job[h].tries + 1 < Attempts /\ job' = [job EXCEPT ![h].tries = @ + 1]
  <2> DEFINE w == [job[h] EXCEPT !.tries = @ + 1]
  <2>1. job' = [job EXCEPT ![h] = w]
    BY <1>2 DEF TypeOK
  <2>2. w \in Job
    <3>1. job[h] \in Job
      BY DEF TypeOK
    <3>2. job[h].tries + 1 \in 0 .. Attempts - 1
      BY <1>2, <3>1, DeliveryAssumption DEF Job
    <3> QED BY <3>1, <3>2 DEF Job
  <2>3. ShapeOf(h, w)
    BY DEF TypeOK, Shape, ShapeOf, Job
  <2> QED BY <2>1, <2>2, <2>3, HandlerKept
<1> QED BY <1>1, <1>2 DEF AttemptFailed

\* The types and the shape of the handlers are kept by every step.
LEMMA TypeAndShapeStep ==
    ASSUME TypeOK, Shape, [Next]_vars
    PROVE  TypeOK' /\ Shape'
<1>1. ASSUME NEW p \in Posters, NEW i \in Items, Receive(p, i)
      PROVE  TypeOK' /\ Shape'
  <2> DEFINE w == [NoJob EXCEPT !.item = i, !.step = IF i \in Signals THEN "check" ELSE "send"]
  <2>1. w \in Job /\ ShapeOf(p, w)
    <3>1. i # None /\ None \notin Results
      BY DeliveryAssumption
    <3>2. w \in Job
      BY NoJobTyped DEF NoJob, Job
    <3>3. ShapeOf(p, w)
      BY <3>1 DEF NoJob, ShapeOf, Results
    <3> QED BY <3>2, <3>3
  <2>2. job' \in [Handlers -> Job] /\ Shape'
    BY <1>1, <2>1, HandlerKept DEF Receive, Handlers
  <2>3. [NoRow EXCEPT !.status = "PENDING"] \in [status : Statuses, message : BOOLEAN, old : BOOLEAN]
    BY DEF NoRow, Statuses
  <2>4. row' \in [Items -> [status : Statuses, message : BOOLEAN, old : BOOLEAN]]
    BY <1>1, <2>3, RowKept DEF Receive
  <2> QED BY <1>1, <2>2, <2>4 DEF Receive, TypeOK
<1>2. ASSUME NEW r \in Retriers, SelectBatch(r)
      PROVE  TypeOK' /\ Shape'
  <2>1. PICK table \in {Signals, TradeEvents} :
          \E batch \in SUBSET {i \in table : Retriable(i)} :
            /\ \A i \in batch : Held(i) => excuses[i] < MaxExcuses
            /\ job' = [job EXCEPT ![r] = [NoJob EXCEPT !.step = "next", !.todo = batch]]
            /\ excuses' = [i \in Items |-> IF i \in batch /\ Held(i)
                                           THEN excuses[i] + 1 ELSE excuses[i]]
    BY <1>2 DEF SelectBatch
  <2>2. PICK batch \in SUBSET {i \in table : Retriable(i)} :
            /\ \A i \in batch : Held(i) => excuses[i] < MaxExcuses
            /\ job' = [job EXCEPT ![r] = [NoJob EXCEPT !.step = "next", !.todo = batch]]
            /\ excuses' = [i \in Items |-> IF i \in batch /\ Held(i)
                                           THEN excuses[i] + 1 ELSE excuses[i]]
    BY <2>1
  <2>3. batch \subseteq Items /\ None \notin batch
    BY DeliveryAssumption DEF Items
  <2> DEFINE w == [NoJob EXCEPT !.step = "next", !.todo = batch]
  <2>4. w \in Job
    BY <2>3, NoJobTyped DEF NoJob, Job
  <2>5. ShapeOf(r, w)
    BY <2>3, DeliveryAssumption DEF NoJob, ShapeOf, Results
  <2>6. job' \in [Handlers -> Job] /\ Shape'
    BY <2>2, <2>4, <2>5, HandlerKept DEF Handlers
  <2>7. excuses' \in [Items -> 0 .. MaxExcuses]
    <3>1. ASSUME NEW i \in Items
          PROVE  (IF i \in batch /\ Held(i) THEN excuses[i] + 1 ELSE excuses[i]) \in 0 .. MaxExcuses
      BY <2>2, DeliveryAssumption DEF TypeOK
    <3> QED BY <2>2, <3>1
  <2> QED BY <1>2, <2>6, <2>7 DEF SelectBatch, TypeOK
<1>3. ASSUME NEW h \in Handlers, CheckHushed(h)
      PROVE  TypeOK' /\ Shape'
  <2> DEFINE w == IF job[h].item \in hushed
                  THEN [job[h] EXCEPT !.step = "write", !.result = "hushed"]
                  ELSE [job[h] EXCEPT !.step = "send"]
  <2>1. job' = [job EXCEPT ![h] = w]
    BY <1>3 DEF CheckHushed, TypeOK
  <2>2. w \in Job
    BY <1>3 DEF TypeOK, Job, Results
  <2>3. ShapeOf(h, w)
    BY <1>3 DEF CheckHushed, TypeOK, Shape, ShapeOf, Job, Results
  <2>4. job' \in [Handlers -> Job] /\ Shape'
    BY <2>1, <2>2, <2>3, HandlerKept
  <2> QED BY <1>3, <2>4 DEF CheckHushed, TypeOK
<1>4. ASSUME NEW h \in Handlers, SendAccepted(h)
      PROVE  TypeOK' /\ Shape'
  <2>1. job' \in [Handlers -> Job] /\ Shape'
    BY <1>4, SendingKept DEF SendAccepted
  <2>2. posts' \in [Items -> Nat]
    <3>1. job[h].item \in Items
      BY <1>4, InHand DEF SendAccepted
    <3>2. posts[job[h].item] + 1 \in Nat
      BY <3>1 DEF TypeOK
    <3> QED BY <1>4, <3>1, <3>2 DEF SendAccepted, TypeOK
  <2> QED BY <1>4, <2>1, <2>2 DEF SendAccepted, TypeOK
<1>5. ASSUME NEW h \in Handlers, SendRefused(h)
      PROVE  TypeOK' /\ Shape'
  BY <1>5, SendingKept DEF SendRefused, TypeOK
<1>6. ASSUME NEW h \in Handlers, SendFailed(h)
      PROVE  TypeOK' /\ Shape'
  BY <1>6, SendingKept DEF SendFailed, TypeOK
<1>7. ASSUME NEW h \in Handlers, SendUnanswered(h)
      PROVE  TypeOK' /\ Shape'
  <2>1. job' \in [Handlers -> Job] /\ Shape'
    BY <1>7, SendingKept DEF SendUnanswered
  <2>2. excuses' \in [Items -> 0 .. MaxExcuses] /\ posts' \in [Items -> Nat]
    <3>1. job[h].item \in Items
      BY <1>7, InHand DEF SendUnanswered
    <3>2. excuses[job[h].item] + 1 \in 0 .. MaxExcuses
      BY <1>7, <3>1, DeliveryAssumption DEF SendUnanswered, TypeOK
    <3> QED BY <1>7, <3>1, <3>2 DEF SendUnanswered, TypeOK
  <2> QED BY <1>7, <2>1, <2>2 DEF SendUnanswered, TypeOK
<1>8. ASSUME NEW h \in Handlers, WritePosted(h)
      PROVE  TypeOK' /\ Shape'
  <2>1. job[h].item \in Items /\ job[h].result \in Results
    BY <1>8, InHand DEF WritePosted, Shape, ShapeOf
  <2>2. PostedRow(row[job[h].item], job[h].result)
            \in [status : Statuses, message : BOOLEAN, old : BOOLEAN]
    BY <2>1, RowsTyped DEF TypeOK
  <2>3. row' \in [Items -> [status : Statuses, message : BOOLEAN, old : BOOLEAN]]
    BY <1>8, <2>1, <2>2, RowKept DEF WritePosted
  <2>4. suppressed' \subseteq Signals
    BY <1>8 DEF WritePosted, TypeOK, Shape, ShapeOf
  <2>5. job' \in [Handlers -> Job] /\ Shape'
    BY <1>8, NoJobTyped, HandlerKept DEF WritePosted
  <2> QED BY <1>8, <2>3, <2>4, <2>5 DEF WritePosted, TypeOK
<1>9. ASSUME NEW h \in Handlers, WriteRetried(h)
      PROVE  TypeOK' /\ Shape'
  <2>1. job[h].item \in Items /\ job[h].result \in Results /\ job[h].result # "hushed"
    BY <1>9, InHand, DeliveryAssumption DEF WriteRetried, Shape, ShapeOf
  <2>2. RetriedRow(row[job[h].item], job[h].result)
            \in [status : Statuses, message : BOOLEAN, old : BOOLEAN]
    BY <2>1, RowsTyped DEF TypeOK
  <2>3. row' \in [Items -> [status : Statuses, message : BOOLEAN, old : BOOLEAN]]
    BY <1>9, <2>1, <2>2, RowKept DEF WriteRetried
  <2> DEFINE w == IF job[h].todo = {} THEN NoJob
                  ELSE [NoJob EXCEPT !.step = "next", !.todo = job[h].todo]
  <2>4. w \in Job
    BY NoJobTyped DEF TypeOK, Job, NoJob
  <2>5. None \notin job[h].todo
    BY DeliveryAssumption DEF TypeOK, Job
  <2>6. ShapeOf(h, w)
    BY <1>9, <2>5, NoJobTyped, DeliveryAssumption DEF WriteRetried, ShapeOf, NoJob
  <2>7. job' \in [Handlers -> Job] /\ Shape'
    BY <1>9, <2>4, <2>6, HandlerKept DEF WriteRetried
  <2> QED BY <1>9, <2>3, <2>7 DEF WriteRetried, TypeOK
<1>10. ASSUME NEW h \in Handlers, TakeNext(h)
       PROVE  TypeOK' /\ Shape'
  <2>1. PICK i \in job[h].todo :
            job' = [job EXCEPT ![h].step = "send", ![h].item = i, ![h].todo = @ \ {i}]
    BY <1>10 DEF TakeNext
  <2> DEFINE w == [job[h] EXCEPT !.step = "send", !.item = i, !.todo = @ \ {i}]
  <2>2. job' = [job EXCEPT ![h] = w]
    BY <2>1 DEF TypeOK
  <2>3. w \in Job
    BY DEF TypeOK, Job
  <2>4. i # None
    BY DeliveryAssumption DEF TypeOK, Job
  <2>5. ShapeOf(h, w)
    BY <1>10, <2>4 DEF TakeNext, TypeOK, Shape, ShapeOf, Job
  <2>6. job' \in [Handlers -> Job] /\ Shape'
    BY <2>2, <2>3, <2>5, HandlerKept
  <2> QED BY <1>10, <2>6 DEF TakeNext, TypeOK
<1>11. ASSUME NEW h \in Handlers, Lose(h)
       PROVE  TypeOK' /\ Shape'
  <2>1. excuses' \in [Items -> 0 .. MaxExcuses]
    <3>1. CASE job[h].step = "write" /\ job[h].result = "sent"
      <4>1. job[h].item \in Items
        BY <3>1, InHand
      <4>2. excuses[job[h].item] + 1 \in 0 .. MaxExcuses
        BY <1>11, <3>1, <4>1, DeliveryAssumption DEF Lose, TypeOK
      <4> QED BY <1>11, <3>1, <4>1, <4>2 DEF Lose, TypeOK
    <3>2. CASE ~ (job[h].step = "write" /\ job[h].result = "sent")
      BY <1>11, <3>2 DEF Lose, TypeOK
    <3> QED BY <3>1, <3>2
  <2>2. losses' \in 0 .. MaxLosses
    BY <1>11, DeliveryAssumption DEF Lose, TypeOK
  <2>3. job' \in [Handlers -> Job] /\ Shape'
    BY <1>11, NoJobTyped, HandlerKept DEF Lose
  <2> QED BY <1>11, <2>1, <2>2, <2>3 DEF Lose, TypeOK
<1>12. ASSUME NEW i \in Items, Age(i)
       PROVE  TypeOK' /\ Shape'
  <2>1. row' = [row EXCEPT ![i] = [row[i] EXCEPT !.old = TRUE]]
    BY <1>12 DEF Age, TypeOK
  <2>2. row' \in [Items -> [status : Statuses, message : BOOLEAN, old : BOOLEAN]]
    BY <2>1, RowKept DEF TypeOK
  <2> QED BY <1>12, <2>2 DEF Age, TypeOK, Shape
<1>13. ASSUME NEW muted \in SUBSET Signals, Command(muted)
       PROVE  TypeOK' /\ Shape'
  BY <1>13 DEF Command, TypeOK, Shape
<1>14. CASE UNCHANGED vars
  BY <1>14 DEF vars, TypeOK, Shape
<1> QED BY <1>1, <1>2, <1>3, <1>4, <1>5, <1>6, <1>7, <1>8, <1>9, <1>10, <1>11,
           <1>12, <1>13, <1>14 DEF Next, Step
-----------------------------------------------------------------------------
(* The budget of one item *)

\* Handler h moves on to w: what this means for who sends and who holds item i.
LEMMA Moves ==
    ASSUME TypeOK, NEW h \in Handlers, NEW w, job' = [job EXCEPT ![h] = w], NEW i \in Items
    PROVE  LET n == Cardinality(Senders(job, i))
               m == Cardinality(Senders(job', i))
               holds == w.item = i \/ i \in w.todo
           IN /\ n \in Nat /\ m \in Nat
              /\ Unsent(w, i) /\ Unsent(job[h], i) => m <= n
              /\ Unsent(w, i) => m <= n + 1
              /\ ~ Unsent(w, i) => m <= n
              /\ ~ Unsent(w, i) /\ Unsent(job[h], i) => m + 1 <= n
              /\ holds => Held(i)'
              /\ Held(i) /\ (Holds(h, i) => holds) => Held(i)'
              /\ Held(i)' /\ (holds => Holds(h, i)) => Held(i)
<1>1. job \in [Handlers -> Job]
  BY DEF TypeOK
<1>2. /\ Held(i) <=> \E g \in Handlers : job[g].item = i \/ i \in job[g].todo
      /\ Held(i)' <=> \E g \in Handlers : job'[g].item = i \/ i \in job'[g].todo
  BY DEF Held, Holds
<1>3. /\ \A g \in Handlers : g # h => job'[g] = job[g]
      /\ job'[h] = w
  BY <1>1
<1>4. LET holds == w.item = i \/ i \in w.todo
      IN /\ holds => Held(i)'
         /\ Held(i) /\ (Holds(h, i) => holds) => Held(i)'
         /\ Held(i)' /\ (holds => Holds(h, i)) => Held(i)
  BY <1>2, <1>3 DEF Holds
<1>5. /\ Cardinality(Senders(job, i)) \in Nat
      /\ Cardinality(Senders([job EXCEPT ![h] = w], i)) \in Nat
  BY <1>1, SendersCounted
<1>6. h \in Senders(job, i) <=> Unsent(job[h], i)
  BY DEF Senders
<1> QED BY <1>1, <1>4, <1>5, <1>6, SendersCounted

LEMMA NobodySends ==
    ASSUME NEW i \in Items, ~ Held(i)
    PROVE  Cardinality(Senders(job, i)) = 0
<1>1. Senders(job, i) = {}
  BY DEF Held, Holds, Senders, Unsent
<1> QED BY <1>1, FS_EmptySet

\* An item that a step neither moves nor records.
LEMMA ItemUntouched ==
    ASSUME TypeOK, NEW h \in Handlers, NEW w, job' = [job EXCEPT ![h] = w],
           NEW i \in Items, ItemOK(i),
           row'[i].status = row[i].status, posts'[i] = posts[i], excuses'[i] = excuses[i],
           i \in suppressed' <=> i \in suppressed,
           Unsent(w, i) <=> Unsent(job[h], i),
           (w.item = i \/ i \in w.todo) <=> Holds(h, i)
    PROVE  ItemOK(i)'
<1>1. /\ Cardinality(Senders(job, i)) \in Nat /\ Cardinality(Senders(job', i)) \in Nat
      /\ Cardinality(Senders(job', i)) <= Cardinality(Senders(job, i))
  BY Moves
<1>2. Held(i)' <=> Held(i)
  BY Moves
<1>3. Senders(job, i)' = Senders(job', i)
  BY DEF Senders, Unsent
<1>4. posts[i] \in Nat /\ excuses[i] \in Nat
  BY DeliveryAssumption DEF TypeOK
<1> QED BY <1>1, <1>2, <1>3, <1>4 DEF ItemOK

LEMMA OneRequestKept ==
    ASSUME TypeOK, OneRequest, suppressed' = suppressed,
           \A p \in Posters : job'[p].item = job[p].item \/ job'[p].item = None
    PROVE  OneRequest'
  BY DeliveryAssumption DEF OneRequest, TypeOK, Items

LEMMA Numbers ==
    ASSUME TypeOK, NEW i \in Items
    PROVE  posts[i] \in Nat /\ excuses[i] \in Nat
  BY DeliveryAssumption DEF TypeOK

\* A handler with an item to send, or to write, is one of its senders unless it
\* has sent it.
LEMMA SenderOf ==
    ASSUME TypeOK, Shape, NEW h \in Handlers, job[h].step \notin {"idle", "next"}
    PROVE  /\ job[h].item \in Items /\ job[h].item \notin job[h].todo
           /\ Held(job[h].item)
           /\ job[h].step # "write" => Unsent(job[h], job[h].item)
           /\ job[h].result # "sent" => Unsent(job[h], job[h].item)
  BY InHand DEF Shape, ShapeOf, Held, Holds, Unsent

\* A step of send_telegram_message() that sends nothing.
LEMMA NothingSent ==
    ASSUME IInv, NEW h \in Handlers, job[h].step = "send",
           Answered(h, "refused") \/ AttemptFailed(h),
           UNCHANGED <<row, posts, suppressed, excuses>>
    PROVE  OneRequest' /\ \A i \in Items : ItemOK(i)'
<1> DEFINE w == job'[h]
<1>1. /\ job' = [job EXCEPT ![h] = w]
      /\ w.item = job[h].item /\ w.todo = job[h].todo
      /\ w.step = "send" \/ w.result # "sent"
  BY DEF IInv, TypeOK, Job, Answered, AttemptFailed
<1>2. OneRequest'
  BY <1>1, OneRequestKept DEF IInv, TypeOK, Handlers
<1>3. ASSUME NEW i \in Items
      PROVE  ItemOK(i)'
  <2>1. Unsent(w, i) <=> Unsent(job[h], i)
    BY <1>1 DEF Unsent
  <2>2. (w.item = i \/ i \in w.todo) <=> Holds(h, i)
    BY <1>1 DEF Holds
  <2> QED BY <1>1, <2>1, <2>2, ItemUntouched DEF IInv
<1> QED BY <1>2, <1>3

LEMMA ReceiveStep ==
    ASSUME IInv, NEW p \in Posters, NEW i \in Items, Receive(p, i)
    PROVE  OneRequest' /\ \A j \in Items : ItemOK(j)'
<1> DEFINE w == job'[p]
<1>1. p \in Handlers /\ job' = [job EXCEPT ![p] = w]
  BY DEF IInv, TypeOK, Receive, Handlers
<1>2. job[p].item = None /\ job[p].todo = {} /\ w.item = i /\ w.todo = {} /\ w.step # "write"
  BY <1>1 DEF IInv, TypeOK, Receive, NoJob
<1>3. row[i].status = "none" /\ posts[i] = 0 /\ i \notin suppressed /\ ~ Held(i)
  BY DEF IInv, ItemOK, Receive, Reservable
<1>4. OneRequest'
  <2>1. \A q \in Posters : job[q].item # i
    BY <1>3 DEF Held, Holds, Handlers
  <2>2. \A q \in Posters : q # p => job'[q] = job[q]
    BY <1>1 DEF IInv, TypeOK, Handlers, Receive
  <2> QED BY <1>2, <1>3, <2>1, <2>2 DEF OneRequest, IInv, Receive
<1>5. ItemOK(i)'
  <2>1. Cardinality(Senders(job', i)) \in Nat /\ Cardinality(Senders(job', i)) <= 1
    BY <1>1, <1>3, NobodySends, Moves DEF IInv
  <2>2. Held(i)'
    BY <1>1, <1>2, Moves DEF IInv
  <2>3. row'[i].status = "PENDING"
    BY DEF Receive, NoRow, IInv, TypeOK
  <2>4. excuses[i] \in Nat
    BY Numbers DEF IInv
  <2>5. Senders(job, i)' = Senders(job', i)
    BY DEF Senders, Unsent
  <2> QED BY <1>3, <2>1, <2>2, <2>3, <2>4, <2>5 DEF ItemOK, Receive
<1>6. ASSUME NEW j \in Items, j # i
      PROVE  ItemOK(j)'
  <2>1. j # None
    BY DeliveryAssumption
  <2>2. ~ Unsent(w, j) /\ ~ Unsent(job[p], j)
    BY <1>2, <1>6, <2>1 DEF Unsent
  <2>3. ~ (w.item = j \/ j \in w.todo) /\ ~ Holds(p, j)
    BY <1>2, <1>6, <2>1 DEF Holds
  <2>4. row'[j].status = row[j].status
    BY <1>6 DEF Receive, IInv, TypeOK
  <2> QED BY <1>1, <2>2, <2>3, <2>4, ItemUntouched DEF IInv, Receive
<1> QED BY <1>4, <1>5, <1>6

LEMMA SelectBatchStep ==
    ASSUME IInv, NEW r \in Retriers, SelectBatch(r)
    PROVE  OneRequest' /\ \A i \in Items : ItemOK(i)'
<1> DEFINE w == job'[r]
<1>1. r \in Handlers /\ r \notin Posters
  BY DeliveryAssumption DEF Handlers
<1>2. PICK table \in {Signals, TradeEvents} :
        \E batch \in SUBSET {i \in table : Retriable(i)} :
          /\ job' = [job EXCEPT ![r] = [NoJob EXCEPT !.step = "next", !.todo = batch]]
          /\ excuses' = [i \in Items |-> IF i \in batch /\ Held(i)
                                         THEN excuses[i] + 1 ELSE excuses[i]]
  BY DEF SelectBatch
<1>3. PICK batch \in SUBSET {i \in table : Retriable(i)} :
          /\ job' = [job EXCEPT ![r] = [NoJob EXCEPT !.step = "next", !.todo = batch]]
          /\ excuses' = [i \in Items |-> IF i \in batch /\ Held(i)
                                         THEN excuses[i] + 1 ELSE excuses[i]]
  BY <1>2
<1>4. /\ job' = [job EXCEPT ![r] = w]
      /\ w.item = None /\ w.todo = batch
      /\ job[r].item = None /\ job[r].todo = {}
  <2>1. job[r] = NoJob
    BY DEF SelectBatch
  <2>2. w = [NoJob EXCEPT !.step = "next", !.todo = batch]
    BY <1>1, <1>3 DEF IInv, TypeOK
  <2> HIDE DEF w
  <2>3. job' = [job EXCEPT ![r] = w]
    BY <1>3, <2>2
  <2> QED BY <2>1, <2>2, <2>3 DEF NoJob
<1>5. UNCHANGED <<row, posts, suppressed>>
  BY DEF SelectBatch
<1>6. OneRequest'
  BY <1>1, <1>3, <1>5, OneRequestKept DEF IInv, TypeOK
<1>7. ASSUME NEW i \in Items
      PROVE  ItemOK(i)'
  <2>1. i # None
    BY DeliveryAssumption
  <2>2. CASE i \notin batch
    <3>1. ~ Unsent(w, i) /\ ~ Unsent(job[r], i)
      BY <1>4, <2>1, <2>2 DEF Unsent
    <3>2. ~ (w.item = i \/ i \in w.todo) /\ ~ Holds(r, i)
      BY <1>4, <2>1, <2>2 DEF Holds
    <3>3. excuses'[i] = excuses[i]
      BY <1>3, <2>2
    <3> QED BY <1>1, <1>4, <1>5, <3>1, <3>2, <3>3, ItemUntouched DEF IInv
  <2>3. CASE i \in batch
    <3>1. row[i].status \in {"PENDING", "FAILED"}
      BY <2>3 DEF Retriable
    <3>2. i \notin suppressed
      BY <3>1 DEF IInv, ItemOK
    <3>3. /\ Cardinality(Senders(job, i)) \in Nat
          /\ Cardinality(Senders(job', i)) \in Nat
          /\ Cardinality(Senders(job', i)) <= Cardinality(Senders(job, i)) + 1
      BY <1>1, <1>4, Moves DEF IInv
    <3>4. Held(i)'
      BY <1>1, <1>4, <2>3, Moves DEF IInv
    <3>5. posts[i] \in Nat /\ excuses[i] \in Nat
      BY Numbers DEF IInv
    <3>6. posts[i] + Cardinality(Senders(job', i)) <= 1 + excuses'[i]
      <4>1. CASE Held(i)
        BY <1>3, <2>3, <3>3, <3>5, <4>1 DEF IInv, ItemOK
      <4>2. CASE ~ Held(i)
        <5>1. Cardinality(Senders(job, i)) = 0
          BY <4>2, NobodySends
        <5>2. posts[i] <= excuses[i] /\ excuses'[i] = excuses[i]
          BY <1>3, <3>1, <4>2 DEF IInv, ItemOK
        <5> QED BY <3>3, <3>5, <5>1, <5>2
      <4> QED BY <4>1, <4>2
    <3>7. Senders(job, i)' = Senders(job', i)
      BY DEF Senders, Unsent
    <3> QED BY <1>5, <3>1, <3>2, <3>4, <3>6, <3>7 DEF ItemOK
  <2> QED BY <2>2, <2>3
<1> QED BY <1>6, <1>7

LEMMA CheckHushedStep ==
    ASSUME IInv, NEW h \in Handlers, CheckHushed(h)
    PROVE  OneRequest' /\ \A i \in Items : ItemOK(i)'
<1> DEFINE w == job'[h]
<1>1. /\ job' = [job EXCEPT ![h] = w]
      /\ w.item = job[h].item /\ w.todo = job[h].todo
      /\ w.step = "send" \/ w.result # "sent"
      /\ job[h].step # "write"
  BY DEF IInv, TypeOK, Job, CheckHushed
<1>2. UNCHANGED <<row, posts, suppressed, excuses>>
  BY DEF CheckHushed
<1>3. OneRequest'
  BY <1>1, <1>2, OneRequestKept DEF IInv, TypeOK, Handlers
<1>4. ASSUME NEW i \in Items
      PROVE  ItemOK(i)'
  <2>1. Unsent(w, i) <=> Unsent(job[h], i)
    BY <1>1 DEF Unsent
  <2>2. (w.item = i \/ i \in w.todo) <=> Holds(h, i)
    BY <1>1 DEF Holds
  <2> QED BY <1>1, <1>2, <2>1, <2>2, ItemUntouched DEF IInv
<1> QED BY <1>3, <1>4

LEMMA TakeNextStep ==
    ASSUME IInv, NEW h \in Handlers, TakeNext(h)
    PROVE  OneRequest' /\ \A i \in Items : ItemOK(i)'
<1> DEFINE w == job'[h]
<1>1. PICK k \in job[h].todo :
          job' = [job EXCEPT ![h].step = "send", ![h].item = k, ![h].todo = @ \ {k}]
  BY DEF TakeNext
<1>2. /\ job' = [job EXCEPT ![h] = w]
      /\ w.item = k /\ w.todo = job[h].todo \ {k} /\ w.step = "send"
      /\ job[h].step = "next"
  BY <1>1 DEF IInv, TypeOK, Job, TakeNext
<1>3. UNCHANGED <<row, posts, suppressed, excuses>>
  BY DEF TakeNext
<1>4. h \notin Posters /\ job[h].item = None
  BY <1>1, <1>2 DEF IInv, Shape, ShapeOf
<1>5. OneRequest'
  BY <1>2, <1>3, <1>4, OneRequestKept DEF IInv, TypeOK, Handlers
<1>6. ASSUME NEW i \in Items
      PROVE  ItemOK(i)'
  <2>1. i # None
    BY DeliveryAssumption
  <2>2. Unsent(w, i) <=> Unsent(job[h], i)
    BY <1>1, <1>2, <1>4, <2>1 DEF Unsent
  <2>3. (w.item = i \/ i \in w.todo) <=> Holds(h, i)
    BY <1>1, <1>2, <1>4, <2>1 DEF Holds
  <2> QED BY <1>2, <1>3, <2>2, <2>3, ItemUntouched DEF IInv
<1> QED BY <1>5, <1>6

LEMMA SendAcceptedStep ==
    ASSUME IInv, NEW h \in Handlers, SendAccepted(h)
    PROVE  OneRequest' /\ \A i \in Items : ItemOK(i)'
<1> DEFINE w == job'[h]
<1>0. PICK k \in Items : k = job[h].item
  BY InHand DEF IInv, SendAccepted
<1>1. /\ job' = [job EXCEPT ![h] = w]
      /\ w.item = k /\ w.todo = job[h].todo
      /\ w.step = "write" /\ w.result = "sent" /\ job[h].step = "send"
  BY <1>0 DEF IInv, TypeOK, Job, SendAccepted, Answered
<1>2. UNCHANGED <<row, suppressed, excuses>> /\ posts' = [posts EXCEPT ![k] = @ + 1]
  BY <1>0 DEF SendAccepted
<1>3. k \in Items /\ k \notin job[h].todo /\ Held(k) /\ Unsent(job[h], k)
  BY <1>0, <1>1, SenderOf DEF IInv
<1>4. OneRequest'
  BY <1>0, <1>1, <1>2, OneRequestKept DEF IInv, TypeOK, Handlers
<1>5. ItemOK(k)'
  <2>1. ~ Unsent(w, k)
    BY <1>0, <1>1, <1>3 DEF Unsent
  <2>2. /\ Cardinality(Senders(job, k)) \in Nat
        /\ Cardinality(Senders(job', k)) \in Nat
        /\ Cardinality(Senders(job', k)) + 1 <= Cardinality(Senders(job, k))
    BY <1>1, <1>3, <2>1, Moves DEF IInv
  <2>3. posts[k] \in Nat /\ excuses[k] \in Nat /\ posts'[k] = posts[k] + 1
    BY <1>2, <1>3, Numbers DEF IInv, TypeOK
  <2>4. Held(k)'
    BY <1>1, <1>3, Moves DEF IInv
  <2>5. row[k].status # "none"
    BY <1>3 DEF IInv, ItemOK
  <2>6. Senders(job, k)' = Senders(job', k)
    BY DEF Senders, Unsent
  <2>7. /\ posts'[k] + Cardinality(Senders(job', k)) <= 1 + excuses[k]
        /\ k \in suppressed => posts'[k] + Cardinality(Senders(job', k)) <= excuses[k]
    BY <1>3, <2>2, <2>3 DEF IInv, ItemOK
  <2>8. k \in suppressed => row[k].status \in {"ACTIVE", "PERMANENTLY_FAILED"}
    BY <1>3 DEF IInv, ItemOK
  <2> QED BY <1>1, <1>2, <1>3, <2>4, <2>5, <2>6, <2>7, <2>8 DEF ItemOK
<1>6. ASSUME NEW i \in Items, i # k
      PROVE  ItemOK(i)'
  <2>1. Unsent(w, i) <=> Unsent(job[h], i)
    BY <1>0, <1>1, <1>6 DEF Unsent
  <2>2. (w.item = i \/ i \in w.todo) <=> Holds(h, i)
    BY <1>0, <1>1 DEF Holds
  <2>3. posts'[i] = posts[i]
    BY <1>2, <1>6 DEF IInv, TypeOK
  <2> QED BY <1>1, <1>2, <2>1, <2>2, <2>3, ItemUntouched DEF IInv
<1> QED BY <1>4, <1>5, <1>6

LEMMA SendUnansweredStep ==
    ASSUME IInv, NEW h \in Handlers, SendUnanswered(h)
    PROVE  OneRequest' /\ \A i \in Items : ItemOK(i)'
<1> DEFINE w == job'[h]
<1>0. PICK k \in Items : k = job[h].item
  BY InHand DEF IInv, SendUnanswered
<1>1. /\ job' = [job EXCEPT ![h] = w]
      /\ w.item = k /\ w.todo = job[h].todo
      /\ w.step = "send" \/ w.result # "sent"
      /\ job[h].step = "send"
  BY <1>0 DEF IInv, TypeOK, Job, SendUnanswered, Answered, AttemptFailed
<1>2. /\ UNCHANGED <<row, suppressed>>
      /\ posts' = [posts EXCEPT ![k] = @ + 1] /\ excuses' = [excuses EXCEPT ![k] = @ + 1]
  BY <1>0 DEF SendUnanswered
<1>3. k \in Items /\ k \notin job[h].todo /\ Held(k) /\ Unsent(job[h], k)
  BY <1>0, <1>1, SenderOf DEF IInv
<1>4. OneRequest'
  BY <1>0, <1>1, <1>2, OneRequestKept DEF IInv, TypeOK, Handlers
<1>5. ItemOK(k)'
  <2>1. Unsent(w, k)
    BY <1>0, <1>1, <1>3 DEF Unsent
  <2>2. /\ Cardinality(Senders(job, k)) \in Nat
        /\ Cardinality(Senders(job', k)) \in Nat
        /\ Cardinality(Senders(job', k)) <= Cardinality(Senders(job, k))
    BY <1>1, <1>3, <2>1, Moves DEF IInv
  <2>3. /\ posts[k] \in Nat /\ excuses[k] \in Nat
        /\ posts'[k] = posts[k] + 1 /\ excuses'[k] = excuses[k] + 1
    BY <1>2, <1>3, Numbers DEF IInv, TypeOK
  <2>4. Held(k)'
    BY <1>1, <1>3, Moves DEF IInv
  <2>5. row[k].status # "none"
    BY <1>3 DEF IInv, ItemOK
  <2>6. Senders(job, k)' = Senders(job', k)
    BY DEF Senders, Unsent
  <2>7. /\ posts'[k] + Cardinality(Senders(job', k)) <= 1 + excuses'[k]
        /\ k \in suppressed => posts'[k] + Cardinality(Senders(job', k)) <= excuses'[k]
    BY <1>3, <2>2, <2>3 DEF IInv, ItemOK
  <2>8. k \in suppressed => row[k].status \in {"ACTIVE", "PERMANENTLY_FAILED"}
    BY <1>3 DEF IInv, ItemOK
  <2> QED BY <1>1, <1>2, <1>3, <2>4, <2>5, <2>6, <2>7, <2>8 DEF ItemOK
<1>6. ASSUME NEW i \in Items, i # k
      PROVE  ItemOK(i)'
  <2>1. Unsent(w, i) <=> Unsent(job[h], i)
    BY <1>0, <1>1, <1>6 DEF Unsent
  <2>2. (w.item = i \/ i \in w.todo) <=> Holds(h, i)
    BY <1>0, <1>1 DEF Holds
  <2>3. posts'[i] = posts[i] /\ excuses'[i] = excuses[i]
    BY <1>2, <1>6 DEF IInv, TypeOK
  <2> QED BY <1>1, <1>2, <2>1, <2>2, <2>3, ItemUntouched DEF IInv
<1> QED BY <1>4, <1>5, <1>6

\* A handler that has no message to record, and lets go of item k, was one of
\* its senders: the message it has not sent stays in the budget.
LEMMA SenderLeaves ==
    ASSUME IInv, NEW h \in Handlers, NEW w, job' = [job EXCEPT ![h] = w],
           NEW k \in Items, Unsent(job[h], k), ~ Unsent(w, k)
    PROVE  /\ posts[k] + Cardinality(Senders(job', k)) <= excuses[k]
           /\ posts[k] <= excuses[k]
<1>1. /\ Cardinality(Senders(job, k)) \in Nat
      /\ Cardinality(Senders(job', k)) \in Nat
      /\ Cardinality(Senders(job', k)) + 1 <= Cardinality(Senders(job, k))
  BY Moves DEF IInv
<1>2. posts[k] \in Nat /\ excuses[k] \in Nat
  BY Numbers DEF IInv
<1> QED BY <1>1, <1>2 DEF IInv, ItemOK

LEMMA WritePostedStep ==
    ASSUME IInv, NEW h \in Handlers, WritePosted(h)
    PROVE  OneRequest' /\ \A i \in Items : ItemOK(i)'
<1> DEFINE w == job'[h]
<1>0. PICK k \in Items : k = job[h].item
  BY InHand DEF IInv, WritePosted
<1>1. /\ job' = [job EXCEPT ![h] = NoJob] /\ h \in Posters
      /\ job[h].step = "write" /\ job[h].todo = {} /\ job[h].result \in Results
  BY DEF IInv, WritePosted, Shape, ShapeOf
<1>2. UNCHANGED <<posts, excuses>>
  BY DEF WritePosted
<1>3. /\ row' = [row EXCEPT ![k] = PostedRow(row[k], job[h].result)]
      /\ suppressed' = IF job[h].result = "hushed" THEN suppressed \cup {k} ELSE suppressed
  BY <1>0 DEF WritePosted
<1>4. /\ job'[h] = NoJob /\ \A g \in Handlers : g # h => job'[g] = job[g]
  BY <1>1 DEF IInv, TypeOK
<1>5. k \notin suppressed
  BY <1>0, <1>1 DEF IInv, OneRequest
<1>6. OneRequest'
  <2>1. None \notin suppressed'
    BY <1>3, DeliveryAssumption DEF IInv, TypeOK, Items
  <2>2. \A p \in Posters : p # h => job[p].item # k
    BY <1>0, <1>1, DeliveryAssumption DEF IInv, OneRequest
  <2>3. \A p \in Posters : job'[p].item \notin suppressed'
    BY <1>3, <1>4, <2>1, <2>2 DEF NoJob, IInv, OneRequest, Handlers
  <2>4. \A p, q \in Posters : job'[q].item = job'[p].item => q = p \/ job'[p].item = None
    BY <1>4 DEF NoJob, IInv, OneRequest, Handlers
  <2> QED BY <2>3, <2>4 DEF OneRequest
<1>7. ~ Unsent(NoJob, k)
  BY DeliveryAssumption DEF Unsent, NoJob
<1>8. ItemOK(k)'
  <2>1. /\ row'[k].status # "none"
        /\ row'[k].status = "PENDING" => FALSE
        /\ row'[k].status = "FAILED" => job[h].result = "failed"
        /\ job[h].result = "hushed" => row'[k].status = "ACTIVE"
    BY <1>1, <1>3 DEF IInv, TypeOK, PostedRow, Results, Statuses
  <2>2. Senders(job, k)' = Senders(job', k)
    BY DEF Senders, Unsent
  <2>3. job[h].result # "sent" =>
          posts[k] + Cardinality(Senders(job', k)) <= excuses[k] /\ posts[k] <= excuses[k]
    BY <1>0, <1>1, <1>7, SenderLeaves DEF Unsent
  <2>4. /\ Cardinality(Senders(job, k)) \in Nat /\ Cardinality(Senders(job', k)) \in Nat
        /\ Cardinality(Senders(job', k)) <= Cardinality(Senders(job, k))
    BY <1>1, <1>7, Moves DEF IInv
  <2>5. posts[k] \in Nat /\ excuses[k] \in Nat
    BY Numbers DEF IInv
  <2>6. posts[k] + Cardinality(Senders(job', k)) <= 1 + excuses[k]
    BY <2>4, <2>5 DEF IInv, ItemOK
  <2>7. k \in suppressed' => job[h].result = "hushed"
    BY <1>3, <1>5
  <2> QED BY <1>2, <2>1, <2>2, <2>3, <2>6, <2>7 DEF ItemOK
<1>9. ASSUME NEW i \in Items, i # k
      PROVE  ItemOK(i)'
  <2>1. i # None
    BY DeliveryAssumption
  <2>2. ~ Unsent(NoJob, i) /\ ~ Unsent(job[h], i)
    BY <1>0, <1>1, <1>9, <2>1 DEF Unsent, NoJob
  <2>3. ~ (NoJob.item = i \/ i \in NoJob.todo) /\ ~ Holds(h, i)
    BY <1>0, <1>1, <1>9, <2>1 DEF Holds, NoJob
  <2>4. row'[i] = row[i] /\ (i \in suppressed' <=> i \in suppressed)
    BY <1>3, <1>9 DEF IInv, TypeOK
  <2> QED BY <1>1, <1>2, <2>2, <2>3, <2>4, ItemUntouched DEF IInv
<1> QED BY <1>6, <1>8, <1>9

LEMMA WriteRetriedStep ==
    ASSUME IInv, NEW h \in Handlers, WriteRetried(h)
    PROVE  OneRequest' /\ \A i \in Items : ItemOK(i)'
<1> DEFINE w == job'[h]
<1>0. PICK k \in Items : k = job[h].item
  BY InHand DEF IInv, WriteRetried
<1>1. /\ job' = [job EXCEPT ![h] = w]
      /\ w.item = None /\ w.todo = job[h].todo
      /\ job[h].step = "write" /\ h \notin Posters
      /\ job[h].result \in {"sent", "refused", "failed"}
  BY DeliveryAssumption DEF IInv, TypeOK, WriteRetried, Shape, ShapeOf, NoJob, Results
<1>2. UNCHANGED <<posts, excuses, suppressed>>
  BY DEF WriteRetried
<1>3. row' = [row EXCEPT ![k] = RetriedRow(row[k], job[h].result)]
  BY <1>0 DEF WriteRetried
<1>4. OneRequest'
  BY <1>1, <1>2, OneRequestKept DEF IInv, TypeOK, Handlers
<1>5. k \notin job[h].todo /\ Held(k)
  BY <1>0, <1>1, SenderOf DEF IInv
<1>6. ~ Unsent(w, k)
  BY <1>1, <1>5, DeliveryAssumption DEF Unsent
<1>7. ItemOK(k)'
  <2>1. /\ row[k].status # "none"
        /\ k \in suppressed => row[k].status \in {"ACTIVE", "PERMANENTLY_FAILED"}
    BY <1>5 DEF IInv, ItemOK
  <2>2. /\ row'[k].status # "none"
        /\ k \in suppressed => row'[k].status \in {"ACTIVE", "PERMANENTLY_FAILED"}
        /\ row'[k].status \in {"PENDING", "FAILED"} => job[h].result = "failed"
    BY <1>1, <1>3, <2>1 DEF IInv, TypeOK, RetriedRow
  <2>3. Senders(job, k)' = Senders(job', k)
    BY DEF Senders, Unsent
  <2>4. job[h].result # "sent" => posts[k] <= excuses[k]
    BY <1>0, <1>1, <1>6, SenderLeaves DEF Unsent
  <2>5. /\ Cardinality(Senders(job, k)) \in Nat /\ Cardinality(Senders(job', k)) \in Nat
        /\ Cardinality(Senders(job', k)) <= Cardinality(Senders(job, k))
    BY <1>1, <1>6, Moves DEF IInv
  <2>6. posts[k] \in Nat /\ excuses[k] \in Nat
    BY Numbers DEF IInv
  <2>7. /\ posts[k] + Cardinality(Senders(job', k)) <= 1 + excuses[k]
        /\ k \in suppressed => posts[k] + Cardinality(Senders(job', k)) <= excuses[k]
    BY <2>5, <2>6 DEF IInv, ItemOK
  <2> QED BY <1>2, <2>2, <2>3, <2>4, <2>7 DEF ItemOK
<1>8. ASSUME NEW i \in Items, i # k
      PROVE  ItemOK(i)'
  <2>1. i # None
    BY DeliveryAssumption
  <2>2. Unsent(w, i) <=> Unsent(job[h], i)
    BY <1>0, <1>1, <1>8, <2>1 DEF Unsent
  <2>3. (w.item = i \/ i \in w.todo) <=> Holds(h, i)
    BY <1>0, <1>1, <1>8, <2>1 DEF Holds
  <2>4. row'[i] = row[i]
    BY <1>3, <1>8 DEF IInv, TypeOK
  <2> QED BY <1>1, <1>2, <2>2, <2>3, <2>4, ItemUntouched DEF IInv
<1> QED BY <1>4, <1>7, <1>8

LEMMA LoseStep ==
    ASSUME IInv, NEW h \in Handlers, Lose(h)
    PROVE  OneRequest' /\ \A i \in Items : ItemOK(i)'
<1>1. job' = [job EXCEPT ![h] = NoJob] /\ UNCHANGED <<row, posts, suppressed>>
  BY DEF Lose
<1>2. OneRequest'
  BY <1>1, OneRequestKept DEF IInv, TypeOK, Handlers, NoJob
<1>3. ASSUME NEW i \in Items
      PROVE  ItemOK(i)'
  <2>1. i # None
    BY DeliveryAssumption
  <2>2. ~ Unsent(NoJob, i) /\ ~ (NoJob.item = i \/ i \in NoJob.todo)
    BY <2>1 DEF Unsent, NoJob
  <2>3. posts[i] \in Nat /\ excuses[i] \in Nat
    BY Numbers DEF IInv
  <2>4. /\ Cardinality(Senders(job, i)) \in Nat /\ Cardinality(Senders(job', i)) \in Nat
        /\ Cardinality(Senders(job', i)) <= Cardinality(Senders(job, i))
    BY <1>1, <2>2, Moves DEF IInv
  <2>5. Senders(job, i)' = Senders(job', i)
    BY DEF Senders, Unsent
  <2>6. CASE ~ Holds(h, i)
    <3>1. ~ Unsent(job[h], i)
      BY <2>6 DEF Holds, Unsent
    <3>2. excuses'[i] = excuses[i]
      BY <2>6 DEF Lose, Holds, IInv, TypeOK
    <3> QED BY <1>1, <2>2, <2>6, <3>1, <3>2, ItemUntouched DEF IInv
  <2>7. CASE Holds(h, i)
    <3>1. Held(i)
      BY <2>7 DEF Held
    <3>2. /\ row[i].status # "none"
          /\ i \in suppressed => row[i].status \in {"ACTIVE", "PERMANENTLY_FAILED"}
      BY <3>1 DEF IInv, ItemOK
    <3>3. excuses'[i] \in Nat /\ excuses[i] <= excuses'[i] /\ posts[i] <= excuses'[i]
      <4>1. CASE Unsent(job[h], i)
        <5>1. excuses'[i] = excuses[i] \/ excuses'[i] = excuses[i] + 1
          BY DEF Lose, IInv, TypeOK
        <5>2. posts[i] <= excuses[i]
          BY <1>1, <2>2, <4>1, SenderLeaves
        <5> QED BY <2>3, <5>1, <5>2
      <4>2. CASE ~ Unsent(job[h], i)
        <5>1. job[h].item = i /\ job[h].step = "write" /\ job[h].result = "sent"
          BY <2>7, <4>2 DEF Unsent, Holds
        <5>2. excuses'[i] = excuses[i] + 1
          BY <5>1 DEF Lose, IInv, TypeOK
        <5>3. posts[i] <= excuses[i] + 1
          BY <2>3, <2>4 DEF IInv, ItemOK
        <5> QED BY <2>3, <5>2, <5>3
      <4> QED BY <4>1, <4>2
    <3>4. /\ posts[i] + Cardinality(Senders(job', i)) <= 1 + excuses'[i]
          /\ i \in suppressed => posts[i] + Cardinality(Senders(job', i)) <= excuses'[i]
      BY <2>3, <2>4, <3>3 DEF IInv, ItemOK
    <3> QED BY <1>1, <2>5, <3>2, <3>3, <3>4 DEF ItemOK
  <2> QED BY <2>6, <2>7
<1> QED BY <1>2, <1>3

LEMMA OtherStep ==
    ASSUME IInv, UNCHANGED <<job, posts, suppressed, excuses>>,
           \A i \in Items : row'[i].status = row[i].status
    PROVE  OneRequest' /\ \A i \in Items : ItemOK(i)'
<1>1. OneRequest'
  BY DEF IInv, OneRequest
<1>2. ASSUME NEW i \in Items
      PROVE  ItemOK(i)'
  <2>1. Senders(job, i)' = Senders(job, i) /\ (Held(i)' <=> Held(i))
    BY DEF Senders, Unsent, Held, Holds
  <2> QED BY <2>1 DEF IInv, ItemOK
<1> QED BY <1>1, <1>2
-----------------------------------------------------------------------------
(* The invariant and what follows from it *)

LEMMA InitIInv == Init => IInv
<1> SUFFICES ASSUME Init PROVE IInv
  OBVIOUS
<1>1. TypeOK
  BY NoJobTyped, DeliveryAssumption DEF Init, TypeOK, NoRow, Statuses
<1>2. Shape
  BY NoJobTyped DEF Init, Shape
<1>3. OneRequest
  BY DEF Init, OneRequest, NoJob, Handlers
<1>4. ASSUME NEW i \in Items
      PROVE  ItemOK(i)
  <2>1. i # None
    BY DeliveryAssumption
  <2>2. ~ Held(i)
    BY <2>1 DEF Init, Held, Holds, NoJob
  <2>3. Cardinality(Senders(job, i)) = 0
    BY <2>2, NobodySends
  <2> QED BY <2>2, <2>3 DEF Init, ItemOK, NoRow
<1> QED BY <1>1, <1>2, <1>3, <1>4 DEF IInv

LEMMA NextIInv == IInv /\ [Next]_vars => IInv'
<1> SUFFICES ASSUME IInv, [Next]_vars PROVE OneRequest' /\ \A i \in Items : ItemOK(i)'
  BY TypeAndShapeStep DEF IInv
<1>1. ASSUME NEW h \in Handlers, Step(h)
      PROVE  OneRequest' /\ \A i \in Items : ItemOK(i)'
  <2>1. CASE SendRefused(h)
    BY <2>1, NothingSent DEF SendRefused
  <2>2. CASE SendFailed(h)
    BY <2>2, NothingSent DEF SendFailed
  <2> QED BY <1>1, <2>1, <2>2, CheckHushedStep, SendAcceptedStep, SendUnansweredStep,
             WritePostedStep, WriteRetriedStep, TakeNextStep DEF Step
<1>2. ASSUME NEW i \in Items, Age(i)
      PROVE  OneRequest' /\ \A j \in Items : ItemOK(j)'
  <2>1. \A j \in Items : row'[j].status = row[j].status
    BY <1>2 DEF Age, IInv, TypeOK
  <2> QED BY <1>2, <2>1, OtherStep DEF Age
<1>3. ASSUME NEW muted \in SUBSET Signals, Command(muted)
      PROVE  OneRequest' /\ \A j \in Items : ItemOK(j)'
  BY <1>3, OtherStep DEF Command
<1>4. CASE UNCHANGED vars
  BY <1>4, OtherStep DEF vars
<1> QED BY <1>1, <1>2, <1>3, <1>4, ReceiveStep, SelectBatchStep, LoseStep DEF Next

LEMMA SpecIInv == Spec => []IInv
<1> QED BY InitIInv, NextIInv, PTL DEF Spec

\* Every variable of the delivery keeps its type, whatever overlaps.
THEOREM DeliveryTypeCorrect == Spec => []TypeOK
<1>1. IInv => TypeOK
  BY DEF IInv
<1> QED BY <1>1, SpecIInv, PTL

\* A message beyond the first of an item has an excuse, for any number of items,
\* requests, retries, attempts and losses: see NoSecondMessage.
THEOREM AtMostOneMessage == Spec => []NoSecondMessage
<1>1. IInv => NoSecondMessage
  <2> SUFFICES ASSUME IInv, NEW i \in Items PROVE posts[i] <= 1 + excuses[i]
    BY DEF NoSecondMessage
  <2>1. Cardinality(Senders(job, i)) \in Nat
    <3>1. IsFiniteSet(Senders(job, i))
      BY DeliveryAssumption, FS_Subset DEF Senders
    <3> QED BY <3>1, FS_CardinalityType
  <2>2. posts[i] \in Nat /\ excuses[i] \in Nat
    BY Numbers DEF IInv
  <2> QED BY <2>1, <2>2 DEF IInv, ItemOK
<1> QED BY <1>1, SpecIInv, PTL

\* A signal recorded without a message on purpose is not sent later, unless a
\* retry had it in hand before: see SuppressedStaysSilent.
THEOREM SuppressedIsNotSent == Spec => []SuppressedStaysSilent
<1>1. IInv => SuppressedStaysSilent
  <2> SUFFICES ASSUME IInv, NEW i \in suppressed PROVE posts[i] <= excuses[i]
    BY DEF SuppressedStaysSilent
  <2>1. i \in Items
    BY DEF IInv, TypeOK, Items
  <2>2. Cardinality(Senders(job, i)) \in Nat
    <3>1. IsFiniteSet(Senders(job, i))
      BY DeliveryAssumption, FS_Subset DEF Senders
    <3> QED BY <3>1, FS_CardinalityType
  <2>3. posts[i] \in Nat /\ excuses[i] \in Nat
    BY <2>1, Numbers DEF IInv
  <2> QED BY <2>1, <2>2, <2>3 DEF IInv, ItemOK
<1> QED BY <1>1, SpecIInv, PTL
-----------------------------------------------------------------------------
(* What a row says is true of the chat.  A handler records its result long   *)
(* after it has sent, over a row that others may have written meanwhile: it  *)
(* is the result it carries that has to be true.                             *)

\* Who is about to record a message has sent one.
ResultsAreTrue ==
    \A h \in Handlers :
        job[h].step = "write" /\ job[h].result = "sent" => posts[job[h].item] > 0

AccountInv == ActiveIsAccountedFor /\ ResultsAreTrue

\* Messages stay in the chat, and a signal held back stays on record as such.
LEMMA PostsStay ==
    ASSUME IInv, [Next]_vars
    PROVE  /\ suppressed \subseteq suppressed'
           /\ \A i \in Items : posts[i] > 0 => posts'[i] > 0
<1>1. \/ UNCHANGED posts
      \/ \E h \in Handlers : posts' = [posts EXCEPT ![job[h].item] = @ + 1]
  BY DEF Next, vars, Receive, SelectBatch, Step, Lose, Age, Command, CheckHushed, SendAccepted,
         SendRefused, SendFailed, SendUnanswered, WritePosted, WriteRetried, TakeNext
<1>2. \A i \in Items : posts[i] \in Nat
  BY DEF IInv, TypeOK
<1>3. suppressed \subseteq suppressed'
  BY DEF Next, vars, Receive, SelectBatch, Step, Lose, Age, Command, CheckHushed, SendAccepted,
         SendRefused, SendFailed, SendUnanswered, WritePosted, WriteRetried, TakeNext
<1>4. \A i \in Items : posts[i] > 0 => posts'[i] > 0
  BY <1>1, <1>2 DEF IInv, TypeOK
<1> QED BY <1>3, <1>4

\* A handler whose job changes has taken a step itself.
LEMMA WhoMoves ==
    ASSUME IInv, [Next]_vars, NEW h \in Handlers, job'[h] # job[h]
    PROVE  \/ h \in Posters /\ \E i \in Items : Receive(h, i)
           \/ h \in Retriers /\ SelectBatch(h)
           \/ Step(h) \/ Lose(h)
<1>1. job \in [Handlers -> Job]
  BY DEF IInv, TypeOK
<1>2. ASSUME NEW g \in Handlers,
             \/ g \in Posters /\ \E i \in Items : Receive(g, i)
             \/ SelectBatch(g) \/ Step(g) \/ Lose(g)
      PROVE  g = h
  <2>1. job' = [job EXCEPT ![g] = job'[g]]
    BY <1>1, <1>2, OneHandlerMoves
  <2> QED BY <1>1, <2>1
<1>3. ~ (\E i \in Items : Age(i)) /\ ~ (\E muted \in SUBSET Signals : Command(muted))
      /\ ~ UNCHANGED vars
  BY DEF Age, Command, vars
<1> QED BY <1>2, <1>3 DEF Next, Handlers

LEMMA NextResults ==
    ASSUME IInv, ResultsAreTrue, [Next]_vars
    PROVE  ResultsAreTrue'
<1> USE DEF IInv
<1>1. SUFFICES ASSUME NEW h \in Handlers, job'[h].step = "write", job'[h].result = "sent"
               PROVE  posts'[job'[h].item] > 0
  BY DEF ResultsAreTrue
<1>2. CASE job'[h] = job[h]
  BY <1>1, <1>2, InHand, PostsStay DEF ResultsAreTrue
<1>3. CASE job'[h] # job[h]
  <2>1. Step(h)
    <3>1. ASSUME NEW i \in Items, Receive(h, i)
          PROVE  FALSE
      <4>1. job'[h].step = IF i \in Signals THEN "check" ELSE "send"
        BY <3>1 DEF Receive, TypeOK, NoJob
      <4> QED BY <1>1, <4>1
    <3>2. ~ SelectBatch(h)
      <4>1. SelectBatch(h) => \E batch :
               job' = [job EXCEPT ![h] = [NoJob EXCEPT !.step = "next", !.todo = batch]]
        BY DEF SelectBatch
      <4> QED BY <1>1, <4>1 DEF TypeOK, NoJob
    <3>3. ~ Lose(h)
      BY <1>1 DEF Lose, TypeOK, NoJob
    <3> QED BY <1>3, <3>1, <3>2, <3>3, WhoMoves
  <2>2. SendAccepted(h)
    <3>1. ~ CheckHushed(h) /\ ~ TakeNext(h)
      BY <1>1 DEF CheckHushed, TakeNext, TypeOK, Job
    <3>2. ~ WritePosted(h) /\ ~ WriteRetried(h)
      <4>1. WritePosted(h) => job'[h] = NoJob
        BY DEF WritePosted, TypeOK
      <4>2. WriteRetried(h) => job'[h] = IF job[h].todo = {} THEN NoJob
                              ELSE [NoJob EXCEPT !.step = "next", !.todo = job[h].todo]
        BY DEF WriteRetried, TypeOK
      <4>3. NoJob.step # "write" /\ \A s : [NoJob EXCEPT !.step = "next", !.todo = s].step # "write"
        BY DEF NoJob
      <4> QED BY <1>1, <4>1, <4>2, <4>3
    <3>3. ~ SendRefused(h)
      BY <1>1 DEF SendRefused, Answered, TypeOK, Job
    <3>4. ~ SendFailed(h) /\ ~ SendUnanswered(h)
      BY <1>1 DEF SendFailed, SendUnanswered, AttemptFailed, Answered, TypeOK, Job
    <3> QED BY <2>1, <3>1, <3>2, <3>3, <3>4 DEF Step
  <2>3. job[h].item \in Items /\ job'[h].item = job[h].item
    BY <2>2, InHand DEF SendAccepted, Answered, TypeOK
  <2>4. posts'[job[h].item] = posts[job[h].item] + 1 /\ posts[job[h].item] \in Nat
    BY <2>2, <2>3 DEF SendAccepted, TypeOK
  <2> QED BY <2>3, <2>4
<1> QED BY <1>2, <1>3

\* One row is written at a time, with what its writer knows.
LEMMA NextAccounted ==
    ASSUME IInv, AccountInv, [Next]_vars
    PROVE  ActiveIsAccountedFor'
<1> USE DEF IInv, AccountInv
<1> DEFINE Kept(i) == /\ row'[i].status = "ACTIVE" => row[i].status = "ACTIVE"
                      /\ row'[i].message = row[i].message
<1>1. ASSUME NEW i \in Items, Kept(i)
      PROVE  /\ row'[i].status = "ACTIVE" => row'[i].message \/ i \in suppressed'
             /\ row'[i].message => posts'[i] > 0
  BY <1>1, PostsStay DEF ActiveIsAccountedFor
<1>2. CASE UNCHANGED row
  BY <1>1, <1>2 DEF ActiveIsAccountedFor
<1>3. ASSUME NEW p \in Posters, NEW k \in Items, Receive(p, k)
      PROVE  ActiveIsAccountedFor'
  <2>1. \A i \in Items : i # k => row'[i] = row[i]
    BY <1>3 DEF Receive, TypeOK
  <2>2. row'[k].status = "PENDING" /\ row'[k].message = FALSE
    BY <1>3 DEF Receive, TypeOK, NoRow
  <2> QED BY <1>1, <2>1, <2>2 DEF ActiveIsAccountedFor
<1>4. ASSUME NEW k \in Items, Age(k)
      PROVE  ActiveIsAccountedFor'
  <2>1. \A i \in Items : row'[i].status = row[i].status /\ row'[i].message = row[i].message
    BY <1>4 DEF Age, TypeOK
  <2> QED BY <1>1, <2>1 DEF ActiveIsAccountedFor
<1>5. ASSUME NEW h \in Handlers, WritePosted(h) \/ WriteRetried(h)
      PROVE  ActiveIsAccountedFor'
  <2>1. PICK k \in Items : k = job[h].item
    BY <1>5, InHand DEF WritePosted, WriteRetried
  <2>2. \A i \in Items : i # k => row'[i] = row[i]
    BY <1>5, <2>1 DEF WritePosted, WriteRetried, TypeOK
  <2>3. row[k] \in [status : Statuses, message : BOOLEAN, old : BOOLEAN]
    BY DEF TypeOK
  <2>4. job[h].step = "write" /\ job[h].result \in Results /\ posts' = posts
    BY <1>5 DEF WritePosted, WriteRetried, Shape, ShapeOf
  <2>5. job[h].result = "sent" => posts[k] > 0
    BY <2>1, <2>4 DEF ResultsAreTrue
  <2>6. CASE WritePosted(h)
    <3>1. row'[k] = PostedRow(row[k], job[h].result)
      BY <2>1, <2>6 DEF WritePosted, TypeOK
    <3>2. job[h].result = "hushed" => k \in suppressed'
      BY <2>1, <2>6 DEF WritePosted
    <3>3. /\ row'[k].status = "ACTIVE" => row'[k].message \/ k \in suppressed'
          /\ row'[k].message => posts'[k] > 0
      BY <2>3, <2>4, <2>5, <3>1, <3>2 DEF PostedRow, Results, ActiveIsAccountedFor
    <3> QED BY <1>1, <2>2, <3>3 DEF ActiveIsAccountedFor
  <2>7. CASE WriteRetried(h)
    <3>1. row'[k] = RetriedRow(row[k], job[h].result)
      BY <2>1, <2>7 DEF WriteRetried, TypeOK
    <3>2. job[h].result # "hushed"
      BY <2>7, DeliveryAssumption DEF WriteRetried, Shape, ShapeOf
    <3>3. /\ row'[k].status = "ACTIVE" => row'[k].message \/ k \in suppressed'
          /\ row'[k].message => posts'[k] > 0
      BY <2>3, <2>4, <2>5, <3>1, <3>2, PostsStay DEF RetriedRow, Results, ActiveIsAccountedFor
    <3> QED BY <1>1, <2>2, <3>3 DEF ActiveIsAccountedFor
  <2> QED BY <1>5, <2>6, <2>7
<1> QED
  BY <1>2, <1>3, <1>4, <1>5
     DEF Next, vars, SelectBatch, Step, Lose, Command, CheckHushed, SendAccepted,
         SendRefused, SendFailed, SendUnanswered, TakeNext

\* Every ACTIVE row is a message in the chat or a signal held back on purpose,
\* however requests and retries wrote over each other: see ActiveIsAccountedFor.
THEOREM ActiveMeansSent == Spec => []ActiveIsAccountedFor
<1>1. Init => AccountInv
  BY DEF Init, AccountInv, ActiveIsAccountedFor, ResultsAreTrue, NoRow, NoJob
<1>2. IInv /\ AccountInv /\ [Next]_vars => AccountInv'
  BY NextResults, NextAccounted DEF AccountInv
<1>3. AccountInv => ActiveIsAccountedFor
  BY DEF AccountInv
<1> QED BY <1>1, <1>2, <1>3, SpecIInv, PTL DEF Spec
-----------------------------------------------------------------------------
(* No reservation is left behind by a handler that runs to its end. *)

\* A step that is not the end of a request leaves every request its item.
LEMMA RequestGoesOn ==
    ASSUME IInv, [Next]_vars, losses' = losses, NEW p \in Posters, job[p].item # None
    PROVE  job'[p].item = job[p].item \/ WritePosted(p)
<1> USE DEF IInv
<1>1. CASE job'[p] = job[p]
  BY <1>1
<1>2. CASE job'[p] # job[p]
  <2>1. p \in Handlers /\ job[p] # NoJob /\ job[p].todo = {}
    BY DEF Handlers, Shape, ShapeOf, NoJob
  <2>2. ~ Lose(p)
    BY DeliveryAssumption DEF Lose, TypeOK
  <2>3. p \notin Retriers
    BY DeliveryAssumption
  <2>4. Step(p)
    BY <1>2, <2>1, <2>2, <2>3, WhoMoves DEF Receive
  <2>5. ~ WriteRetried(p) /\ ~ TakeNext(p)
    BY <2>1, <2>3 DEF WriteRetried, TakeNext
  <2>6. CheckHushed(p) \/ SendAccepted(p) \/ SendRefused(p) => job'[p].item = job[p].item
    BY <2>1 DEF CheckHushed, SendAccepted, SendRefused, Answered, TypeOK, Job
  <2>7. SendFailed(p) \/ SendUnanswered(p) => job'[p].item = job[p].item
    BY <2>1 DEF SendFailed, SendUnanswered, AttemptFailed, Answered, TypeOK, Job
  <2> QED BY <2>4, <2>5, <2>6, <2>7 DEF Step
<1> QED BY <1>1, <1>2

\* Losses are counted and never forgotten.
LEMMA LossesStay == TypeOK /\ [Next]_vars => losses \in Nat /\ losses' \in {losses, losses + 1}
<1>1. TypeOK => losses \in Nat
  BY DeliveryAssumption DEF TypeOK
<1>2. [Next]_vars => losses' = losses \/ losses' = losses + 1
  BY DEF Next, vars, Receive, SelectBatch, Step, Lose, Age, Command, CheckHushed,
         SendAccepted, SendRefused, SendFailed, SendUnanswered, WritePosted, WriteRetried, TakeNext
<1> QED BY <1>1, <1>2

LEMMA NextStranded ==
    ASSUME IInv, StrandedOnlyByLoss, [Next]_vars
    PROVE  StrandedOnlyByLoss'
<1> USE DEF IInv
<1>1. SUFFICES ASSUME losses' = 0, NEW i \in Items, row'[i].status = "PENDING"
               PROVE  \E p \in Posters : job'[p].item = i
  BY DEF StrandedOnlyByLoss
<1>2. losses = 0 /\ i # None
  BY <1>1, LossesStay, DeliveryAssumption
<1>3. CASE row[i].status = "PENDING"
  <2>1. PICK p \in Posters : job[p].item = i
    BY <1>2, <1>3 DEF StrandedOnlyByLoss
  <2>2. ~ WritePosted(p)
    <3>1. SUFFICES ASSUME WritePosted(p) PROVE FALSE
      OBVIOUS
    <3>2. row'[i] = PostedRow(row[i], job[p].result)
      BY <2>1, <3>1 DEF WritePosted, TypeOK
    <3>3. job[p].result \in Results
      BY <3>1 DEF WritePosted, Shape, ShapeOf, Handlers
    <3>4. row[i] \in [status : Statuses, message : BOOLEAN, old : BOOLEAN]
      BY DEF TypeOK
    <3> QED BY <1>1, <3>2, <3>3, <3>4 DEF PostedRow, Results
  <2> QED BY <1>1, <1>2, <2>1, <2>2, RequestGoesOn
<1>4. CASE row[i].status # "PENDING"
  <2>1. ASSUME NEW p \in Posters, NEW k \in Items, Receive(p, k)
        PROVE  \E q \in Posters : job'[q].item = i
    <3>1. k = i
      BY <1>1, <1>4, <2>1 DEF Receive, TypeOK
    <3>2. p \in Handlers /\ job'[p].item = k
      BY <2>1 DEF Receive, TypeOK, Handlers, NoJob
    <3> QED BY <3>1, <3>2
  <2>2. ASSUME NEW h \in Handlers, WritePosted(h) \/ WriteRetried(h)
        PROVE  FALSE
    <3>1. job[h].item \in Items /\ job[h].result \in Results
      BY <2>2, InHand DEF WritePosted, WriteRetried, Shape, ShapeOf
    <3>2. row[i] \in [status : Statuses, message : BOOLEAN, old : BOOLEAN]
      BY DEF TypeOK
    <3>3. \/ row'[i] = row[i]
          \/ row'[i] = PostedRow(row[i], job[h].result)
          \/ row'[i] = RetriedRow(row[i], job[h].result) /\ job[h].result # "hushed"
      BY <2>2, <3>1, DeliveryAssumption DEF WritePosted, WriteRetried, TypeOK, Shape, ShapeOf
    <3> QED BY <1>1, <1>4, <3>1, <3>2, <3>3 DEF PostedRow, RetriedRow, Results
  <2>3. ASSUME NEW k \in Items, Age(k)
        PROVE  FALSE
    BY <1>1, <1>4, <2>3 DEF Age, TypeOK
  <2> QED
    BY <1>1, <1>4, <2>1, <2>2, <2>3
       DEF Next, vars, SelectBatch, Step, Lose, Command, CheckHushed, SendAccepted,
           SendRefused, SendFailed, SendUnanswered, TakeNext
<1> QED BY <1>3, <1>4

\* Without a lost handler, every PENDING row has a request at work on it: see
\* StrandedOnlyByLoss.
THEOREM ReservationsResolved == Spec => []StrandedOnlyByLoss
<1>1. Init => StrandedOnlyByLoss
  BY DEF Init, StrandedOnlyByLoss, NoRow
<1>2. IInv /\ StrandedOnlyByLoss /\ [Next]_vars => StrandedOnlyByLoss'
  BY NextStranded
<1> QED BY <1>1, <1>2, SpecIInv, PTL DEF Spec
-----------------------------------------------------------------------------
(* Only a retry broadcasts what is hushed. *)

\* A request comes to send by the check, or at once if it is a trade event; the
\* loop that takes an item unasked is the retries'.
LEMMA RequestAsks ==
    ASSUME IInv, [Next]_vars, NEW p \in Posters, job'[p].step = "send", job[p].step # "send"
    PROVE  job'[p].item \notin hushed
<1> USE DEF IInv
<1>1. p \in Handlers /\ job \in [Handlers -> Job] /\ hushed \subseteq Signals
  BY DeliveryAssumption DEF TypeOK, Handlers
<1>2. ASSUME NEW q \in Posters, NEW i \in Items, Receive(q, i)
      PROVE  job'[p].item \notin hushed
  <2>1. p = q
    BY <1>1, <1>2 DEF Receive
  <2>2. job'[p].item = i /\ i \notin Signals
    BY <1>1, <1>2, <2>1 DEF Receive, NoJob, Job
  <2> QED BY <1>1, <2>2
<1>3. ASSUME NEW r \in Retriers, SelectBatch(r)
      PROVE  FALSE
  BY <1>1, <1>3 DEF SelectBatch, NoJob, Job
<1>4. ASSUME NEW h \in Handlers, CheckHushed(h)
      PROVE  job'[p].item \notin hushed
  BY <1>1, <1>4 DEF CheckHushed, Job
<1>5. ASSUME NEW h \in Handlers, TakeNext(h)
      PROVE  FALSE
  <2>1. p = h
    BY <1>1, <1>5 DEF TakeNext
  <2>2. job[p].todo = {}
    BY <1>1 DEF Shape, ShapeOf
  <2> QED BY <1>5, <2>1, <2>2 DEF TakeNext
<1>6. ASSUME NEW h \in Handlers,
             \/ SendAccepted(h) \/ SendRefused(h) \/ SendFailed(h) \/ SendUnanswered(h)
      PROVE  FALSE
  <2>1. job[h].step = "send"
    BY <1>6 DEF SendAccepted, SendRefused, SendFailed, SendUnanswered
  <2>2. \A g \in Handlers : g # h => job'[g] = job[g]
    BY <1>1, <1>6 DEF SendAccepted, SendRefused, SendFailed, SendUnanswered, AttemptFailed, Answered
  <2> QED BY <1>1, <2>1, <2>2
<1>7. ASSUME NEW h \in Handlers, WritePosted(h) \/ WriteRetried(h) \/ Lose(h)
      PROVE  FALSE
  <2>1. \E w : job' = [job EXCEPT ![h] = w] /\ w.step # "send"
    BY <1>7 DEF WritePosted, WriteRetried, Lose, NoJob
  <2> QED BY <1>1, <2>1
<1>8. UNCHANGED job => FALSE
  OBVIOUS
<1> QED
  BY <1>2, <1>3, <1>4, <1>5, <1>6, <1>7, <1>8 DEF Next, Step, Age, Command, vars

\* What run SignalRetryHushed finds takes a retry: no request of its own sends
\* what is muted or paused when it asks, for any requests, retries and commands.
THEOREM RequestsRespectMute == Spec => RequestsAskFirst
<1>1. IInv /\ [Next]_vars =>
        [\A p \in Posters : job'[p].step = "send" /\ job[p].step # "send"
                               => job'[p].item \notin hushed]_vars
  BY RequestAsks
<1> QED BY <1>1, SpecIInv, PTL DEF Spec, RequestsAskFirst
=============================================================================
