------------------------- MODULE StepSequencesProofs -------------------------
(***************************************************************************)
(* TLAPS proofs about StepSequences, for any number of enrollments,        *)
(* crashes and failed calls, whatever requests replace, pause, cancel or   *)
(* delete meanwhile: with any number of dispatchers and processes, type    *)
(* correctness, the order of the steps (InOrder) and the completion of an  *)
(* enrollment (CompletedIsSent), and by how much recorded deliveries can   *)
(* pass the limit; with the dispatchers in one process, BackoffKept; with  *)
(* one dispatcher, SentOnce and LimitKept.                                 *)
(***************************************************************************)
EXTENDS StepSequences, FiniteSetTheorems, TLAPS

-----------------------------------------------------------------------------
(* Type correctness.  What a dispatcher has in hand where: an enrollment      *)
(* while it handles one, and from the call on a message for its step.        *)

HandOK(l, r) ==
    /\ l \in Handling => r.cur \in Enrollments
    /\ l \in {"sending", "accepted", "advance"} =>
          HasStep(r.list, r.rows[r.cur].step)

HandsOK == \A d \in Dispatchers : HandOK(pc[d], loc[d])

TypeInv == TypeOK /\ HandsOK

\* Actor a goes to statement l with locals r.
Moves(a, l, r) ==
    /\ pc' = [pc EXCEPT ![a] = l]
    /\ loc' = [loc EXCEPT ![a] = r]
    /\ a \in Dispatchers => HandOK(l, r)

\* Dispatcher d is not past the call, and its batch was read before or just now.
Reads(d, l, r) ==
    /\ l \notin {"accepted", "advance"}
    /\ \A e \in Enrollments : r.rows[e] \in {loc[d].rows[e], enr[e], NoRow}

\* A step that only moves dispatcher d.
ReadStep(d) ==
    Scan(d) \/ LoadSequence(d) \/ CountDeliveries(d) \/ LoadMessages(d)

LEMMA NoRowType == NoRow \in Rows
  BY StepBoundsAssumption DEF NoRow, Rows

LEMMA NoLocalsType == NoLocals \in Locals
  BY NoRowType DEF NoLocals, Locals, Lists

\* The steps of a stored list are those the model counts.
LEMMA StepInRange ==
    ASSUME NEW list \in Lists, NEW i \in Nat, HasStep(list, i)
    PROVE  i \in Steps /\ list[i + 1] \in Nat
<1>1. list \in MessageLists
  BY DEF HasStep, Lists
<1>2. list \in Seq(Nat) /\ Len(list) <= MaxSteps /\ MaxSteps \in Nat
  BY <1>1, StepBoundsAssumption
<1>3. i + 1 \in 1..Len(list)
  BY <1>2 DEF HasStep
<1>4. Len(list) \in Nat
  BY <1>2
<1>5. i \in Steps
  BY <1>2, <1>3, <1>4 DEF Steps
<1>. QED  BY <1>2, <1>3, <1>5

LEMMA MoveTypes ==
    ASSUME TypeInv, NEW a \in Actors, NEW l \in PCs, NEW r \in Locals, Moves(a, l, r)
    PROVE  pc' \in [Actors -> PCs] /\ loc' \in [Actors -> Locals] /\ HandsOK'
<1>1. pc' \in [Actors -> PCs] /\ loc' \in [Actors -> Locals]
  BY DEF TypeInv, TypeOK, Moves
<1>2. ASSUME NEW d \in Dispatchers PROVE HandOK(pc'[d], loc'[d])
  <2>1. CASE d = a
    BY <2>1 DEF TypeInv, TypeOK, Moves, Actors
  <2>2. CASE d # a
    <3>1. pc'[d] = pc[d] /\ loc'[d] = loc[d]
      BY <2>2 DEF TypeInv, TypeOK, Moves, Actors
    <3>. QED  BY <3>1 DEF TypeInv, HandsOK
  <2>. QED  BY <2>1, <2>2
<1>. QED  BY <1>1, <1>2 DEF HandsOK

LEMMA FinishMoves ==
    ASSUME NEW a \in Actors, Finish(a)
    PROVE  Moves(a, "idle", NoLocals)
BY DEF Finish, Goto, SetLocals, Moves, HandOK, Handling

LEMMA FinishTypes ==
    ASSUME TypeInv, NEW a \in Actors, Finish(a)
    PROVE  pc' \in [Actors -> PCs] /\ loc' \in [Actors -> Locals] /\ HandsOK'
BY FinishMoves, NoLocalsType, MoveTypes DEF PCs

LEMMA FinishReads == \A d : Reads(d, "idle", NoLocals)
  BY DEF Reads, NoLocals

LEMMA ContinueMoves ==
    ASSUME TypeInv, NEW d \in Dispatchers, NEW batch \in SUBSET Enrollments,
           Continue(d, batch)
    PROVE  \E l \in PCs, r \in Locals : Moves(d, l, r) /\ Reads(d, l, r)
<1>1. CASE batch = {}
  BY <1>1, FinishMoves, FinishReads, NoLocalsType DEF Continue, Actors, PCs
<1>2. CASE batch # {}
  <2> DEFINE r == [loc[d] EXCEPT !.batch = batch, !.cur = None, !.list = <<>>]
  <2>1. r \in Locals /\ r.rows = loc[d].rows
    BY DEF TypeInv, TypeOK, Locals, Lists, Actors
  <2>2. Moves(d, "batch", r)
    BY <1>2 DEF Continue, Goto, SetLocals, Moves, HandOK, Handling
  <2>3. Reads(d, "batch", r)
    BY <2>1 DEF Reads
  <2>4. "batch" \in PCs
    BY DEF PCs
  <2>. QED  BY <2>1, <2>2, <2>3, <2>4
<1>. QED  BY <1>1, <1>2

LEMMA ContinueTypes ==
    ASSUME TypeInv, NEW d \in Dispatchers, NEW batch \in SUBSET Enrollments,
           Continue(d, batch)
    PROVE  pc' \in [Actors -> PCs] /\ loc' \in [Actors -> Locals] /\ HandsOK'
<1>1. d \in Actors
  BY DEF Actors
<1>. QED  BY <1>1, ContinueMoves, MoveTypes

\* The locals of a dispatcher and what it has in hand.
LEMMA InHand ==
    ASSUME TypeInv, NEW d \in Dispatchers
    PROVE  /\ d \in Actors
           /\ loc[d] \in Locals
           /\ loc[d].batch \in SUBSET Enrollments
           /\ loc[d].list \in Lists
           /\ pc[d] \in Handling =>
                /\ loc[d].cur \in Enrollments
                /\ Row(d) \in Rows /\ Row(d).step \in Nat
           /\ pc[d] \in {"sending", "accepted", "advance"} =>
                /\ loc[d].cur \in Enrollments
                /\ HasStep(loc[d].list, Row(d).step)
                /\ Row(d).step \in Steps
<1>1. d \in Actors /\ loc[d] \in Locals
  BY DEF TypeInv, TypeOK, Actors
<1>2. loc[d].batch \in SUBSET Enrollments /\ loc[d].list \in Lists
  BY <1>1 DEF Locals
<1>3. ASSUME pc[d] \in Handling
      PROVE  loc[d].cur \in Enrollments /\ Row(d) \in Rows /\ Row(d).step \in Nat
  <2>1. loc[d].cur \in Enrollments
    BY <1>3 DEF TypeInv, HandsOK, HandOK
  <2>. QED  BY <1>1, <2>1 DEF Row, Locals, Rows
<1>4. ASSUME pc[d] \in {"sending", "accepted", "advance"}
      PROVE  /\ loc[d].cur \in Enrollments
             /\ HasStep(loc[d].list, Row(d).step) /\ Row(d).step \in Steps
  <2>1. pc[d] \in Handling
    BY <1>4 DEF Handling
  <2>2. HasStep(loc[d].list, Row(d).step)
    BY <1>4 DEF TypeInv, HandsOK, HandOK, Row
  <2>. QED  BY <1>2, <1>3, <2>1, <2>2, StepInRange
<1>. QED  BY <1>1, <1>2, <1>3, <1>4

LEMMA ScanTypes ==
    ASSUME TypeInv, NEW d \in Dispatchers, Scan(d)
    PROVE  \E l \in PCs, r \in Locals : Moves(d, l, r) /\ Reads(d, l, r)
<1>1. PICK batch \in SUBSET Enrollments :
         SetLocals(d, [NoLocals EXCEPT !.batch = batch,
           !.rows = [e \in Enrollments |-> IF e \in batch THEN enr[e] ELSE NoRow]])
  BY DEF Scan
<1> DEFINE r == [NoLocals EXCEPT !.batch = batch,
           !.rows = [e \in Enrollments |-> IF e \in batch THEN enr[e] ELSE NoRow]]
<1>2. r \in Locals
  BY NoRowType, NoLocalsType DEF TypeInv, TypeOK, Locals, NoLocals, Lists
<1>3. Moves(d, "batch", r)
  BY <1>1 DEF Scan, Goto, SetLocals, Moves, HandOK, Handling
<1>4. Reads(d, "batch", r)
  BY DEF Reads, NoLocals
<1>. QED  BY <1>2, <1>3, <1>4 DEF PCs

LEMMA LoadSequenceTypes ==
    ASSUME TypeInv, NEW d \in Dispatchers, LoadSequence(d)
    PROVE  \E l \in PCs, r \in Locals : Moves(d, l, r) /\ Reads(d, l, r)
<1>1. PICK e \in loc[d].batch :
         \/ /\ Goto(d, "count")
            /\ SetLocals(d, [loc[d] EXCEPT !.batch = @ \ {e}, !.cur = e])
         \/ Continue(d, loc[d].batch \ {e})
  BY DEF LoadSequence
<1>2. CASE Continue(d, loc[d].batch \ {e})
  <2>1. loc[d].batch \ {e} \in SUBSET Enrollments
    BY InHand
  <2>. QED  BY <1>2, <2>1, ContinueMoves
<1>3. CASE /\ Goto(d, "count")
           /\ SetLocals(d, [loc[d] EXCEPT !.batch = @ \ {e}, !.cur = e])
  <2> DEFINE r == [loc[d] EXCEPT !.batch = @ \ {e}, !.cur = e]
  <2>1. e \in Enrollments /\ loc[d] \in Locals
    BY InHand
  <2>2. r \in Locals /\ r.cur = e /\ r.rows = loc[d].rows
    BY <2>1 DEF Locals
  <2>3. Moves(d, "count", r) /\ Reads(d, "count", r)
    BY <1>3, <2>1, <2>2 DEF Goto, SetLocals, Moves, HandOK, Reads
  <2>. QED  BY <2>2, <2>3 DEF PCs, Handling
<1>. QED  BY <1>1, <1>2, <1>3

LEMMA CountTypes ==
    ASSUME TypeInv, NEW d \in Dispatchers, CountDeliveries(d)
    PROVE  \E l \in PCs, r \in Locals : Moves(d, l, r) /\ Reads(d, l, r)
<1>1. CASE Continue(d, loc[d].batch)
  BY <1>1, ContinueMoves, InHand
<1>2. CASE Goto(d, "messages") /\ UNCHANGED loc
  <2>1. pc[d] = "count"
    BY DEF CountDeliveries, Turn
  <2>2. HandOK("messages", loc[d])
    BY <2>1, InHand DEF HandOK, Handling
  <2>3. loc' = [loc EXCEPT ![d] = loc[d]]
    BY <1>2, InHand DEF TypeInv, TypeOK
  <2>4. Moves(d, "messages", loc[d])
    BY <1>2, <2>2, <2>3 DEF Goto, Moves
  <2>5. Reads(d, "messages", loc[d])
    BY DEF Reads
  <2>. QED  BY <2>4, <2>5, InHand DEF PCs, Handling
<1>. QED  BY <1>1, <1>2 DEF CountDeliveries

LEMMA LoadMessagesTypes ==
    ASSUME TypeInv, NEW d \in Dispatchers, LoadMessages(d)
    PROVE  \E l \in PCs, r \in Locals : Moves(d, l, r) /\ Reads(d, l, r)
<1>1. /\ pc[d] = "messages"
      /\ loc[d].cur \in Enrollments
      /\ loc[d] \in Locals
  BY InHand DEF LoadMessages, Turn, Handling
<1>2. CASE /\ HasStep(seq.messages, Row(d).step)
           /\ Goto(d, "sending")
           /\ SetLocals(d, [loc[d] EXCEPT !.list = seq.messages])
  <2> DEFINE r == [loc[d] EXCEPT !.list = seq.messages]
  <2>1. seq.messages \in Lists
    BY DEF SequenceRows, TypeInv, TypeOK
  <2>2. /\ r \in Locals /\ r.cur = loc[d].cur
        /\ r.list = seq.messages /\ r.rows = loc[d].rows
    BY <1>1, <2>1 DEF Locals
  <2>3. HandOK("sending", r)
    BY <1>1, <1>2, <2>2 DEF HandOK, Row
  <2>4. Moves(d, "sending", r)
    BY <1>2, <2>3 DEF Goto, SetLocals, Moves
  <2>5. Reads(d, "sending", r)
    BY <2>2 DEF Reads
  <2>. QED  BY <2>2, <2>4, <2>5 DEF PCs, Handling
<1>3. CASE Goto(d, "complete") /\ UNCHANGED loc
  <2>1. HandOK("complete", loc[d])
    BY <1>1 DEF HandOK
  <2>2. loc' = [loc EXCEPT ![d] = loc[d]]
    BY <1>3, InHand DEF TypeInv, TypeOK
  <2>3. Moves(d, "complete", loc[d])
    BY <1>3, <2>1, <2>2 DEF Goto, Moves
  <2>4. Reads(d, "complete", loc[d])
    BY DEF Reads
  <2>. QED  BY <1>1, <2>3, <2>4 DEF PCs, Handling
<1>. QED  BY <1>2, <1>3 DEF LoadMessages

\* Steps that only read.
LEMMA ReadTypes ==
    ASSUME TypeInv, NEW d \in Dispatchers, ReadStep(d)
    PROVE  TypeInv'
<1>1. \E l \in PCs, r \in Locals : Moves(d, l, r)
  BY ScanTypes, LoadSequenceTypes, CountTypes, LoadMessagesTypes DEF ReadStep
<1>2. pc' \in [Actors -> PCs] /\ loc' \in [Actors -> Locals] /\ HandsOK'
  BY <1>1, InHand, MoveTypes
<1>3. UNCHANGED <<seq, enr, accepted, bounds>>
  BY DEF ReadStep, Scan, LoadSequence, CountDeliveries, LoadMessages
<1>. QED  BY <1>2, <1>3 DEF TypeInv, TypeOK, accepted, bounds

\* The row Advance writes: its step is the one after the step of the batch.
LEMMA AdvancedType ==
    ASSUME TypeInv, NEW d \in Dispatchers, pc[d] = "advance"
    PROVE  Advanced(d) \in Rows /\ Advanced(d).step = Row(d).step + 1
<1>1. /\ Row(d).step \in Nat /\ loc[d].list \in Lists
      /\ enr[loc[d].cur] \in Rows
  BY InHand DEF Handling, TypeInv, TypeOK
<1>2. Row(d).step + 1 \in Nat
  BY <1>1
<1>3. HasStep(loc[d].list, Row(d).step + 1) =>
        loc[d].list[(Row(d).step + 1) + 1] \in Int
  BY <1>1, <1>2, StepInRange
<1>4. 0 \in 0..Window
  BY StepBoundsAssumption
<1> DEFINE i    == Row(d).step + 1
           last == ~HasStep(loc[d].list, i)
           due  == IF last THEN 0 ELSE loc[d].list[i + 1]
           status == IF last THEN "completed" ELSE enr[loc[d].cur].status
<1>5. due \in Int
  BY <1>3
<1>6. status \in {"absent", "active", "cancelled", "completed", "deleted"}
  BY <1>1 DEF Rows
<1>7. Advanced(d) = [enr[loc[d].cur] EXCEPT !.step = i, !.ago = 0,
                                            !.status = status, !.dueIn = due]
  BY DEF Advanced
<1> HIDE DEF due, status, last
<1>8. Advanced(d) \in Rows /\ Advanced(d).step = i
  BY <1>1, <1>2, <1>4, <1>5, <1>6, <1>7 DEF Rows
<1>. QED  BY <1>8

\* Steps of a dispatcher that write a row, the sequence or a bound.
LEMMA WriteTypes ==
    ASSUME TypeInv, NEW d \in Dispatchers,
           Complete(d) \/ AccountFails(d) \/ BackOff(d) \/ Advance(d)
    PROVE  TypeInv'
<1>1. Continue(d, loc[d].batch) \/ Finish(d)
  BY DEF Complete, AccountFails, BackOff, Advance
<1>2. pc' \in [Actors -> PCs] /\ loc' \in [Actors -> Locals] /\ HandsOK'
  BY <1>1, ContinueTypes, FinishTypes, InHand
<1>3. CASE Complete(d)
  <2>1. enr' \in [Enrollments -> Rows]
    BY <1>3 DEF Complete, SetRow, TypeInv, TypeOK, Rows
  <2>2. UNCHANGED <<seq, accepted, bounds>>
    BY <1>3 DEF Complete
  <2>. QED  BY <1>2, <2>1, <2>2 DEF TypeInv, TypeOK, accepted, bounds
<1>4. CASE AccountFails(d)
  BY <1>2, <1>4 DEF AccountFails, TypeInv, TypeOK, accepted
<1>5. CASE BackOff(d)
  <2>1. seq' \in SequenceRows
    BY <1>5, StepBoundsAssumption DEF BackOff, TypeInv, TypeOK, SequenceRows
  <2>2. UNCHANGED <<enr, accepted, bounds>>
    BY <1>5 DEF BackOff
  <2>. QED  BY <1>2, <2>1, <2>2 DEF TypeInv, TypeOK, accepted, bounds
<1>6. CASE Advance(d)
  <2>1. pc[d] = "advance"
    BY <1>6 DEF Advance, Turn
  <2>2. Advanced(d) \in Rows
    BY <2>1, AdvancedType
  <2>3. enr' \in [Enrollments -> Rows]
    BY <1>6, <2>2 DEF Advance, SetRow, TypeInv, TypeOK
  <2>4. UNCHANGED <<seq, accepted, bounds>>
    BY <1>6 DEF Advance
  <2>. QED  BY <1>2, <2>3, <2>4 DEF TypeInv, TypeOK, accepted, bounds
<1>. QED  BY <1>3, <1>4, <1>5, <1>6

\* A step that keeps the locals and stays at the call.
LEMMA StayTypes ==
    ASSUME TypeInv, NEW d \in Dispatchers, NEW l \in PCs, Goto(d, l), UNCHANGED loc,
           HandOK(l, loc[d])
    PROVE  pc' \in [Actors -> PCs] /\ loc' \in [Actors -> Locals] /\ HandsOK'
<1>1. d \in Actors /\ loc[d] \in Locals
  BY InHand
<1>2. loc' = [loc EXCEPT ![d] = loc[d]]
  BY <1>1 DEF TypeInv, TypeOK
<1>. QED  BY <1>1, <1>2, MoveTypes DEF Goto, Moves

LEMMA ProviderTypes ==
    ASSUME TypeInv, NEW d \in Dispatchers, ProviderStep(d)
    PROVE  TypeInv'
<1> USE DEF bounds, accepted
<1>1. pc[d] \in {"sending", "accepted"}
  BY DEF ProviderStep, Accept, Reply, LoseReply, Refuse, Turn
<1>2. /\ loc[d].cur \in Enrollments
      /\ HasStep(loc[d].list, Row(d).step) /\ Row(d).step \in Steps
  BY <1>1, InHand
<1>3. \A l : HandOK(l, loc[d])
  BY <1>2 DEF HandOK, Row
<1>4. {"accepted", "advance", "backOff"} \subseteq PCs
  BY DEF PCs, Handling
<1>5. CASE Accept(d)
  <2>1. pc' \in [Actors -> PCs] /\ loc' \in [Actors -> Locals] /\ HandsOK'
    BY <1>3, <1>4, <1>5, StayTypes DEF Accept
  <2>2. sent' \in [Enrollments -> [Steps -> Nat]]
    BY <1>2, <1>5 DEF Accept, TypeInv, TypeOK
  <2>. QED  BY <1>5, <2>1, <2>2 DEF Accept, TypeInv, TypeOK
<1>6. CASE Reply(d)
  <2>1. pc' \in [Actors -> PCs] /\ loc' \in [Actors -> Locals] /\ HandsOK'
    BY <1>3, <1>4, <1>6, StayTypes DEF Reply
  <2>. QED  BY <1>6, <2>1 DEF Reply, TypeInv, TypeOK
<1>7. CASE LoseReply(d)
  <2>1. pc' \in [Actors -> PCs] /\ loc' \in [Actors -> Locals] /\ HandsOK'
    BY <1>7, FinishTypes, InHand DEF LoseReply
  <2>. QED  BY <1>2, <1>7, <2>1 DEF LoseReply, TypeInv, TypeOK
<1>8. CASE Refuse(d)
  <2>1. pc' \in [Actors -> PCs] /\ loc' \in [Actors -> Locals] /\ HandsOK'
    BY <1>3, <1>4, <1>8, FinishTypes, StayTypes, InHand DEF Refuse
  <2>. QED  BY <1>8, <2>1 DEF Refuse, TypeInv, TypeOK
<1>. QED  BY <1>5, <1>6, <1>7, <1>8 DEF ProviderStep

LEMMA RequestMoves ==
    ASSUME TypeInv, NEW c \in Clients, NEW l \in PCs, NEW r \in Locals,
           Goto(c, l), SetLocals(c, r)
    PROVE  pc' \in [Actors -> PCs] /\ loc' \in [Actors -> Locals] /\ HandsOK'
<1>1. c \in Actors /\ c \notin Dispatchers
  BY StepActorsAssumption DEF Actors
<1>. QED  BY <1>1, MoveTypes DEF Moves, Goto, SetLocals

LEMMA RequestTypes ==
    ASSUME TypeInv, NEW c \in Clients, RequestStep(c)
    PROVE  TypeInv'
<1> USE DEF bounds, accepted
<1>1. c \in Actors /\ loc[c] \in Locals /\ seq.messages \in Lists
  BY DEF SequenceRows, Actors, TypeInv, TypeOK
<1>2. {"idle", "insertMessages", "deleteMessages", "deleteSequence"} \subseteq PCs
  BY DEF PCs
<1>3. CASE Enroll(c)
  <2>1. PICK e \in Enrollments :
          SetRow(e, [NoRow EXCEPT !.status = "active", !.dueIn = seq.messages[1]])
    BY <1>3 DEF Enroll
  <2>2. seq.messages \in Seq(Nat) /\ seq.messages # <<>>
    BY <1>1, <1>3, StepBoundsAssumption DEF Enroll, Lists
  <2>3. seq.messages[1] \in Int
    BY <2>2
  <2>4. enr' \in [Enrollments -> Rows]
    BY <2>1, <2>3, NoRowType DEF SetRow, TypeInv, TypeOK, Rows
  <2>. QED  BY <1>3, <2>4 DEF Enroll, TypeInv, TypeOK, HandsOK
<1>4. CASE UpdateEnrollment(c)
  <2>1. enr' \in [Enrollments -> Rows]
    BY <1>4 DEF UpdateEnrollment, SetRow, TypeInv, TypeOK, Rows
  <2>. QED  BY <1>4, <2>1 DEF UpdateEnrollment, TypeInv, TypeOK, HandsOK
<1>5. CASE SetStatus(c)
  BY <1>5 DEF SequenceRows, SetStatus, TypeInv, TypeOK, HandsOK
<1>6. CASE ReplaceMessages(c)
  <2>1. PICK list \in MessageLists : SetLocals(c, [NoLocals EXCEPT !.list = list])
    BY <1>6 DEF ReplaceMessages
  <2>2. [NoLocals EXCEPT !.list = list] \in Locals
    BY <2>1, NoLocalsType DEF Locals, Lists
  <2>3. pc' \in [Actors -> PCs] /\ loc' \in [Actors -> Locals] /\ HandsOK'
    BY <1>2, <1>6, <2>1, <2>2, RequestMoves DEF ReplaceMessages
  <2>. QED  BY <1>6, <2>3 DEF SequenceRows, ReplaceMessages, TypeInv, TypeOK, Lists
<1>7. CASE InsertMessages(c)
  <2>1. loc[c].list \in Lists
    BY <1>1 DEF Locals
  <2>2. pc' \in [Actors -> PCs] /\ loc' \in [Actors -> Locals] /\ HandsOK'
    BY <1>1, <1>7, FinishTypes DEF InsertMessages
  <2>. QED  BY <1>7, <2>1, <2>2 DEF SequenceRows, InsertMessages, TypeInv, TypeOK
<1>8. CASE DeleteEnrollments(c) \/ DeleteMessages(c)
  <2>1. loc' = [loc EXCEPT ![c] = loc[c]]
    BY <1>1, <1>8 DEF DeleteEnrollments, DeleteMessages, TypeInv, TypeOK
  <2>2. pc' \in [Actors -> PCs] /\ loc' \in [Actors -> Locals] /\ HandsOK'
    BY <1>1, <1>2, <1>8, <2>1, RequestMoves
       DEF DeleteEnrollments, DeleteMessages, SetLocals
  <2>3. \A e \in Enrollments : [enr[e] EXCEPT !.status = "deleted"] \in Rows
    BY DEF TypeInv, TypeOK, Rows
  <2>4. enr' \in [Enrollments -> Rows]
    BY <1>8, <2>3 DEF DeleteEnrollments, DeleteMessages, TypeInv, TypeOK
  <2>5. seq' \in SequenceRows
    BY <1>8 DEF DeleteEnrollments, DeleteMessages, TypeInv, TypeOK, SequenceRows, Lists
  <2>6. UNCHANGED <<sent, unrecorded, failures, crashes>>
    BY <1>8 DEF DeleteEnrollments, DeleteMessages
  <2>. QED  BY <2>2, <2>4, <2>5, <2>6 DEF TypeInv, TypeOK
<1>9. CASE DeleteSequence(c)
  <2>1. pc' \in [Actors -> PCs] /\ loc' \in [Actors -> Locals] /\ HandsOK'
    BY <1>1, <1>9, FinishTypes DEF DeleteSequence
  <2>. QED  BY <1>9, <2>1 DEF SequenceRows, DeleteSequence, TypeInv, TypeOK
<1>10. CASE CreateSequence(c)
  <2>1. PICK list \in MessageLists : SetLocals(c, [NoLocals EXCEPT !.list = list])
    BY <1>10 DEF CreateSequence
  <2>2. [NoLocals EXCEPT !.list = list] \in Locals
    BY <2>1, NoLocalsType DEF Locals, Lists
  <2>3. pc' \in [Actors -> PCs] /\ loc' \in [Actors -> Locals] /\ HandsOK'
    BY <1>2, <1>10, <2>1, <2>2, RequestMoves DEF CreateSequence
  <2>4. seq' \in SequenceRows
    BY <1>10 DEF CreateSequence, TypeInv, TypeOK, SequenceRows
  <2>. QED  BY <1>10, <2>3, <2>4 DEF CreateSequence, TypeInv, TypeOK
<1>. QED  BY <1>3, <1>4, <1>5, <1>6, <1>7, <1>8, <1>9, <1>10 DEF RequestStep

LEMMA TickTypes ==
    ASSUME TypeInv, Tick
    PROVE  TypeInv'
<1> USE DEF bounds, accepted
<1>1. Jitter \in Nat /\ Window \in Nat
  BY StepBoundsAssumption
<1>2. Less(seq.backoffIn, 0) \in Nat
  BY DEF SequenceRows, Less, TypeInv, TypeOK
<1>3. ASSUME NEW e \in Enrollments
      PROVE  [enr[e] EXCEPT !.dueIn = Less(@, -Jitter),
                            !.ago = IF @ < Window THEN @ + 1 ELSE @] \in Rows
  <2>1. enr[e] \in Rows
    BY DEF TypeInv, TypeOK
  <2>2. Less(enr[e].dueIn, -Jitter) \in Int
    BY <2>1 DEF Less, Rows
  <2>3. (IF enr[e].ago < Window THEN enr[e].ago + 1 ELSE enr[e].ago) \in 0..Window
    BY <1>1, <2>1 DEF Rows
  <2>. QED  BY <2>1, <2>2, <2>3 DEF Rows
<1>4. enr' \in [Enrollments -> Rows]
  BY <1>3 DEF Tick
<1>5. seq' \in SequenceRows
  BY <1>2 DEF Tick, TypeInv, TypeOK, SequenceRows
<1>. QED  BY <1>4, <1>5 DEF Tick, TypeInv, TypeOK, HandsOK

LEMMA CrashTypes ==
    ASSUME TypeInv, NEW h \in Hosts, Crash(h)
    PROVE  TypeInv'
<1>1. ASSUME NEW e \in Enrollments
      PROVE  Cardinality({d \in Dispatchers : /\ HostOf[d] = h /\ loc[d].cur = e
                                              /\ pc[d] \in {"accepted", "advance"}}) \in Nat
  BY StepActorsAssumption, FS_Subset, FS_CardinalityType
<1>2. unrecorded' \in [Enrollments -> Nat]
  BY <1>1 DEF Crash, TypeInv, TypeOK
<1>3. pc' \in [Actors -> PCs] /\ loc' \in [Actors -> Locals]
  BY NoLocalsType DEF Crash, TypeInv, TypeOK, PCs
<1>4. ASSUME NEW d \in Dispatchers PROVE HandOK(pc'[d], loc'[d])
  BY DEF Crash, TypeInv, HandsOK, HandOK, Handling, Actors
<1>5. UNCHANGED <<seq, enr, sent, failures>> /\ crashes' \in Nat
  BY DEF Crash, TypeInv, TypeOK
<1>6. HandsOK'
  BY <1>4 DEF HandsOK
<1>. QED  BY <1>2, <1>3, <1>5, <1>6 DEF TypeInv, TypeOK

LEMMA InitTypes == Init => TypeInv
<1> SUFFICES ASSUME Init PROVE TypeInv  OBVIOUS
<1>1. TypeOK
  BY NoRowType, NoLocalsType DEF SequenceRows, Init, TypeOK, Lists, PCs
<1>2. HandsOK
  BY DEF Init, HandsOK, HandOK, Handling, Actors
<1>. QED  BY <1>1, <1>2 DEF TypeInv

LEMMA StepTypes ==
    ASSUME TypeInv, [Next]_vars
    PROVE  TypeInv'
<1>1. CASE UNCHANGED vars
  BY <1>1 DEF vars, TypeInv, TypeOK, HandsOK
<1>2. ASSUME NEW d \in Dispatchers, Scan(d) \/ Handle(d) \/ ProviderStep(d)
      PROVE  TypeInv'
  BY <1>2, ReadTypes, WriteTypes, ProviderTypes DEF Handle, ReadStep
<1>3. CASE \E c \in Clients : RequestStep(c)
  BY <1>3, RequestTypes
<1>4. CASE Tick
  BY <1>4, TickTypes
<1>5. CASE \E h \in Hosts : Crash(h)
  BY <1>5, CrashTypes
<1>. QED  BY <1>1, <1>2, <1>3, <1>4, <1>5 DEF Next

\* Every variable keeps its type; in particular a dispatcher that sends has
\* read a message for the step it sends.
THEOREM StepTypeCorrect == Spec => []TypeOK
<1>1. TypeInv => TypeOK
  BY DEF TypeInv
<1>. QED  BY <1>1, InitTypes, StepTypes, PTL DEF Spec
-----------------------------------------------------------------------------
(* InOrder.  A row at step n, and a row that some dispatcher has read, show   *)
(* that the steps before n were sent; a dispatcher past its call has sent its *)
(* step.  sent only grows, so a stale row never claims too much.              *)

Delivered(e, n) == \A i \in Steps : i < n => sent[e][i] > 0

RowsDelivered == \A e \in Enrollments : Delivered(e, enr[e].step)

BatchesDelivered ==
    \A d \in Dispatchers, e \in Enrollments : Delivered(e, loc[d].rows[e].step)

CallsDelivered ==
    \A d \in Dispatchers :
       pc[d] \in {"accepted", "advance"} => sent[loc[d].cur][Row(d).step] > 0

OrderInv == RowsDelivered /\ BatchesDelivered /\ CallsDelivered /\ InOrder

\* The first step needs nothing before it.
LEMMA NoRowDelivered == \A e \in Enrollments : Delivered(e, NoRow.step)
  BY StepBoundsAssumption DEF Delivered, NoRow, Steps

\* Rows that keep their step, or are new, claim nothing more.
LEMMA RowsKept ==
    ASSUME OrderInv, sent' = sent,
           \A e \in Enrollments : enr'[e].step \in {enr[e].step, NoRow.step}
    PROVE  RowsDelivered' /\ InOrder'
<1>1. ASSUME NEW e \in Enrollments PROVE Delivered(e, enr[e].step)'
  <2>1. Delivered(e, enr'[e].step)
    BY NoRowDelivered DEF OrderInv, RowsDelivered
  <2>. QED  BY <2>1 DEF Delivered
<1>2. InOrder'
  BY DEF OrderInv, InOrder
<1>. QED  BY <1>1, <1>2 DEF RowsDelivered

\* Dispatchers that stay where they are keep what they claim.
LEMMA DispatchersKept ==
    ASSUME OrderInv, sent' = sent,
           \A d \in Dispatchers : \/ pc'[d] = pc[d] /\ loc'[d] = loc[d]
                                  \/ pc'[d] = "idle" /\ loc'[d] = NoLocals
    PROVE  BatchesDelivered' /\ CallsDelivered'
<1>1. ASSUME NEW d \in Dispatchers, NEW e \in Enrollments
      PROVE  Delivered(e, loc[d].rows[e].step)'
  <2>1. Delivered(e, loc'[d].rows[e].step)
    <3>1. CASE loc'[d] = loc[d]
      BY <3>1 DEF OrderInv, BatchesDelivered
    <3>2. CASE loc'[d] = NoLocals
      BY <3>2, NoRowDelivered DEF NoLocals
    <3>. QED  BY <3>1, <3>2
  <2>. QED  BY <2>1 DEF Delivered
<1>2. CallsDelivered'
  BY DEF OrderInv, CallsDelivered, Row
<1>. QED  BY <1>1, <1>2 DEF BatchesDelivered

\* A dispatcher that reads, goes on or finishes.
LEMMA MoveDelivered ==
    ASSUME TypeInv, OrderInv, NEW d \in Dispatchers, NEW l \in PCs, NEW r \in Locals,
           Moves(d, l, r), Reads(d, l, r), sent' = sent
    PROVE  BatchesDelivered' /\ CallsDelivered'
<1>1. d \in Actors /\ pc'[d] = l /\ loc'[d] = r
  BY InHand DEF TypeInv, TypeOK, Moves
<1>2. ASSUME NEW b \in Dispatchers, b # d PROVE pc'[b] = pc[b] /\ loc'[b] = loc[b]
  BY <1>2 DEF TypeInv, TypeOK, Moves, Actors
<1>3. ASSUME NEW b \in Dispatchers, NEW e \in Enrollments
      PROVE  Delivered(e, loc[b].rows[e].step)'
  <2>1. Delivered(e, loc'[b].rows[e].step)
    <3>1. CASE b = d
      <4>1. r.rows[e] \in {loc[d].rows[e], enr[e], NoRow}
        BY DEF Reads
      <4>. QED  BY <1>1, <3>1, <4>1, NoRowDelivered
                DEF OrderInv, BatchesDelivered, RowsDelivered
    <3>2. CASE b # d
      BY <1>2, <3>2 DEF OrderInv, BatchesDelivered
    <3>. QED  BY <3>1, <3>2
  <2>. QED  BY <2>1 DEF Delivered
<1>4. ASSUME NEW b \in Dispatchers, pc'[b] \in {"accepted", "advance"}
      PROVE  (sent[loc[b].cur][Row(b).step] > 0)'
  <2>1. b # d
    BY <1>1, <1>4 DEF Reads
  <2>. QED  BY <1>2, <1>4, <2>1 DEF OrderInv, CallsDelivered, Row
<1>. QED  BY <1>3, <1>4 DEF BatchesDelivered, CallsDelivered

LEMMA ContinueDelivered ==
    ASSUME TypeInv, OrderInv, NEW d \in Dispatchers, sent' = sent,
           Continue(d, loc[d].batch) \/ Finish(d)
    PROVE  BatchesDelivered' /\ CallsDelivered'
<1>1. d \in Actors /\ loc[d].batch \in SUBSET Enrollments /\ "idle" \in PCs
  BY InHand DEF PCs
<1>2. \E l \in PCs, r \in Locals : Moves(d, l, r) /\ Reads(d, l, r)
  BY <1>1, ContinueMoves, FinishMoves, FinishReads, NoLocalsType
<1>. QED  BY <1>2, MoveDelivered

LEMMA ReadOrder ==
    ASSUME TypeInv, OrderInv, NEW d \in Dispatchers, ReadStep(d)
    PROVE  OrderInv'
<1>1. \E l \in PCs, r \in Locals : Moves(d, l, r) /\ Reads(d, l, r)
  BY ScanTypes, LoadSequenceTypes, CountTypes, LoadMessagesTypes DEF ReadStep
<1>2. sent' = sent /\ enr' = enr
  BY DEF ReadStep, Scan, LoadSequence, CountDeliveries, LoadMessages, accepted
<1>. QED  BY <1>1, <1>2, MoveDelivered, RowsKept DEF OrderInv

\* Advance raises the step of a row by one: to the step after the one just sent.
LEMMA AdvanceOrder ==
    ASSUME TypeInv, OrderInv, NEW d \in Dispatchers, Advance(d)
    PROVE  OrderInv'
<1>1. /\ pc[d] = "advance" /\ loc[d].cur \in Enrollments
      /\ Row(d).step \in Steps /\ sent' = sent
      /\ Continue(d, loc[d].batch) \/ Finish(d)
  BY InHand DEF Advance, Turn, accepted
<1>2. BatchesDelivered' /\ CallsDelivered'
  BY <1>1, ContinueDelivered
<1>3. CASE enr' = enr
  BY <1>1, <1>2, <1>3, RowsKept DEF OrderInv
<1>4. CASE SetRow(loc[d].cur, Advanced(d))
  <2>1. Delivered(loc[d].cur, Row(d).step + 1)
    <3>1. Delivered(loc[d].cur, Row(d).step)
      BY <1>1 DEF OrderInv, BatchesDelivered, Row
    <3>2. sent[loc[d].cur][Row(d).step] > 0
      BY <1>1 DEF OrderInv, CallsDelivered
    <3>3. ASSUME NEW i \in Steps, i < Row(d).step + 1
          PROVE  i < Row(d).step \/ i = Row(d).step
      BY <1>1, <3>3, StepBoundsAssumption DEF Steps
    <3>. QED  BY <3>1, <3>2, <3>3 DEF Delivered
  <2>2. ASSUME NEW e \in Enrollments PROVE Delivered(e, enr'[e].step)
    <3>1. CASE e = loc[d].cur
      <4>1. enr'[e].step = Row(d).step + 1
        BY <1>1, <1>4, <3>1, AdvancedType DEF SetRow, TypeInv, TypeOK
      <4>. QED  BY <2>1, <3>1, <4>1
    <3>2. CASE e # loc[d].cur
      BY <1>4, <3>2 DEF SetRow, TypeInv, TypeOK, OrderInv, RowsDelivered
    <3>. QED  BY <3>1, <3>2
  <2>3. RowsDelivered'
    BY <1>1, <2>2 DEF RowsDelivered, Delivered
  <2>4. InOrder'
    BY <1>1 DEF OrderInv, InOrder
  <2>. QED  BY <1>2, <2>3, <2>4 DEF OrderInv
<1>. QED  BY <1>3, <1>4 DEF Advance

LEMMA WriteOrder ==
    ASSUME TypeInv, OrderInv, NEW d \in Dispatchers,
           Complete(d) \/ AccountFails(d) \/ BackOff(d)
    PROVE  OrderInv'
<1>1. /\ sent' = sent
      /\ Continue(d, loc[d].batch) \/ Finish(d)
  BY DEF Complete, AccountFails, BackOff, accepted
<1>2. ASSUME NEW e \in Enrollments PROVE enr'[e].step \in {enr[e].step, NoRow.step}
  <2>1. CASE Complete(d)
    BY <2>1 DEF Complete, SetRow, TypeInv, TypeOK, Rows
  <2>2. CASE enr' = enr
    BY <2>2
  <2>. QED  BY <2>1, <2>2 DEF AccountFails, BackOff
<1>. QED  BY <1>1, <1>2, ContinueDelivered, RowsKept DEF OrderInv

\* The platform accepts step n of an enrollment whose steps before n were sent.
LEMMA AcceptOrder ==
    ASSUME TypeInv, OrderInv, NEW d \in Dispatchers, Accept(d)
    PROVE  OrderInv'
<1> DEFINE cur == loc[d].cur
           n   == Row(d).step
<1>1. /\ pc[d] = "sending" /\ d \in Actors
      /\ cur \in Enrollments /\ n \in Steps
      /\ enr' = enr /\ loc' = loc
  BY InHand DEF Accept
<1>2. /\ \A e \in Enrollments, i \in Steps : sent[e][i] \in Nat /\ sent'[e][i] >= sent[e][i]
      /\ sent'[cur][n] > 0
      /\ \A e \in Enrollments, i \in Steps :
            e # cur \/ i # n => sent'[e][i] = sent[e][i]
  BY <1>1 DEF Accept, TypeInv, TypeOK
<1> HIDE DEF cur, n
<1>3. \A e \in Enrollments, i \in Steps : sent[e][i] > 0 => sent'[e][i] > 0
  <2> TAKE e \in Enrollments, i \in Steps
  <2>1. sent[e][i] = sent'[e][i] \/ (e = cur /\ i = n)
    BY <1>2
  <2>. QED  BY <1>2, <2>1
<1>4. ASSUME NEW e \in Enrollments, NEW k, Delivered(e, k)
      PROVE  \A i \in Steps : i < k => sent'[e][i] > 0
  BY <1>3, <1>4 DEF Delivered
<1>5. RowsDelivered'
  BY <1>1, <1>4 DEF OrderInv, RowsDelivered, Delivered
<1>6. BatchesDelivered'
  BY <1>1, <1>4 DEF OrderInv, BatchesDelivered, Delivered
<1>7. CallsDelivered'
  <2>1. ASSUME NEW b \in Dispatchers, pc'[b] \in {"accepted", "advance"}
        PROVE  sent'[loc[b].cur][Row(b).step] > 0
    <3>1. CASE b = d
      BY <1>2, <3>1 DEF cur, n
    <3>2. CASE b # d
      <4>1. pc[b] \in {"accepted", "advance"}
        BY <1>1, <2>1, <3>2 DEF Accept, Goto, TypeInv, TypeOK, Actors
      <4>2. loc[b].cur \in Enrollments /\ Row(b).step \in Steps
        BY <4>1, InHand
      <4>3. sent[loc[b].cur][Row(b).step] > 0
        BY <4>1 DEF OrderInv, CallsDelivered
      <4>. QED  BY <1>3, <4>2, <4>3
    <3>. QED  BY <3>1, <3>2
  <2>. QED  BY <1>1, <2>1 DEF CallsDelivered, Row
<1>8. InOrder'
  <2>1. ASSUME NEW e \in Enrollments, NEW i \in Steps, NEW j \in Steps,
               i < j, sent'[e][j] > 0
        PROVE  sent'[e][i] > 0
    <3>1. CASE e = cur /\ j = n
      <4>1. Delivered(cur, n)
        BY <1>1 DEF OrderInv, BatchesDelivered, Row, cur, n
      <4>. QED  BY <1>3, <2>1, <3>1, <4>1 DEF Delivered
    <3>2. CASE e # cur \/ j # n
      <4>1. sent[e][j] > 0
        BY <1>2, <2>1, <3>2
      <4>. QED  BY <1>3, <2>1, <4>1 DEF OrderInv, InOrder
    <3>. QED  BY <3>1, <3>2
  <2>. QED  BY <2>1 DEF InOrder
<1>. QED  BY <1>5, <1>6, <1>7, <1>8 DEF OrderInv

LEMMA ProviderOrder ==
    ASSUME TypeInv, OrderInv, NEW d \in Dispatchers, ProviderStep(d)
    PROVE  OrderInv'
<1>1. CASE Accept(d)
  BY <1>1, AcceptOrder
<1>2. CASE Reply(d)
  <2>1. sent' = sent /\ enr' = enr /\ loc' = loc /\ pc[d] = "accepted"
    BY <1>2 DEF Reply, Turn, accepted
  <2>2. \A b \in Dispatchers : pc'[b] \in {"accepted", "advance"} =>
                                 pc[b] \in {"accepted", "advance"}
    BY <1>2, <2>1 DEF Reply, Goto, TypeInv, TypeOK, Actors
  <2>3. BatchesDelivered' /\ CallsDelivered'
    BY <2>1, <2>2 DEF OrderInv, BatchesDelivered, CallsDelivered, Delivered, Row
  <2>. QED  BY <2>1, <2>3, RowsKept DEF OrderInv
<1>3. CASE LoseReply(d)
  <2>1. sent' = sent /\ enr' = enr /\ Finish(d)
    BY <1>3 DEF LoseReply
  <2>. QED  BY <2>1, ContinueDelivered, RowsKept DEF OrderInv
<1>4. CASE Refuse(d)
  <2>1. sent' = sent /\ enr' = enr
    BY <1>4 DEF Refuse, accepted
  <2>2. CASE Finish(d)
    BY <2>1, <2>2, ContinueDelivered, RowsKept DEF OrderInv
  <2>3. CASE Goto(d, "backOff") /\ UNCHANGED loc
    <3>1. \A b \in Dispatchers : pc'[b] \in {"accepted", "advance"} => pc'[b] = pc[b]
      BY <2>3 DEF Goto, TypeInv, TypeOK, Actors
    <3>2. BatchesDelivered' /\ CallsDelivered'
      BY <2>1, <2>3, <3>1 DEF OrderInv, BatchesDelivered, CallsDelivered, Delivered, Row
    <3>. QED  BY <2>1, <3>2, RowsKept DEF OrderInv
  <2>. QED  BY <1>4, <2>2, <2>3 DEF Refuse
<1>. QED  BY <1>1, <1>2, <1>3, <1>4 DEF ProviderStep

\* Requests move no dispatcher and leave every row's step, or set it to the first.
LEMMA RequestOrder ==
    ASSUME TypeInv, OrderInv, NEW c \in Clients, RequestStep(c)
    PROVE  OrderInv'
<1>1. sent' = sent
  BY DEF RequestStep, CreateSequence, Enroll, UpdateEnrollment, SetStatus, ReplaceMessages,
         InsertMessages, DeleteEnrollments, DeleteMessages, DeleteSequence, accepted
<1>2. ASSUME NEW e \in Enrollments PROVE enr'[e].step \in {enr[e].step, NoRow.step}
  <2>1. CASE Enroll(c)
    BY <2>1 DEF Enroll, SetRow, TypeInv, TypeOK, Rows, NoRow
  <2>2. CASE UpdateEnrollment(c)
    BY <2>2 DEF UpdateEnrollment, SetRow, TypeInv, TypeOK, Rows
  <2>3. CASE DeleteEnrollments(c)
    BY <2>3 DEF DeleteEnrollments, TypeInv, TypeOK, Rows
  <2>4. CASE enr' = enr
    BY <2>4
  <2>. QED  BY <2>1, <2>2, <2>3, <2>4
            DEF RequestStep, CreateSequence, SetStatus, ReplaceMessages, InsertMessages,
                DeleteMessages, DeleteSequence
<1>3. ASSUME NEW d \in Dispatchers PROVE pc'[d] = pc[d] /\ loc'[d] = loc[d]
  <2>1. d # c /\ d \in Actors
    BY StepActorsAssumption DEF Actors
  <2>. QED  BY <2>1 DEF RequestStep, CreateSequence, Enroll, UpdateEnrollment, SetStatus,
         ReplaceMessages, InsertMessages, DeleteEnrollments, DeleteMessages,
         DeleteSequence, Finish, Goto, SetLocals, TypeInv, TypeOK
<1>. QED  BY <1>1, <1>2, <1>3, RowsKept, DispatchersKept DEF OrderInv

LEMMA TickOrder ==
    ASSUME TypeInv, OrderInv, Tick
    PROVE  OrderInv'
<1>1. \A e \in Enrollments : enr'[e].step = enr[e].step
  BY DEF Tick, TypeInv, TypeOK, Rows
<1>2. sent' = sent /\ pc' = pc /\ loc' = loc
  BY DEF Tick, accepted
<1>. QED  BY <1>1, <1>2, RowsKept, DispatchersKept DEF OrderInv

LEMMA CrashOrder ==
    ASSUME TypeInv, OrderInv, NEW h \in Hosts, Crash(h)
    PROVE  OrderInv'
<1>1. sent' = sent /\ enr' = enr
  BY DEF Crash
<1>2. ASSUME NEW d \in Dispatchers
      PROVE  \/ pc'[d] = pc[d] /\ loc'[d] = loc[d]
             \/ pc'[d] = "idle" /\ loc'[d] = NoLocals
  BY DEF Crash, Actors
<1>. QED  BY <1>1, <1>2, RowsKept, DispatchersKept DEF OrderInv

LEMMA InitOrder == Init => OrderInv
<1> SUFFICES ASSUME Init PROVE OrderInv  OBVIOUS
<1>1. RowsDelivered
  BY NoRowDelivered DEF Init, RowsDelivered
<1>2. BatchesDelivered
  BY NoRowDelivered DEF Init, BatchesDelivered, NoLocals, Actors
<1>3. CallsDelivered
  BY DEF Init, CallsDelivered, Actors
<1>4. InOrder
  BY DEF Init, InOrder
<1>. QED  BY <1>1, <1>2, <1>3, <1>4 DEF OrderInv

LEMMA StepOrder ==
    ASSUME TypeInv, OrderInv, [Next]_vars
    PROVE  OrderInv'
<1>1. CASE UNCHANGED vars
  BY <1>1 DEF vars, OrderInv, RowsDelivered, BatchesDelivered, CallsDelivered,
              InOrder, Delivered, Row
<1>2. ASSUME NEW d \in Dispatchers, Scan(d) \/ Handle(d) \/ ProviderStep(d)
      PROVE  OrderInv'
  BY <1>2, ReadOrder, WriteOrder, AdvanceOrder, ProviderOrder DEF Handle, ReadStep
<1>3. CASE \E c \in Clients : RequestStep(c)
  BY <1>3, RequestOrder
<1>4. CASE Tick
  BY <1>4, TickOrder
<1>5. CASE \E h \in Hosts : Crash(h)
  BY <1>5, CrashOrder
<1>. QED  BY <1>1, <1>2, <1>3, <1>4, <1>5 DEF Next

\* Steps reach a user in order and none is left out: with any number of
\* dispatchers in any processes, while requests replace the messages, and
\* whatever answers are lost and processes crash.
THEOREM StepsInOrder == Spec => []InOrder
<1>1. TypeInv /\ OrderInv => InOrder
  BY DEF OrderInv
<1>2. TypeInv /\ OrderInv /\ [Next]_vars => (TypeInv /\ OrderInv)'
  BY StepTypes, StepOrder
<1>. QED  BY <1>1, <1>2, InitTypes, InitOrder, PTL DEF Spec

-----------------------------------------------------------------------------
(* SentOnce, with one dispatcher: two that have both read a row both send its *)
(* step.  A row at step n shows that the steps after n were not sent          *)
(* and that no acceptance of step n is missing from the row: each was either  *)
(* not recorded, or is in the hands of the dispatcher.                        *)

OneDispatcher == \A d, b \in Dispatchers : d = b

\* Dispatcher d may still send enrollment e its step.
Holds(d, e) == e \in loc[d].batch \/ e = loc[d].cur

\* An acceptance that will be recorded in the row, or be lost.
Pending(e) ==
    \E d \in Dispatchers : loc[d].cur = e /\ pc[d] \in {"accepted", "advance"}

\* A deleted row is not advanced, and only sent again if it is still held.
Owed(e) == enr[e].status # "deleted" \/ \E d \in Dispatchers : Holds(d, e)

Settled(e) ==
    \A i \in Steps :
       /\ sent[e][i] <= 1 + unrecorded[e]
       /\ i > enr[e].step => sent[e][i] = 0
       /\ i = enr[e].step /\ Owed(e) /\ ~Pending(e) => sent[e][i] <= unrecorded[e]

\* The rows a dispatcher holds are at the steps it has read.
Current(d) ==
    /\ loc[d].cur \notin loc[d].batch
    /\ \A e \in Enrollments : Holds(d, e) =>
          enr[e].status # "absent" /\ loc[d].rows[e].step = enr[e].step

SettledInv ==
    /\ \A e \in Enrollments : Settled(e)
    /\ \A e \in Enrollments : enr[e].status = "absent" => enr[e].step = 0
    /\ \A d \in Dispatchers : Current(d)

\* An enrollment stays settled while its row keeps its step and no acceptance
\* gets out of the hands of the dispatcher unrecorded.
LEMMA SettledKept ==
    ASSUME TypeInv, NEW e \in Enrollments, Settled(e),
           sent' = sent, unrecorded'[e] \in Nat, unrecorded'[e] >= unrecorded[e],
           enr'[e].step = enr[e].step, Owed(e)' => Owed(e),
           Owed(e)' /\ Pending(e) => Pending(e)' \/ unrecorded'[e] > unrecorded[e]
    PROVE  Settled(e)'
<1> SUFFICES ASSUME NEW i \in Steps
             PROVE  /\ sent'[e][i] <= 1 + unrecorded'[e]
                    /\ i > enr'[e].step => sent'[e][i] = 0
                    /\ i = enr'[e].step /\ Owed(e)' /\ ~Pending(e)'
                         => sent'[e][i] <= unrecorded'[e]
  BY DEF Settled
<1>1. sent[e][i] \in Nat /\ unrecorded[e] \in Nat /\ sent'[e][i] = sent[e][i]
  BY DEF TypeInv, TypeOK
<1>2. sent[e][i] <= 1 + unrecorded[e]
  BY DEF Settled
<1>3. sent'[e][i] <= 1 + unrecorded'[e]
  BY <1>1, <1>2
<1>4. i > enr'[e].step => sent'[e][i] = 0
  BY <1>1 DEF Settled
<1>5. ASSUME i = enr'[e].step, Owed(e)', ~Pending(e)'
      PROVE  sent'[e][i] <= unrecorded'[e]
  <2>1. CASE Pending(e)
    <3>1. unrecorded'[e] > unrecorded[e]
      BY <1>5, <2>1
    <3>. QED  BY <1>1, <1>2, <3>1
  <2>2. CASE ~Pending(e)
    <3>1. sent[e][i] <= unrecorded[e]
      BY <1>5, <2>2 DEF Settled
    <3>. QED  BY <1>1, <3>1
  <2>. QED  BY <2>1, <2>2
<1>. QED  BY <1>3, <1>4, <1>5

\* The same for all enrollments, dispatchers having read nothing that is deleted.
LEMMA StepKeepsSettled ==
    ASSUME TypeInv, SettledInv, sent' = sent,
           \A e \in Enrollments :
              unrecorded'[e] \in Nat /\ unrecorded'[e] >= unrecorded[e],
           \A e \in Enrollments :
              /\ enr'[e].step = enr[e].step
              /\ enr'[e].status = "absent" => enr[e].status = "absent"
              /\ enr'[e].status # "deleted" => enr[e].status # "deleted",
           \A d \in Dispatchers : Current(d)',
           \A e \in Enrollments : \A d \in Dispatchers :
              Holds(d, e)' => Holds(d, e) \/ enr[e].status # "deleted",
           \A e \in Enrollments :
              Owed(e)' /\ Pending(e) => Pending(e)' \/ unrecorded'[e] > unrecorded[e]
    PROVE  SettledInv'
<1>1. ASSUME NEW e \in Enrollments PROVE Settled(e)'
  <2>1. Settled(e)
    BY DEF SettledInv
  <2>2. Owed(e)' => Owed(e)
    BY DEF Owed
  <2>3. unrecorded'[e] \in Nat /\ unrecorded'[e] >= unrecorded[e]
        /\ enr'[e].step = enr[e].step
    OBVIOUS
  <2>4. Owed(e)' /\ Pending(e) => Pending(e)' \/ unrecorded'[e] > unrecorded[e]
    OBVIOUS
  <2>. QED  BY <2>1, <2>2, <2>3, <2>4, SettledKept
<1>2. ASSUME NEW e \in Enrollments, enr'[e].status = "absent" PROVE enr'[e].step = 0
  BY <1>2 DEF SettledInv
<1>. QED  BY <1>1, <1>2 DEF SettledInv

LEMMA CurrentKept ==
    ASSUME NEW d \in Dispatchers, Current(d), loc'[d] = loc[d],
           \A e \in Enrollments :
              /\ enr'[e].step = enr[e].step
              /\ enr'[e].status = "absent" => enr[e].status = "absent"
    PROVE  Current(d)' /\ (\A e \in Enrollments : Holds(d, e)' => Holds(d, e))
BY DEF Current, Holds

\* Dispatcher d gives up the enrollment it handles, or one of its batch.
Releases(d) ==
    /\ pc'[d] \in {"idle", "batch"}
    /\ loc'[d].cur = None /\ loc'[d].batch \subseteq loc[d].batch
    /\ loc'[d].rows = loc[d].rows \/ loc'[d].batch = {}

LEMMA FinishReleases ==
    ASSUME TypeInv, NEW d \in Dispatchers, Finish(d)
    PROVE  Releases(d)
<1>1. d \in Actors
  BY DEF Actors
<1>. QED  BY <1>1 DEF Finish, Goto, SetLocals, Releases, NoLocals, TypeInv, TypeOK

LEMMA ContinueReleases ==
    ASSUME TypeInv, NEW d \in Dispatchers, NEW batch \in SUBSET loc[d].batch,
           Continue(d, batch)
    PROVE  Releases(d)
<1>1. CASE batch = {}
  BY <1>1, FinishReleases DEF Continue
<1>2. CASE batch # {}
  <2> DEFINE r == [loc[d] EXCEPT !.batch = batch, !.cur = None, !.list = <<>>]
  <2>1. d \in Actors /\ loc[d] \in Locals
    BY InHand
  <2>2. r.batch = batch /\ r.cur = None /\ r.rows = loc[d].rows
    BY <2>1 DEF Locals
  <2>3. pc'[d] = "batch" /\ loc'[d] = r
    BY <1>2, <2>1 DEF Continue, Goto, SetLocals, TypeInv, TypeOK
  <2>. QED  BY <2>2, <2>3 DEF Releases
<1>. QED  BY <1>1, <1>2

LEMMA ReleaseCurrent ==
    ASSUME TypeInv, NEW d \in Dispatchers, Current(d), Releases(d),
           \A e \in Enrollments : e \in loc'[d].batch =>
              /\ enr'[e].step = enr[e].step
              /\ enr'[e].status = "absent" => enr[e].status = "absent"
    PROVE  /\ Current(d)'
           /\ \A e \in Enrollments : Holds(d, e)' => e \in loc[d].batch
<1>1. \A e \in Enrollments : e # None
  BY StepActorsAssumption
<1>2. loc[d].batch \in SUBSET Enrollments
  BY InHand
<1>3. \A e \in Enrollments : Holds(d, e)' => e \in loc'[d].batch /\ e \in loc[d].batch
  BY <1>1 DEF Releases, Holds
<1>4. loc'[d].cur \notin loc'[d].batch
  BY <1>1, <1>2 DEF Releases
<1>5. ASSUME NEW e \in Enrollments, Holds(d, e)'
      PROVE  enr'[e].status # "absent" /\ loc'[d].rows[e].step = enr'[e].step
  <2>1. e \in loc'[d].batch /\ e \in loc[d].batch
    BY <1>3, <1>5
  <2>2. loc'[d].rows[e] = loc[d].rows[e]
    BY <2>1 DEF Releases
  <2>3. enr[e].status # "absent" /\ loc[d].rows[e].step = enr[e].step
    BY <2>1 DEF Current, Holds
  <2>. QED  BY <2>1, <2>2, <2>3
<1>. QED  BY <1>3, <1>4, <1>5 DEF Current

LEMMA ReleaseSettled ==
    ASSUME TypeInv, SettledInv, OneDispatcher, NEW d \in Dispatchers, Releases(d),
           sent' = sent,
           \A e \in Enrollments :
              unrecorded'[e] \in Nat /\ unrecorded'[e] >= unrecorded[e],
           \A e \in Enrollments :
              /\ enr'[e].step = enr[e].step
              /\ enr'[e].status = "absent" => enr[e].status = "absent"
              /\ enr'[e].status # "deleted" => enr[e].status # "deleted",
           \A e \in Enrollments :
              Pending(e) => unrecorded'[e] > unrecorded[e] \/ enr'[e].status = "deleted"
    PROVE  SettledInv'
<1>1. Current(d)
  BY DEF SettledInv
<1>2. /\ Current(d)'
      /\ \A e \in Enrollments : Holds(d, e)' => e \in loc[d].batch
  BY <1>1, ReleaseCurrent
<1>3. \A b \in Dispatchers : Current(b)'
  BY <1>2 DEF OneDispatcher
<1>4. \A e \in Enrollments : \A b \in Dispatchers :
        Holds(b, e)' => Holds(b, e) \/ enr[e].status # "deleted"
  <2> SUFFICES ASSUME NEW e \in Enrollments, NEW b \in Dispatchers, Holds(b, e)'
               PROVE  Holds(b, e)
    OBVIOUS
  <2>1. b = d
    BY DEF OneDispatcher
  <2>. QED  BY <1>2, <2>1 DEF Holds
<1>5. \A e \in Enrollments :
        Owed(e)' /\ Pending(e) => Pending(e)' \/ unrecorded'[e] > unrecorded[e]
  <2> SUFFICES ASSUME NEW e \in Enrollments, Owed(e)', Pending(e), enr'[e].status = "deleted"
               PROVE  FALSE
    OBVIOUS
  <2>1. loc[d].cur = e
    BY DEF Pending, OneDispatcher
  <2>2. Holds(d, e)'
    <3>1. PICK b \in Dispatchers : Holds(b, e)'
      BY DEF Owed
    <3>2. b = d
      BY DEF OneDispatcher
    <3>. QED  BY <3>1, <3>2
  <2>3. e \in loc[d].batch
    BY <1>2, <2>2
  <2>. QED  BY <1>1, <2>1, <2>3 DEF Current
<1>. QED  BY <1>3, <1>4, <1>5, StepKeepsSettled

\* Dispatcher d goes on with the enrollment it handles, no answer yet recorded.
LEMMA HoldSettled ==
    ASSUME TypeInv, SettledInv, OneDispatcher, NEW d \in Dispatchers,
           sent' = sent, unrecorded' = unrecorded, enr' = enr,
           loc'[d].rows = loc[d].rows, loc'[d].cur \notin loc'[d].batch,
           \A e \in Enrollments : Holds(d, e)' => Holds(d, e),
           \/ pc[d] \notin {"accepted", "advance"}
           \/ pc'[d] = "advance" /\ loc' = loc
    PROVE  SettledInv'
<1>1. Current(d)
  BY DEF SettledInv
<1>2. Current(d)'
  <2>1. ASSUME NEW e \in Enrollments, Holds(d, e)'
        PROVE  enr'[e].status # "absent" /\ loc'[d].rows[e].step = enr'[e].step
    BY <1>1, <2>1 DEF Current
  <2>. QED  BY <2>1 DEF Current
<1>3. \A b \in Dispatchers : Current(b)'
  BY <1>2 DEF OneDispatcher
<1>4. \A e \in Enrollments : \A b \in Dispatchers :
        Holds(b, e)' => Holds(b, e) \/ enr[e].status # "deleted"
  <2> SUFFICES ASSUME NEW e \in Enrollments, NEW b \in Dispatchers, Holds(b, e)'
               PROVE  Holds(b, e)
    OBVIOUS
  <2>1. b = d
    BY DEF OneDispatcher
  <2>. QED  BY <2>1
<1>5. \A e \in Enrollments :
        Owed(e)' /\ Pending(e) => Pending(e)' \/ unrecorded'[e] > unrecorded[e]
  <2> SUFFICES ASSUME NEW e \in Enrollments, Pending(e) PROVE Pending(e)'
    OBVIOUS
  <2>1. loc[d].cur = e /\ pc[d] \in {"accepted", "advance"}
    BY DEF Pending, OneDispatcher
  <2>. QED  BY <2>1 DEF Pending
<1>6. \A e \in Enrollments : unrecorded'[e] \in Nat /\ unrecorded'[e] >= unrecorded[e]
  BY DEF TypeInv, TypeOK
<1>7. \A e \in Enrollments :
        /\ enr'[e].step = enr[e].step
        /\ enr'[e].status = "absent" => enr[e].status = "absent"
        /\ enr'[e].status # "deleted" => enr[e].status # "deleted"
  OBVIOUS
<1>. QED  BY <1>3, <1>4, <1>5, <1>6, <1>7, StepKeepsSettled

LEMMA ScanSettled ==
    ASSUME TypeInv, SettledInv, OneDispatcher, NEW d \in Dispatchers, Scan(d)
    PROVE  SettledInv'
<1>1. PICK batch \in SUBSET {e \in Enrollments : Due(e)} :
         SetLocals(d, [NoLocals EXCEPT !.batch = batch,
           !.rows = [e \in Enrollments |-> IF e \in batch THEN enr[e] ELSE NoRow]])
  BY DEF Scan
<1>2. /\ loc'[d].batch = batch /\ loc'[d].cur = None
      /\ loc'[d].rows = [e \in Enrollments |-> IF e \in batch THEN enr[e] ELSE NoRow]
  BY <1>1, InHand DEF SetLocals, NoLocals, TypeInv, TypeOK
<1>3. sent' = sent /\ unrecorded' = unrecorded /\ enr' = enr /\ pc[d] = "idle"
  BY DEF Scan, accepted, Turn
<1>4. \A e \in Enrollments : e # None
  BY StepActorsAssumption
<1>5. \A e \in Enrollments : Holds(d, e)' => e \in batch
  BY <1>2, <1>4 DEF Holds
<1>6. Current(d)'
  <2>1. loc'[d].cur \notin loc'[d].batch
    BY <1>2, <1>4
  <2>2. ASSUME NEW e \in Enrollments, Holds(d, e)'
        PROVE  enr'[e].status # "absent" /\ loc'[d].rows[e].step = enr'[e].step
    BY <1>2, <1>3, <1>5, <2>2 DEF Due
  <2>. QED  BY <2>1, <2>2 DEF Current
<1>7. \A b \in Dispatchers : Current(b)'
  BY <1>6 DEF OneDispatcher
<1>8. \A e \in Enrollments : \A b \in Dispatchers :
        Holds(b, e)' => Holds(b, e) \/ enr[e].status # "deleted"
  <2> SUFFICES ASSUME NEW e \in Enrollments, NEW b \in Dispatchers, Holds(b, e)'
               PROVE  enr[e].status # "deleted"
    OBVIOUS
  <2>1. e \in batch
    BY <1>5 DEF OneDispatcher
  <2>. QED  BY <2>1 DEF Due
<1>9. \A e \in Enrollments : ~Pending(e)
  BY <1>3 DEF Pending, OneDispatcher
<1>10. \A e \in Enrollments : unrecorded'[e] \in Nat /\ unrecorded'[e] >= unrecorded[e]
  BY <1>3 DEF TypeInv, TypeOK
<1>11. \A e \in Enrollments :
        /\ enr'[e].step = enr[e].step
        /\ enr'[e].status = "absent" => enr[e].status = "absent"
        /\ enr'[e].status # "deleted" => enr[e].status # "deleted"
  BY <1>3
<1>. QED  BY <1>3, <1>7, <1>8, <1>9, <1>10, <1>11, StepKeepsSettled

\* What a dispatcher that releases an enrollment before its call leaves alone.
LEMMA QuietRelease ==
    ASSUME TypeInv, SettledInv, OneDispatcher, NEW d \in Dispatchers, Releases(d),
           sent' = sent, unrecorded' = unrecorded, enr' = enr,
           pc[d] \notin {"accepted", "advance"}
    PROVE  SettledInv'
<1>1. \A e \in Enrollments : unrecorded'[e] \in Nat /\ unrecorded'[e] >= unrecorded[e]
  BY DEF TypeInv, TypeOK
<1>2. \A e \in Enrollments : ~Pending(e)
  BY DEF Pending, OneDispatcher
<1>. QED  BY <1>1, <1>2, ReleaseSettled

LEMMA ReadSettled ==
    ASSUME TypeInv, SettledInv, OneDispatcher, NEW d \in Dispatchers,
           LoadSequence(d) \/ CountDeliveries(d) \/ LoadMessages(d)
    PROVE  SettledInv'
<1>1. /\ sent' = sent /\ unrecorded' = unrecorded /\ enr' = enr
      /\ pc[d] \in {"batch", "count", "messages"}
  BY DEF LoadSequence, CountDeliveries, LoadMessages, Turn, accepted
<1>2. d \in Actors /\ loc[d] \in Locals /\ loc[d].batch \in SUBSET Enrollments
  BY InHand
<1>3. Current(d)
  BY DEF SettledInv
<1>4. CASE \E batch \in SUBSET loc[d].batch : Continue(d, batch)
  <2>1. Releases(d)
    BY <1>4, ContinueReleases
  <2>. QED  BY <1>1, <2>1, QuietRelease
<1>5. CASE UNCHANGED loc
  <2>1. loc'[d].cur \notin loc'[d].batch /\ loc'[d].rows = loc[d].rows
    BY <1>3, <1>5 DEF Current
  <2>2. \A e \in Enrollments : Holds(d, e)' => Holds(d, e)
    BY <1>5 DEF Holds
  <2>. QED  BY <1>1, <2>1, <2>2, HoldSettled
<1>6. CASE SetLocals(d, [loc[d] EXCEPT !.list = seq.messages])
  <2>1. /\ loc'[d].rows = loc[d].rows /\ loc'[d].cur = loc[d].cur
        /\ loc'[d].batch = loc[d].batch
    BY <1>2, <1>6 DEF SetLocals, TypeInv, TypeOK, Locals
  <2>2. \A e \in Enrollments : Holds(d, e)' => Holds(d, e)
    BY <2>1 DEF Holds
  <2>. QED  BY <1>1, <1>3, <2>1, <2>2, HoldSettled DEF Current
<1>7. ASSUME NEW e \in loc[d].batch,
             SetLocals(d, [loc[d] EXCEPT !.batch = @ \ {e}, !.cur = e])
      PROVE  SettledInv'
  <2>1. /\ loc'[d].rows = loc[d].rows /\ loc'[d].cur = e
        /\ loc'[d].batch = loc[d].batch \ {e}
    BY <1>2, <1>7 DEF SetLocals, TypeInv, TypeOK, Locals
  <2>2. \A x \in Enrollments : Holds(d, x)' => Holds(d, x)
    BY <2>1 DEF Holds
  <2>. QED  BY <1>1, <2>1, <2>2, HoldSettled
<1>8. CASE LoadSequence(d)
  <2>1. PICK e \in loc[d].batch :
          \/ SetLocals(d, [loc[d] EXCEPT !.batch = @ \ {e}, !.cur = e])
          \/ Continue(d, loc[d].batch \ {e})
    BY <1>8 DEF LoadSequence
  <2>2. loc[d].batch \ {e} \in SUBSET loc[d].batch
    OBVIOUS
  <2>. QED  BY <1>4, <1>7, <2>1, <2>2
<1>9. CASE CountDeliveries(d) \/ LoadMessages(d)
  <2>1. loc[d].batch \in SUBSET loc[d].batch
    OBVIOUS
  <2>. QED  BY <1>4, <1>5, <1>6, <1>9, <2>1 DEF CountDeliveries, LoadMessages
<1>. QED  BY <1>8, <1>9

LEMMA WriteSettled ==
    ASSUME TypeInv, SettledInv, OneDispatcher, NEW d \in Dispatchers,
           Complete(d) \/ AccountFails(d) \/ BackOff(d)
    PROVE  SettledInv'
<1>1. /\ sent' = sent /\ unrecorded' = unrecorded
      /\ pc[d] \in {"complete", "messages", "backOff"}
      /\ Continue(d, loc[d].batch) \/ Finish(d)
  BY DEF Complete, AccountFails, BackOff, Turn, accepted
<1>2. loc[d].batch \in SUBSET loc[d].batch
  OBVIOUS
<1>3. Releases(d)
  BY <1>1, <1>2, ContinueReleases, FinishReleases
<1>4. CASE enr' = enr
  BY <1>1, <1>3, <1>4, QuietRelease
<1>5. CASE Complete(d) /\ ~Gone(loc[d].cur)
  <2>1. loc[d].cur \in Enrollments
    BY <1>5, InHand DEF Complete, Turn, Handling
  <2>2. ASSUME NEW e \in Enrollments
        PROVE  /\ enr'[e].step = enr[e].step
               /\ enr'[e].status = "absent" => enr[e].status = "absent"
               /\ enr'[e].status # "deleted" => enr[e].status # "deleted"
    <3>1. enr[e] \in Rows
      BY DEF TypeInv, TypeOK
    <3>2. \/ enr'[e] = enr[e]
          \/ /\ enr[e].status # "deleted"
             /\ enr'[e] = [enr[e] EXCEPT !.status = "completed"]
      BY <1>5, <2>1 DEF Complete, SetRow, Gone, TypeInv, TypeOK
    <3>. QED  BY <3>1, <3>2 DEF Rows
  <2>3. \A e \in Enrollments : unrecorded'[e] \in Nat /\ unrecorded'[e] >= unrecorded[e]
    BY <1>1 DEF TypeInv, TypeOK
  <2>4. \A e \in Enrollments : ~Pending(e)
    BY <1>1 DEF Pending, OneDispatcher
  <2>. QED  BY <1>1, <1>3, <2>2, <2>3, <2>4, ReleaseSettled
<1>. QED  BY <1>4, <1>5 DEF Complete, AccountFails, BackOff

\* The step of the enrollment is recorded in its row: no later step was sent.
LEMMA AdvanceSettled ==
    ASSUME TypeInv, SettledInv, OneDispatcher, NEW d \in Dispatchers, Advance(d)
    PROVE  SettledInv'
<1>. PICK cur, n : cur = loc[d].cur /\ n = Row(d).step
  OBVIOUS
<1>1. /\ pc[d] = "advance" /\ cur \in Enrollments /\ n \in Steps /\ n \in Nat
      /\ sent' = sent /\ unrecorded' = unrecorded
      /\ Continue(d, loc[d].batch) \/ Finish(d)
  BY InHand DEF Advance, Turn, accepted, Handling
<1>2. loc[d].batch \in SUBSET loc[d].batch
  OBVIOUS
<1>3. Releases(d)
  BY <1>1, <1>2, ContinueReleases, FinishReleases
<1>4. Current(d) /\ enr[cur].step = n /\ enr[cur].status # "absent"
  BY <1>1 DEF SettledInv, Current, Holds, Row
<1>5. \A e \in Enrollments : unrecorded'[e] \in Nat /\ unrecorded'[e] >= unrecorded[e]
  BY <1>1 DEF TypeInv, TypeOK
<1>6. \A e \in Enrollments : Pending(e) => e = cur
  BY DEF Pending, OneDispatcher
<1>7. CASE Gone(cur) /\ enr' = enr
  <2>1. \A e \in Enrollments : Pending(e) => enr'[e].status = "deleted"
    BY <1>6, <1>7 DEF Gone
  <2>2. \A e \in Enrollments :
        /\ enr'[e].step = enr[e].step
        /\ enr'[e].status = "absent" => enr[e].status = "absent"
        /\ enr'[e].status # "deleted" => enr[e].status # "deleted"
    BY <1>7
  <2>. QED  BY <1>1, <1>3, <1>5, <2>1, <2>2, ReleaseSettled
<1>8. CASE ~Gone(cur) /\ SetRow(cur, Advanced(d))
  <2>1. /\ enr'[cur] = Advanced(d)
        /\ \A e \in Enrollments : e # cur => enr'[e] = enr[e]
    BY <1>1, <1>8 DEF SetRow, TypeInv, TypeOK
  <2>2. enr'[cur].step = n + 1
    BY <1>1, <2>1, AdvancedType
  <2>3. \A e \in Enrollments : e \in loc'[d].batch => e # cur
    BY <1>3, <1>4 DEF Releases, Current
  <2>4. /\ Current(d)'
        /\ \A e \in Enrollments : Holds(d, e)' => e \in loc[d].batch
    BY <1>3, <1>4, <2>1, <2>3, ReleaseCurrent
  <2>5. \A b \in Dispatchers : Current(b)'
    BY <2>4 DEF OneDispatcher
  <2>6. enr'[cur].status # "absent"
    <3>1. enr[cur] \in Rows
      BY <1>1 DEF TypeInv, TypeOK
    <3>2. Advanced(d).status \in {"completed", enr[cur].status}
      BY <3>1 DEF Advanced, Rows
    <3>. QED  BY <1>4, <2>1, <3>2
  <2>7. Settled(cur)'
    <3> SUFFICES ASSUME NEW i \in Steps
                 PROVE  /\ sent'[cur][i] <= 1 + unrecorded'[cur]
                        /\ i > enr'[cur].step => sent'[cur][i] = 0
                        /\ i = enr'[cur].step => sent'[cur][i] <= unrecorded'[cur]
      BY DEF Settled
    <3>1. /\ sent[cur][i] \in Nat /\ unrecorded[cur] \in Nat
          /\ sent[cur][i] <= 1 + unrecorded[cur]
          /\ i > n => sent[cur][i] = 0
      BY <1>1, <1>4 DEF SettledInv, Settled, TypeInv, TypeOK
    <3>2. i \in Nat
      BY StepBoundsAssumption DEF Steps
    <3>. QED  BY <1>1, <2>2, <3>1, <3>2
  <2>8. ASSUME NEW e \in Enrollments, e # cur PROVE Settled(e)'
    <3>1. Settled(e) /\ ~Pending(e) /\ enr'[e] = enr[e]
      BY <1>6, <2>1, <2>8 DEF SettledInv
    <3>2. Owed(e)' => Owed(e)
      <4>1. ASSUME NEW b \in Dispatchers, Holds(b, e)' PROVE Holds(b, e)
        BY <2>4, <4>1 DEF OneDispatcher, Holds
      <4>. QED  BY <3>1, <4>1 DEF Owed
    <3>. QED  BY <1>1, <1>5, <3>1, <3>2, SettledKept
  <2>9. ASSUME NEW e \in Enrollments, enr'[e].status = "absent" PROVE enr'[e].step = 0
    <3>1. e # cur
      BY <2>6, <2>9
    <3>. QED  BY <2>1, <2>9, <3>1 DEF SettledInv
  <2>. QED  BY <2>5, <2>7, <2>8, <2>9 DEF SettledInv
<1>. QED  BY <1>7, <1>8 DEF Advance

\* The platform accepts the step of the row: one more than were not recorded.
LEMMA AcceptSettled ==
    ASSUME TypeInv, SettledInv, OneDispatcher, NEW d \in Dispatchers, Accept(d)
    PROVE  SettledInv'
<1>. PICK cur, n : cur = loc[d].cur /\ n = Row(d).step
  OBVIOUS
<1>1. /\ pc[d] = "sending" /\ cur \in Enrollments /\ n \in Steps
      /\ enr' = enr /\ unrecorded' = unrecorded /\ loc' = loc
      /\ pc'[d] = "accepted"
  BY InHand DEF Accept, Goto, TypeInv, TypeOK
<1>2. Current(d) /\ enr[cur].step = n
  BY <1>1 DEF SettledInv, Current, Holds, Row
<1>3. Owed(cur) /\ ~Pending(cur)
  BY <1>1 DEF Owed, Holds, Pending, OneDispatcher
<1>4. /\ sent'[cur][n] = sent[cur][n] + 1
      /\ \A e \in Enrollments, i \in Steps :
            e # cur \/ i # n => sent'[e][i] = sent[e][i]
  BY <1>1 DEF Accept, TypeInv, TypeOK
<1>5. Settled(cur)'
  <2> SUFFICES ASSUME NEW i \in Steps
               PROVE  /\ sent'[cur][i] <= 1 + unrecorded'[cur]
                      /\ i > enr'[cur].step => sent'[cur][i] = 0
                      /\ i = enr'[cur].step => Pending(cur)'
    BY DEF Settled
  <2>1. Pending(cur)'
    BY <1>1 DEF Pending
  <2>2. /\ sent[cur][i] \in Nat /\ unrecorded[cur] \in Nat
        /\ sent[cur][i] <= 1 + unrecorded[cur]
        /\ i > n => sent[cur][i] = 0
        /\ i = n => sent[cur][i] <= unrecorded[cur]
    BY <1>1, <1>2, <1>3 DEF SettledInv, Settled, TypeInv, TypeOK
  <2>3. CASE i = n
    <3>1. sent'[cur][i] = sent[cur][i] + 1 /\ enr'[cur].step = i
      BY <1>1, <1>2, <1>4, <2>3
    <3>2. i \in Nat
      BY StepBoundsAssumption DEF Steps
    <3>. QED  BY <1>1, <2>1, <2>2, <2>3, <3>1, <3>2
  <2>4. CASE i # n
    BY <1>1, <1>2, <1>4, <2>1, <2>2, <2>4
  <2>. QED  BY <2>3, <2>4
<1>6. ASSUME NEW e \in Enrollments, e # cur PROVE Settled(e)'
  <2>1. Settled(e)
    BY DEF SettledInv
  <2>2. Owed(e)' => Owed(e)
    BY <1>1 DEF Owed, Holds
  <2>3. ~Pending(e)
    BY <1>1, <1>6 DEF Pending, OneDispatcher
  <2>4. \A i \in Steps : sent'[e][i] = sent[e][i]
    BY <1>4, <1>6
  <2>. QED  BY <1>1, <2>1, <2>2, <2>3, <2>4 DEF Settled
<1>7. \A b \in Dispatchers : Current(b)'
  <2>1. ASSUME NEW b \in Dispatchers PROVE Current(b)'
    BY <1>1, CurrentKept DEF SettledInv
  <2>. QED  BY <2>1
<1>8. \A e \in Enrollments : enr'[e].status = "absent" => enr'[e].step = 0
  BY <1>1 DEF SettledInv
<1>. QED  BY <1>5, <1>6, <1>7, <1>8 DEF SettledInv

LEMMA ProviderSettled ==
    ASSUME TypeInv, SettledInv, OneDispatcher, NEW d \in Dispatchers, ProviderStep(d)
    PROVE  SettledInv'
<1>1. CASE Accept(d)
  BY <1>1, AcceptSettled
<1>2. CASE Reply(d)
  <2>1. /\ sent' = sent /\ unrecorded' = unrecorded /\ enr' = enr /\ loc' = loc
        /\ pc'[d] = "advance"
    BY <1>2, InHand DEF Reply, accepted, Goto, TypeInv, TypeOK
  <2>2. loc'[d].rows = loc[d].rows /\ loc'[d].cur \notin loc'[d].batch
    BY <2>1 DEF SettledInv, Current
  <2>3. \A e \in Enrollments : Holds(d, e)' => Holds(d, e)
    BY <2>1 DEF Holds
  <2>. QED  BY <2>1, <2>2, <2>3, HoldSettled
<1>3. CASE LoseReply(d)
  <2>. PICK cur : cur = loc[d].cur
    OBVIOUS
  <2>1. /\ cur \in Enrollments /\ sent' = sent /\ enr' = enr /\ Finish(d)
        /\ unrecorded' = [unrecorded EXCEPT ![cur] = @ + 1]
    BY <1>3, InHand DEF LoseReply, Turn
  <2>2. Releases(d)
    BY <2>1, FinishReleases
  <2>3. \A e \in Enrollments : unrecorded'[e] \in Nat /\ unrecorded'[e] >= unrecorded[e]
    BY <2>1 DEF TypeInv, TypeOK
  <2>4. \A e \in Enrollments : Pending(e) => unrecorded'[e] > unrecorded[e]
    <3>1. unrecorded'[cur] > unrecorded[cur]
      BY <2>1 DEF TypeInv, TypeOK
    <3>2. \A e \in Enrollments : Pending(e) => e = cur
      BY DEF Pending, OneDispatcher
    <3>. QED  BY <3>1, <3>2
  <2>5. \A e \in Enrollments :
        /\ enr'[e].step = enr[e].step
        /\ enr'[e].status = "absent" => enr[e].status = "absent"
        /\ enr'[e].status # "deleted" => enr[e].status # "deleted"
    BY <2>1
  <2>. QED  BY <2>1, <2>2, <2>3, <2>4, <2>5, ReleaseSettled
<1>4. CASE Refuse(d)
  <2>1. /\ sent' = sent /\ unrecorded' = unrecorded /\ enr' = enr
        /\ pc[d] = "sending"
    BY <1>4 DEF Refuse, Turn, accepted
  <2>2. CASE Finish(d)
    BY <2>1, <2>2, FinishReleases, QuietRelease
  <2>3. CASE UNCHANGED loc
    <3>1. loc'[d].rows = loc[d].rows /\ loc'[d].cur \notin loc'[d].batch
      BY <2>3 DEF SettledInv, Current
    <3>2. \A e \in Enrollments : Holds(d, e)' => Holds(d, e)
      BY <2>3 DEF Holds
    <3>. QED  BY <2>1, <3>1, <3>2, HoldSettled
  <2>. QED  BY <1>4, <2>2, <2>3 DEF Refuse
<1>. QED  BY <1>1, <1>2, <1>3, <1>4 DEF ProviderStep

\* Steps that leave the dispatchers where they are.
LEMMA DispatchersStay ==
    ASSUME TypeInv, SettledInv, sent' = sent, unrecorded' = unrecorded,
           \A e \in Enrollments :
              /\ enr'[e].step = enr[e].step
              /\ enr'[e].status = "absent" => enr[e].status = "absent"
              /\ enr'[e].status # "deleted" => enr[e].status # "deleted",
           \A d \in Dispatchers : pc'[d] = pc[d] /\ loc'[d] = loc[d]
    PROVE  SettledInv'
<1>1. \A d \in Dispatchers : Current(d)'
  <2>1. ASSUME NEW d \in Dispatchers PROVE Current(d)'
    BY CurrentKept DEF SettledInv
  <2>. QED  BY <2>1
<1>2. \A e \in Enrollments : \A d \in Dispatchers :
        Holds(d, e)' => Holds(d, e) \/ enr[e].status # "deleted"
  BY DEF Holds
<1>3. \A e \in Enrollments : Pending(e) => Pending(e)'
  BY DEF Pending
<1>4. \A e \in Enrollments : unrecorded'[e] \in Nat /\ unrecorded'[e] >= unrecorded[e]
  BY DEF TypeInv, TypeOK
<1>. QED  BY <1>1, <1>2, <1>3, <1>4, StepKeepsSettled

\* Requests change the step of no row; a new enrollment is at the first.
LEMMA RequestSettled ==
    ASSUME TypeInv, SettledInv, NEW c \in Clients, RequestStep(c)
    PROVE  SettledInv'
<1>1. sent' = sent /\ unrecorded' = unrecorded
  BY DEF RequestStep, CreateSequence, Enroll, UpdateEnrollment, SetStatus, ReplaceMessages,
         InsertMessages, DeleteEnrollments, DeleteMessages, DeleteSequence, accepted
<1>2. ASSUME NEW e \in Enrollments
      PROVE  /\ enr'[e].step = enr[e].step
             /\ enr'[e].status = "absent" => enr[e].status = "absent"
             /\ enr'[e].status # "deleted" => enr[e].status # "deleted"
  <2>1. enr[e] \in Rows
    BY DEF TypeInv, TypeOK
  <2>2. CASE Enroll(c)
    <3>1. PICK x \in Enrollments :
            /\ enr[x].status = "absent"
            /\ SetRow(x, [NoRow EXCEPT !.status = "active", !.dueIn = seq.messages[1]])
      BY <2>2 DEF Enroll
    <3>2. CASE e = x
      <4>1. enr'[e] = [NoRow EXCEPT !.status = "active", !.dueIn = seq.messages[1]]
        BY <3>1, <3>2 DEF SetRow, TypeInv, TypeOK
      <4>2. enr'[e].status = "active" /\ enr'[e].step = 0
        BY <4>1 DEF NoRow
      <4>. QED  BY <3>1, <3>2, <4>2 DEF SettledInv
    <3>3. CASE e # x
      BY <3>1, <3>3 DEF SetRow, TypeInv, TypeOK
    <3>. QED  BY <3>2, <3>3
  <2>3. CASE UpdateEnrollment(c)
    <3>1. PICK x \in Enrollments, status \in {"cancelled", "completed"} :
            /\ enr[x].status \notin {"absent", "deleted"}
            /\ SetRow(x, [enr[x] EXCEPT !.status = status])
      BY <2>3 DEF UpdateEnrollment
    <3>2. CASE e = x
      <4>1. enr'[e] = [enr[e] EXCEPT !.status = status]
        BY <3>1, <3>2 DEF SetRow, TypeInv, TypeOK
      <4>. QED  BY <2>1, <3>1, <3>2, <4>1 DEF Rows
    <3>3. CASE e # x
      BY <3>1, <3>3 DEF SetRow, TypeInv, TypeOK
    <3>. QED  BY <3>2, <3>3
  <2>4. CASE DeleteEnrollments(c)
    <3>1. enr'[e] = IF enr[e].status = "absent" THEN enr[e]
                    ELSE [enr[e] EXCEPT !.status = "deleted"]
      BY <2>4 DEF DeleteEnrollments
    <3>. QED  BY <2>1, <3>1 DEF Rows
  <2>5. CASE enr' = enr
    BY <2>5
  <2>. QED  BY <2>2, <2>3, <2>4, <2>5
            DEF RequestStep, CreateSequence, SetStatus, ReplaceMessages, InsertMessages,
                DeleteMessages, DeleteSequence
<1>3. ASSUME NEW d \in Dispatchers PROVE pc'[d] = pc[d] /\ loc'[d] = loc[d]
  <2>1. d # c /\ d \in Actors
    BY StepActorsAssumption DEF Actors
  <2>. QED  BY <2>1 DEF RequestStep, CreateSequence, Enroll, UpdateEnrollment, SetStatus,
         ReplaceMessages, InsertMessages, DeleteEnrollments, DeleteMessages,
         DeleteSequence, Finish, Goto, SetLocals, TypeInv, TypeOK
<1>. QED  BY <1>1, <1>2, <1>3, DispatchersStay

LEMMA TickSettled ==
    ASSUME TypeInv, SettledInv, Tick
    PROVE  SettledInv'
<1>1. sent' = sent /\ unrecorded' = unrecorded /\ pc' = pc /\ loc' = loc
  BY DEF Tick, accepted
<1>2. \A e \in Enrollments : enr'[e].step = enr[e].step /\ enr'[e].status = enr[e].status
  BY DEF Tick, TypeInv, TypeOK, Rows
<1>. QED  BY <1>1, <1>2, DispatchersStay

\* A crash loses the acceptance its dispatcher had in hand, and counts it.
LEMMA CrashSettled ==
    ASSUME TypeInv, SettledInv, OneDispatcher, NEW h \in Hosts, Crash(h)
    PROVE  SettledInv'
<1> DEFINE lost(e) == {d \in Dispatchers : /\ HostOf[d] = h /\ loc[d].cur = e
                                           /\ pc[d] \in {"accepted", "advance"}}
<1>1. /\ sent' = sent /\ enr' = enr
      /\ \A e \in Enrollments : unrecorded'[e] = unrecorded[e] + Cardinality(lost(e))
  BY DEF Crash
<1>2. ASSUME NEW e \in Enrollments
      PROVE  /\ Cardinality(lost(e)) \in Nat
             /\ lost(e) # {} => Cardinality(lost(e)) > 0
  <2>1. IsFiniteSet(lost(e))
    BY StepActorsAssumption, FS_Subset
  <2>2. Cardinality(lost(e)) \in Nat /\ (Cardinality(lost(e)) = 0 <=> lost(e) = {})
    BY <2>1, FS_CardinalityType, FS_EmptySet
  <2> HIDE DEF lost
  <2>. QED  BY <2>2
<1>3. ASSUME NEW e \in Enrollments
      PROVE  unrecorded'[e] \in Nat /\ unrecorded'[e] >= unrecorded[e]
  <2> HIDE DEF lost
  <2>1. unrecorded[e] \in Nat
    BY DEF TypeInv, TypeOK
  <2>. QED  BY <1>1, <1>2, <2>1
<1>4. ASSUME NEW d \in Dispatchers, HostOf[d] = h PROVE Releases(d)
  BY <1>4 DEF Crash, Releases, NoLocals, Actors
<1>5. ASSUME NEW d \in Dispatchers, HostOf[d] # h
      PROVE  pc'[d] = pc[d] /\ loc'[d] = loc[d]
  BY <1>5 DEF Crash, Actors
<1>6. CASE \E d \in Dispatchers : HostOf[d] = h
  <2>1. PICK d \in Dispatchers : HostOf[d] = h
    BY <1>6
  <2>2. ASSUME NEW e \in Enrollments, Pending(e) PROVE unrecorded'[e] > unrecorded[e]
    <3>1. d \in lost(e)
      BY <2>1, <2>2 DEF Pending, OneDispatcher
    <3>2. unrecorded[e] \in Nat
      BY DEF TypeInv, TypeOK
    <3> HIDE DEF lost
    <3>. QED  BY <1>1, <1>2, <3>1, <3>2
  <2>3. Releases(d)
    BY <1>4, <2>1
  <2>4. \A e \in Enrollments :
        /\ enr'[e].step = enr[e].step
        /\ enr'[e].status = "absent" => enr[e].status = "absent"
        /\ enr'[e].status # "deleted" => enr[e].status # "deleted"
    BY <1>1
  <2>. QED  BY <1>1, <1>3, <2>2, <2>3, <2>4, ReleaseSettled
<1>7. CASE ~\E d \in Dispatchers : HostOf[d] = h
  <2>1. \A e \in Enrollments : lost(e) = {}
    BY <1>7
  <2>2. unrecorded' = unrecorded
    <3>1. \A e \in Enrollments : Cardinality(lost(e)) = 0
      BY <2>1, FS_EmptySet
    <3>2. unrecorded' \in [Enrollments -> Nat] /\ unrecorded \in [Enrollments -> Nat]
      BY CrashTypes DEF TypeInv, TypeOK
    <3>3. \A e \in Enrollments : unrecorded'[e] = unrecorded[e]
      <4> HIDE DEF lost
      <4>. QED  BY <1>1, <3>1, <3>2
    <3>. QED  BY <3>2, <3>3
  <2>. QED  BY <1>1, <1>5, <1>7, <2>2, DispatchersStay
<1>. QED  BY <1>6, <1>7

LEMMA InitSettled == Init => SettledInv
<1> SUFFICES ASSUME Init PROVE SettledInv  OBVIOUS
<1>1. \A e \in Enrollments : \A i \in Steps : sent[e][i] = 0 /\ unrecorded[e] = 0
  BY DEF Init
<1>2. \A e \in Enrollments : Settled(e)
  BY <1>1 DEF Settled
<1>3. \A e \in Enrollments : enr[e].step = 0
  BY DEF Init, NoRow
<1>4. \A d \in Dispatchers : loc[d].cur = None /\ loc[d].batch = {}
  BY DEF Init, NoLocals, Actors
<1>5. \A d \in Dispatchers : Current(d)
  BY <1>4, StepActorsAssumption DEF Current, Holds
<1>. QED  BY <1>2, <1>3, <1>5 DEF SettledInv

LEMMA StepSettled ==
    ASSUME TypeInv, SettledInv, OneDispatcher, [Next]_vars
    PROVE  SettledInv'
<1>1. CASE UNCHANGED vars
  <2>1. UNCHANGED <<enr, sent, unrecorded, pc, loc>>
    BY <1>1 DEF vars
  <2>. QED  BY <2>1, DispatchersStay
<1>2. ASSUME NEW d \in Dispatchers, Scan(d) \/ Handle(d) \/ ProviderStep(d)
      PROVE  SettledInv'
  BY <1>2, ScanSettled, ReadSettled, WriteSettled, AdvanceSettled, ProviderSettled
     DEF Handle
<1>3. CASE \E c \in Clients : RequestStep(c)
  BY <1>3, RequestSettled
<1>4. CASE Tick
  BY <1>4, TickSettled
<1>5. CASE \E h \in Hosts : Crash(h)
  BY <1>5, CrashSettled
<1>. QED  BY <1>1, <1>2, <1>3, <1>4, <1>5 DEF Next

\* With one dispatcher a step is sent once, plus once for every acceptance that
\* nobody recorded: the tick reads a row once, sends its step and moves the row
\* on before it reads again, whatever requests do to the row meanwhile.
THEOREM StepsSentOnce == ASSUME OneDispatcher PROVE Spec => []SentOnce
<1>1. TypeInv /\ SettledInv => SentOnce
  BY DEF SettledInv, Settled, SentOnce
<1>2. TypeInv /\ SettledInv /\ [Next]_vars => (TypeInv /\ SettledInv)'
  BY StepTypes, StepSettled
<1>. QED  BY <1>1, <1>2, InitTypes, InitSettled, PTL DEF Spec

-----------------------------------------------------------------------------
(* LimitKept, and by how much several dispatchers miss it: each has counted   *)
(* before the others' deliveries were recorded.  What is counted and who is   *)
(* past the count never add up to more than Limit and the dispatchers that    *)
(* did not count last.                                                        *)

\* Past the count of deliveries, and not yet counted.
Ahead == {d \in Dispatchers : pc[d] \in {"messages", "sending", "accepted", "advance"}}

\* The dispatchers that may be ahead while another counts.
Rivals == IF Dispatchers = {} THEN 0 ELSE Cardinality(Dispatchers) - 1

RoomInv ==
    /\ IsFiniteSet(Recent)
    /\ Cardinality(Recent) + Cardinality(Ahead) <= Limit + Rivals

\* A step of a dispatcher moves no other.
LEMMA OthersWait ==
    ASSUME TypeInv, NEW d \in Dispatchers, Scan(d) \/ Handle(d) \/ ProviderStep(d),
           NEW b \in Dispatchers, b # d
    PROVE  pc'[b] = pc[b]
<1>1. b \in Actors
  BY DEF Actors
<1>2. pc' = pc \/ \E l : Goto(d, l)
  BY DEF Scan, Handle, LoadSequence, CountDeliveries, LoadMessages, Complete, AccountFails,
         BackOff, Advance, ProviderStep, Accept, Reply, LoseReply, Refuse, Continue, Finish
<1>. QED  BY <1>1, <1>2 DEF Goto, TypeInv, TypeOK

\* The statements that lead a dispatcher to its call, and how it comes to each:
\* by the statement before, which found what it asked for.
LEMMA StepToCall ==
    ASSUME TypeInv, NEW d \in Dispatchers, Scan(d) \/ Handle(d) \/ ProviderStep(d)
    PROVE  \/ pc'[d] \in {"idle", "batch", "complete", "backOff"}
           \/ pc'[d] = "count" /\ LoadSequence(d) /\ seq.backoffIn = 0
           \/ pc'[d] = "messages" /\ CountDeliveries(d) /\ ~RateLimited
           \/ pc'[d] = "sending" /\ LoadMessages(d)
           \/ pc'[d] = "accepted" /\ Accept(d)
           \/ pc'[d] = "advance" /\ Reply(d)
<1>1. d \in Actors /\ \A l : Goto(d, l) => pc'[d] = l
  BY DEF Actors, Goto, TypeInv, TypeOK
<1>2. Finish(d) => pc'[d] = "idle"
  BY <1>1 DEF Finish
<1>3. \A batch : Continue(d, batch) => pc'[d] \in {"idle", "batch"}
  BY <1>1, <1>2 DEF Continue
<1>4. CASE Scan(d)
  BY <1>1, <1>4 DEF Scan
<1>5. CASE LoadSequence(d)
  BY <1>1, <1>3, <1>5 DEF LoadSequence, Open
<1>6. CASE CountDeliveries(d)
  BY <1>1, <1>3, <1>6 DEF CountDeliveries
<1>7. CASE LoadMessages(d)
  BY <1>1, <1>7 DEF LoadMessages
<1>8. CASE Complete(d) \/ AccountFails(d) \/ BackOff(d) \/ Advance(d)
  BY <1>2, <1>3, <1>8 DEF Complete, AccountFails, BackOff, Advance
<1>9. CASE Accept(d)
  BY <1>1, <1>9 DEF Accept
<1>10. CASE Reply(d)
  BY <1>1, <1>10 DEF Reply
<1>11. CASE LoseReply(d) \/ Refuse(d)
  BY <1>1, <1>2, <1>11 DEF LoseReply, Refuse
<1>. QED  BY <1>4, <1>5, <1>6, <1>7, <1>8, <1>9, <1>10, <1>11 DEF Handle, ProviderStep

\* All other steps leave a dispatcher at its statement, or crash it.
LEMMA ElsewhereStay ==
    ASSUME TypeInv, NEW d \in Dispatchers,
           \/ UNCHANGED vars
           \/ \E c \in Clients : RequestStep(c)
           \/ Tick
           \/ \E h \in Hosts : Crash(h)
    PROVE  pc'[d] \in {pc[d], "idle"}
<1>1. d \in Actors
  BY DEF Actors
<1>2. CASE UNCHANGED vars \/ Tick
  BY <1>2 DEF vars, Tick
<1>3. ASSUME NEW c \in Clients, RequestStep(c) PROVE pc'[d] = pc[d]
  <2>1. d # c
    BY StepActorsAssumption
  <2>. QED  BY <1>1, <1>3, <2>1
            DEF RequestStep, CreateSequence, Enroll, UpdateEnrollment, SetStatus,
                ReplaceMessages, InsertMessages, DeleteEnrollments, DeleteMessages,
                DeleteSequence, Finish, Goto, TypeInv, TypeOK
<1>4. ASSUME NEW h \in Hosts, Crash(h) PROVE pc'[d] \in {pc[d], "idle"}
  BY <1>1, <1>4 DEF Crash
<1>. QED  BY <1>2, <1>3, <1>4

LEMMA RoomNumbers ==
    /\ IsFiniteSet(Ahead) /\ IsFiniteSet(Ahead') /\ Limit \in Nat /\ Rivals \in Nat
    /\ Cardinality(Ahead) \in Nat /\ Cardinality(Ahead') \in Nat
    /\ Dispatchers # {} => Cardinality(Dispatchers) = Rivals + 1
    /\ Cardinality(Ahead') <= Cardinality(Dispatchers)
<1>1. IsFiniteSet(Dispatchers) /\ Limit \in Nat
  BY StepActorsAssumption, StepBoundsAssumption
<1>2. Ahead \subseteq Dispatchers /\ Ahead' \subseteq Dispatchers
  BY DEF Ahead
<1>3. /\ IsFiniteSet(Ahead) /\ IsFiniteSet(Ahead')
      /\ Cardinality(Ahead') <= Cardinality(Dispatchers)
  BY <1>1, <1>2, FS_Subset
<1>4. /\ Cardinality(Ahead) \in Nat /\ Cardinality(Ahead') \in Nat
      /\ Cardinality(Dispatchers) \in Nat
  BY <1>1, <1>3, FS_CardinalityType
<1>5. Dispatchers # {} => Cardinality(Dispatchers) # 0
  BY <1>1, FS_EmptySet
<1>. QED  BY <1>1, <1>3, <1>4, <1>5 DEF Rivals

\* Deliveries are forgotten with time and with their enrollment; a dispatcher
\* joins those ahead only where it has found room.
LEMMA RoomKept ==
    ASSUME RoomInv, Recent' \subseteq Recent,
           Ahead' \subseteq Ahead \/ (~RateLimited /\ Dispatchers # {})
    PROVE  RoomInv'
<1>1. IsFiniteSet(Recent') /\ Cardinality(Recent') <= Cardinality(Recent)
  BY FS_Subset DEF RoomInv
<1>2. Cardinality(Recent) \in Nat /\ Cardinality(Recent') \in Nat
  BY <1>1, FS_CardinalityType DEF RoomInv
<1>3. Cardinality(Recent) + Cardinality(Ahead) <= Limit + Rivals
  BY DEF RoomInv
<1>4. Cardinality(Recent') + Cardinality(Ahead') <= Limit + Rivals
  <2>1. CASE Ahead' \subseteq Ahead
    <3>1. Cardinality(Ahead') <= Cardinality(Ahead)
      BY <2>1, RoomNumbers, FS_Subset
    <3>. QED  BY <1>1, <1>2, <1>3, <3>1, RoomNumbers
  <2>2. CASE ~RateLimited /\ Dispatchers # {}
    <3>1. Cardinality(Recent) < Limit
      BY <1>2, <2>2, RoomNumbers DEF RateLimited
    <3>2. Cardinality(Ahead') <= Rivals + 1
      BY <2>2, RoomNumbers
    <3>. QED  BY <1>1, <1>2, <3>1, <3>2, RoomNumbers
  <2>. QED  BY <2>1, <2>2
<1>5. Rivals' = Rivals
  BY DEF Rivals
<1>. QED  BY <1>1, <1>4, <1>5 DEF RoomInv

\* What the steps that do not advance a row do to the deliveries counted.
LEMMA RecentKept ==
    ASSUME TypeInv, [Next]_vars, ~\E d \in Dispatchers : Advance(d)
    PROVE  Recent' \subseteq Recent
<1> SUFFICES ASSUME NEW e \in Enrollments,
                    enr'[e].ago < Window, enr'[e].status # "deleted"
             PROVE  enr[e].ago < Window /\ enr[e].status # "deleted"
  BY DEF Recent
<1>1. enr[e] \in Rows
  BY DEF TypeInv, TypeOK
<1>2. CASE enr'[e] = enr[e]
  BY <1>2
<1>3. ASSUME NEW d \in Dispatchers, Complete(d) PROVE enr[e].ago < Window /\ enr[e].status # "deleted"
  <2>1. \/ enr'[e] = enr[e]
        \/ /\ enr[e].status # "deleted"
           /\ enr'[e] = [enr[e] EXCEPT !.status = "completed"]
    BY <1>3 DEF Complete, SetRow, Gone, TypeInv, TypeOK
  <2>2. [enr[e] EXCEPT !.status = "completed"].ago = enr[e].ago
    BY <1>1 DEF Rows
  <2>. QED  BY <2>1, <2>2
<1>4. ASSUME NEW c \in Clients, Enroll(c) PROVE enr[e].ago < Window /\ enr[e].status # "deleted"
  <2>1. PICK x \in Enrollments :
          SetRow(x, [NoRow EXCEPT !.status = "active", !.dueIn = seq.messages[1]])
    BY <1>4 DEF Enroll
  <2>2. e # x
    <3> SUFFICES ASSUME e = x PROVE FALSE
      OBVIOUS
    <3>1. enr'[e] = [NoRow EXCEPT !.status = "active", !.dueIn = seq.messages[1]]
      BY <2>1 DEF SetRow, TypeInv, TypeOK
    <3>2. enr'[e].ago = Window
      BY <3>1 DEF NoRow
    <3>. QED  BY <3>2, StepBoundsAssumption
  <2>. QED  BY <2>1, <2>2 DEF SetRow, TypeInv, TypeOK
<1>5. ASSUME NEW c \in Clients, UpdateEnrollment(c)
      PROVE  enr[e].ago < Window /\ enr[e].status # "deleted"
  <2>1. PICK x \in Enrollments, status \in {"cancelled", "completed"} :
          /\ enr[x].status \notin {"absent", "deleted"}
          /\ SetRow(x, [enr[x] EXCEPT !.status = status])
    BY <1>5 DEF UpdateEnrollment
  <2>2. CASE e = x
    <3>1. enr'[e] = [enr[e] EXCEPT !.status = status]
      BY <2>1, <2>2 DEF SetRow, TypeInv, TypeOK
    <3>. QED  BY <1>1, <2>1, <2>2, <3>1 DEF Rows
  <2>3. CASE e # x
    BY <2>1, <2>3 DEF SetRow, TypeInv, TypeOK
  <2>. QED  BY <2>2, <2>3
<1>6. ASSUME NEW c \in Clients, DeleteEnrollments(c)
      PROVE  enr[e].ago < Window /\ enr[e].status # "deleted"
  <2>1. enr'[e] = IF enr[e].status = "absent" THEN enr[e]
                  ELSE [enr[e] EXCEPT !.status = "deleted"]
    BY <1>6 DEF DeleteEnrollments
  <2>. QED  BY <1>1, <2>1 DEF Rows
<1>7. CASE Tick
  <2>1. enr'[e] = [enr[e] EXCEPT !.dueIn = Less(@, -Jitter),
                                 !.ago = IF @ < Window THEN @ + 1 ELSE @]
    BY <1>7 DEF Tick
  <2>2. /\ enr'[e].ago = IF enr[e].ago < Window THEN enr[e].ago + 1 ELSE enr[e].ago
        /\ enr'[e].status = enr[e].status
    BY <1>1, <2>1 DEF Rows
  <2>. QED  BY <2>2
<1>8. CASE UNCHANGED vars
  BY <1>2, <1>8 DEF vars
<1>9. ASSUME NEW d \in Dispatchers, Scan(d) \/ Handle(d) \/ ProviderStep(d), ~Complete(d)
      PROVE  enr' = enr
  BY <1>9 DEF Scan, Handle, LoadSequence, CountDeliveries, LoadMessages, AccountFails,
              BackOff, ProviderStep, Accept, Reply, LoseReply, Refuse
<1>10. ASSUME NEW c \in Clients, RequestStep(c), ~Enroll(c), ~UpdateEnrollment(c),
              ~DeleteEnrollments(c)
       PROVE  enr' = enr
  BY <1>10 DEF RequestStep, CreateSequence, SetStatus, ReplaceMessages, InsertMessages,
               DeleteMessages, DeleteSequence
<1>11. ASSUME NEW h \in Hosts, Crash(h) PROVE enr' = enr
  BY <1>11 DEF Crash
<1>. QED  BY <1>2, <1>3, <1>4, <1>5, <1>6, <1>7, <1>8, <1>9, <1>10, <1>11 DEF Next

\* A dispatcher that advances a row adds at most one to the deliveries, and is
\* no longer ahead of them.
LEMMA AdvanceRoom ==
    ASSUME TypeInv, RoomInv, NEW d \in Dispatchers, Advance(d)
    PROVE  RoomInv'
<1>1. pc[d] = "advance" /\ pc'[d] \in {"idle", "batch"}
  <2>1. d \in Actors
    BY DEF Actors
  <2>. QED  BY <2>1 DEF Advance, Turn, Continue, Finish, Goto, TypeInv, TypeOK
<1>2. d \in Ahead /\ Ahead' \subseteq Ahead \ {d}
  <2>1. \A b \in Dispatchers \ {d} : pc'[b] = pc[b]
    BY OthersWait DEF Handle
  <2>. QED  BY <1>1, <2>1 DEF Ahead
<1>3. Recent' \subseteq Recent \cup {loc[d].cur}
  <2>1. ASSUME NEW e \in Enrollments, e # loc[d].cur PROVE enr'[e] = enr[e]
    BY <2>1 DEF Advance, SetRow, TypeInv, TypeOK
  <2>. QED  BY <2>1 DEF Recent
<1>4. IsFiniteSet(Recent) /\ Cardinality(Recent) + Cardinality(Ahead) <= Limit + Rivals
  BY DEF RoomInv
<1>5. /\ IsFiniteSet(Recent \cup {loc[d].cur})
      /\ \/ Cardinality(Recent \cup {loc[d].cur}) = Cardinality(Recent)
         \/ Cardinality(Recent \cup {loc[d].cur}) = Cardinality(Recent) + 1
  BY <1>4, FS_AddElement
<1>6. /\ IsFiniteSet(Recent')
      /\ Cardinality(Recent') <= Cardinality(Recent \cup {loc[d].cur})
  BY <1>3, <1>5, FS_Subset
<1>7. Cardinality(Recent) \in Nat /\ Cardinality(Recent') \in Nat
  BY <1>4, <1>6, FS_CardinalityType
<1>8. Cardinality(Ahead') <= Cardinality(Ahead) - 1
  <2>1. IsFiniteSet(Ahead \ {d}) /\ Cardinality(Ahead \ {d}) = Cardinality(Ahead) - 1
    BY <1>2, RoomNumbers, FS_RemoveElement
  <2>2. Cardinality(Ahead') <= Cardinality(Ahead \ {d})
    BY <1>2, <2>1, FS_Subset
  <2>. QED  BY <2>1, <2>2
<1>9. Cardinality(Recent') + Cardinality(Ahead') <= Limit + Rivals
  BY <1>4, <1>5, <1>6, <1>7, <1>8, RoomNumbers
<1>10. Rivals' = Rivals
  BY DEF Rivals
<1>. QED  BY <1>6, <1>9, <1>10 DEF RoomInv

LEMMA StepRoom ==
    ASSUME TypeInv, RoomInv, [Next]_vars
    PROVE  RoomInv'
<1>1. CASE \E d \in Dispatchers : Advance(d)
  BY <1>1, AdvanceRoom
<1>2. CASE ~\E d \in Dispatchers : Advance(d)
  <2>1. Recent' \subseteq Recent
    BY <1>2, RecentKept
  <2>2. ASSUME NEW d \in Dispatchers, Scan(d) \/ Handle(d) \/ ProviderStep(d)
        PROVE  Ahead' \subseteq Ahead \/ (~RateLimited /\ Dispatchers # {})
    <3>1. \A b \in Dispatchers \ {d} : pc'[b] = pc[b]
      BY <2>2, OthersWait
    <3>2. \/ pc'[d] \notin {"messages", "sending", "accepted", "advance"}
          \/ ~RateLimited
          \/ LoadMessages(d) \/ Accept(d) \/ Reply(d)
      BY <2>2, StepToCall
    <3>3. \/ pc'[d] \notin {"messages", "sending", "accepted", "advance"}
          \/ ~RateLimited
          \/ pc[d] \in {"messages", "sending", "accepted", "advance"}
      BY <3>2 DEF LoadMessages, Accept, Reply, Turn
    <3>. QED  BY <3>1, <3>3 DEF Ahead
  <2>3. CASE ~\E d \in Dispatchers : Scan(d) \/ Handle(d) \/ ProviderStep(d)
    <3>1. \A d \in Dispatchers : pc'[d] \in {pc[d], "idle"}
      BY <2>3, ElsewhereStay DEF Next
    <3>2. Ahead' \subseteq Ahead
      BY <3>1 DEF Ahead
    <3>. QED  BY <2>1, <3>2, RoomKept
  <2>. QED  BY <2>1, <2>2, <2>3, RoomKept
<1>. QED  BY <1>1, <1>2

LEMMA InitRoom == Init => RoomInv
<1> SUFFICES ASSUME Init PROVE RoomInv  OBVIOUS
<1>1. Recent = {}
  BY StepBoundsAssumption DEF Init, NoRow, Recent
<1>2. Ahead = {}
  BY DEF Init, Actors, Ahead
<1>3. IsFiniteSet({}) /\ Cardinality({}) = 0
  BY FS_EmptySet
<1>. QED  BY <1>1, <1>2, <1>3, RoomNumbers DEF RoomInv

\* Who is delivering is ahead of the count.
LEMMA DeliveriesCounted ==
    ASSUME RoomInv
    PROVE  /\ Cardinality(Recent \cup Delivering) \in Nat
           /\ Cardinality(Recent \cup Delivering) <= Limit + Rivals
<1> DEFINE callers == {b \in Dispatchers : pc[b] \in {"accepted", "advance"}}
           f == [d \in callers |-> loc[d].cur]
<1>1. callers \subseteq Ahead
  BY DEF Ahead
<1>2. IsFiniteSet(callers) /\ Cardinality(callers) <= Cardinality(Ahead)
  BY <1>1, RoomNumbers, FS_Subset
<1>3. f \in Surjection(callers, Delivering)
  BY DEF Surjection, Delivering
<1>4. IsFiniteSet(Delivering) /\ Cardinality(Delivering) <= Cardinality(callers)
  BY <1>2, <1>3, FS_Surjection
<1>5. IsFiniteSet(Recent) /\ Cardinality(Recent) + Cardinality(Ahead) <= Limit + Rivals
  BY DEF RoomInv
<1>6. /\ IsFiniteSet(Recent \cup Delivering)
      /\ Cardinality(Recent \cup Delivering)
           = Cardinality(Recent) + Cardinality(Delivering) - Cardinality(Recent \cap Delivering)
  BY <1>4, <1>5, FS_Union
<1>7. Cardinality(Recent \cap Delivering) \in Nat
  BY <1>5, FS_Intersection, FS_CardinalityType
<1>8. /\ Cardinality(Recent) \in Nat /\ Cardinality(Delivering) \in Nat
      /\ Cardinality(callers) \in Nat /\ Cardinality(Recent \cup Delivering) \in Nat
  BY <1>2, <1>4, <1>5, <1>6, FS_CardinalityType
<1>. QED  BY <1>2, <1>4, <1>5, <1>6, <1>7, <1>8, RoomNumbers

\* However many dispatchers share the account, the deliveries recorded within
\* Window and those about to be pass Limit by fewer than there are dispatchers:
\* each is counted before its dispatcher looks for room again, though its batch
\* was read before the first.  Deliveries no row records are not counted.
OvershootBounded ==
    Dispatchers # {} =>
       Cardinality(Recent \cup Delivering) < Limit + Cardinality(Dispatchers)

\* That holds for any number of processes, crashes, lost answers and requests.
THEOREM OvershootLimited == Spec => []OvershootBounded
<1>1. RoomInv => OvershootBounded
  BY DeliveriesCounted, RoomNumbers DEF OvershootBounded
<1>2. TypeInv /\ RoomInv /\ [Next]_vars => (TypeInv /\ RoomInv)'
  BY StepTypes, StepRoom
<1>. QED  BY <1>1, <1>2, InitTypes, InitRoom, PTL DEF Spec

\* With one dispatcher the deliveries recorded within Window and the one about to
\* be are at most Limit; deliveries no row records are not counted.
THEOREM DeliveriesLimited == ASSUME OneDispatcher PROVE Spec => []LimitKept
<1>1. RoomInv => LimitKept
  <2>. SUFFICES ASSUME RoomInv
                PROVE  Cardinality(Recent \cup Delivering) <= Limit
    BY DEF LimitKept
  <2>1. Rivals = 0
    <3>1. CASE Dispatchers = {}
      BY <3>1 DEF Rivals
    <3>2. CASE Dispatchers # {}
      <4>1. PICK d \in Dispatchers : TRUE
        BY <3>2
      <4>2. Dispatchers = {d}
        BY <4>1 DEF OneDispatcher
      <4>3. Cardinality({d}) = 1
        BY FS_Singleton
      <4>. QED  BY <3>2, <4>2, <4>3, RoomNumbers
    <3>. QED  BY <3>1, <3>2
  <2>. QED  BY <2>1, DeliveriesCounted, RoomNumbers
<1>2. TypeInv /\ RoomInv /\ [Next]_vars => (TypeInv /\ RoomInv)'
  BY StepTypes, StepRoom
<1>. QED  BY <1>1, <1>2, InitTypes, InitRoom, PTL DEF Spec

-----------------------------------------------------------------------------
(* BackoffKept, with the dispatchers in one process: between the look at the  *)
(* backoff and the call nothing yields there, so no other dispatcher backs    *)
(* off.  The cron process does not know what the API process does.            *)

OneProcess == \A d, b \in Dispatchers : HostOf[d] = HostOf[b]

BackoffInv ==
    \A d \in Dispatchers : pc[d] \in {"count", "messages"} => seq.backoffIn = 0

\* Only a refused dispatcher sets the backoff, and time takes from it.
LEMMA BackoffStays ==
    ASSUME TypeInv, BackoffInv, OneProcess, [Next]_vars,
           NEW d \in Dispatchers, pc[d] \in {"count", "messages"}
    PROVE  seq'.backoffIn = 0
<1>1. seq.backoffIn = 0 /\ seq \in SequenceRows /\ d \in Actors
  BY DEF BackoffInv, TypeInv, TypeOK, Actors
<1>2. CASE \E b \in Dispatchers : BackOff(b)
  <2>1. PICK b \in Dispatchers : BackOff(b)
    BY <1>2
  <2>2. pc[b] = "backOff" /\ HostOf[d] = HostOf[b] /\ d # b
    BY <2>1 DEF BackOff, Turn, OneProcess
  <2>3. pc[d] \in Yielding
    BY <1>1, <2>1, <2>2 DEF BackOff, Turn
  <2>. QED  BY <2>3 DEF Yielding
<1>3. CASE Tick
  BY <1>3 DEF Tick
<1>4. ASSUME NEW b \in Dispatchers, Scan(b) \/ Handle(b) \/ ProviderStep(b), ~BackOff(b)
      PROVE  seq' = seq
  BY <1>4 DEF Scan, Handle, LoadSequence, CountDeliveries, LoadMessages, Complete,
              AccountFails, Advance, ProviderStep, Accept, Reply, LoseReply, Refuse
<1>5. ASSUME NEW c \in Clients, RequestStep(c)
      PROVE  seq'.backoffIn = seq.backoffIn
  <2>1. \/ seq' = seq
        \/ \E status : seq' = [seq EXCEPT !.status = status]
        \/ \E list : seq' = [seq EXCEPT !.messages = list]
    BY <1>5 DEF RequestStep, CreateSequence, Enroll, UpdateEnrollment, SetStatus,
                ReplaceMessages, InsertMessages, DeleteEnrollments, DeleteMessages,
                DeleteSequence
  <2>. QED  BY <1>1, <2>1 DEF SequenceRows
<1>6. ASSUME UNCHANGED vars \/ \E h \in Hosts : Crash(h) PROVE seq' = seq
  BY <1>6 DEF vars, Crash
<1>. QED  BY <1>1, <1>2, <1>3, <1>4, <1>5, <1>6 DEF Next

\* A dispatcher that comes to look for room has just seen no backoff.
LEMMA StepBackoff ==
    ASSUME TypeInv, BackoffInv, OneProcess, [Next]_vars
    PROVE  BackoffInv'
<1> SUFFICES ASSUME NEW d \in Dispatchers, pc'[d] \in {"count", "messages"}
             PROVE  seq'.backoffIn = 0
  BY DEF BackoffInv
<1>1. CASE pc[d] \in {"count", "messages"}
  BY <1>1, BackoffStays
<1>2. CASE pc[d] \notin {"count", "messages"}
  <2>1. \E b \in Dispatchers : Scan(b) \/ Handle(b) \/ ProviderStep(b)
    <3> SUFFICES ASSUME ~\E b \in Dispatchers : Scan(b) \/ Handle(b) \/ ProviderStep(b)
                 PROVE  FALSE
      OBVIOUS
    <3>1. pc'[d] \in {pc[d], "idle"}
      BY ElsewhereStay DEF Next
    <3>. QED  BY <1>2, <3>1
  <2>2. PICK b \in Dispatchers : Scan(b) \/ Handle(b) \/ ProviderStep(b)
    BY <2>1
  <2>3. b = d
    BY <1>2, <2>2, OthersWait
  <2>4. \/ LoadSequence(d) /\ seq.backoffIn = 0
        \/ CountDeliveries(d)
    BY <2>2, <2>3, StepToCall
  <2>. QED  BY <1>2, <2>4 DEF LoadSequence, CountDeliveries, Turn
<1>. QED  BY <1>1, <1>2

LEMMA CallsAfterBackoff ==
    ASSUME TypeInv, BackoffInv, [Next]_vars,
           NEW d \in Dispatchers, pc[d] # "sending", pc'[d] = "sending"
    PROVE  seq.backoffIn = 0
<1>1. \E b \in Dispatchers : Scan(b) \/ Handle(b) \/ ProviderStep(b)
  <2> SUFFICES ASSUME ~\E b \in Dispatchers : Scan(b) \/ Handle(b) \/ ProviderStep(b)
               PROVE  FALSE
    OBVIOUS
  <2>1. pc'[d] \in {pc[d], "idle"}
    BY ElsewhereStay DEF Next
  <2>. QED  BY <2>1
<1>2. PICK b \in Dispatchers : Scan(b) \/ Handle(b) \/ ProviderStep(b)
  BY <1>1
<1>3. b = d
  BY <1>2, OthersWait
<1>4. LoadMessages(d)
  BY <1>2, <1>3, StepToCall
<1>. QED  BY <1>4 DEF LoadMessages, Turn, BackoffInv

\* After the platform asked for a pause the dispatchers of one process start no
\* call until it is over, in whatever order they take their turns.
THEOREM BackoffRespected == ASSUME OneProcess PROVE Spec => BackoffKept
<1> DEFINE I == TypeInv /\ BackoffInv
           Kept == \A d \in Dispatchers : pc[d] # "sending" /\ pc'[d] = "sending" =>
                                            seq.backoffIn = 0
<1>1. Init => I
  BY InitTypes DEF Init, BackoffInv, Actors
<1>2. I /\ [Next]_vars => I'
  BY StepTypes, StepBackoff
<1>3. I /\ [Next]_vars => [Kept]_vars
  <2> SUFFICES ASSUME I, [Next]_vars PROVE Kept
    OBVIOUS
  <2>. QED  BY CallsAfterBackoff
<1> HIDE DEF I
<1>. QED  BY <1>1, <1>2, <1>3, PTL DEF Spec, BackoffKept

-----------------------------------------------------------------------------
(* CompletedIsSent follows from the order: Advance completes a row when the   *)
(* messages that were read have no step after the one just sent.              *)

\* The steps of a list before one it has.
LEMMA LastStep ==
    ASSUME NEW list \in Lists, NEW n \in Nat, HasStep(list, n), ~HasStep(list, n + 1),
           NEW i \in Steps, HasStep(list, i)
    PROVE  i <= n
<1>1. list \in Seq(Nat)
  BY StepBoundsAssumption DEF Lists, HasStep
<1>2. i \in Nat /\ Len(list) \in Nat
  BY <1>1, StepBoundsAssumption DEF Steps
<1>3. n + 1 <= Len(list) /\ ~(n + 2 <= Len(list)) /\ i + 1 <= Len(list)
  BY <1>1, <1>2 DEF HasStep
<1>. QED  BY <1>2, <1>3

LEMMA CompletesSent ==
    ASSUME TypeInv, OrderInv, [Next]_vars, NEW d \in Dispatchers,
           pc[d] = "advance", pc'[d] # "advance",
           enr[loc[d].cur].status # "completed", enr'[loc[d].cur].status = "completed",
           NEW i \in Steps, HasStep(loc[d].list, i)
    PROVE  sent[loc[d].cur][i] > 0
<1>. PICK cur, n : cur = loc[d].cur /\ n = Row(d).step
  OBVIOUS
<1>1. /\ cur \in Enrollments /\ n \in Steps /\ n \in Nat /\ loc[d].list \in Lists
      /\ HasStep(loc[d].list, n)
  BY InHand DEF Handling
<1>2. Advance(d)
  <2>1. CASE \E b \in Dispatchers : Scan(b) \/ Handle(b) \/ ProviderStep(b)
    <3>1. Scan(d) \/ Handle(d) \/ ProviderStep(d)
      BY <2>1, OthersWait
    <3>. QED  BY <3>1 DEF Scan, Handle, LoadSequence, CountDeliveries, LoadMessages,
                  Complete, AccountFails, BackOff, ProviderStep, Accept, Reply, LoseReply,
                  Refuse, Turn
  <2>2. CASE ~\E b \in Dispatchers : Scan(b) \/ Handle(b) \/ ProviderStep(b)
    <3>1. ASSUME NEW c \in Clients, RequestStep(c) PROVE pc'[d] = pc[d]
      <4>1. d # c /\ d \in Actors
        BY StepActorsAssumption DEF Actors
      <4>. QED  BY <3>1, <4>1
                DEF RequestStep, CreateSequence, Enroll, UpdateEnrollment, SetStatus,
                    ReplaceMessages, InsertMessages, DeleteEnrollments, DeleteMessages,
                    DeleteSequence, Finish, Goto, TypeInv, TypeOK
    <3>2. CASE Tick \/ UNCHANGED vars
      BY <3>2 DEF Tick, vars
    <3>3. ASSUME NEW h \in Hosts, Crash(h) PROVE enr' = enr
      BY <3>3 DEF Crash
    <3>. QED  BY <2>2, <3>1, <3>2, <3>3 DEF Next
  <2>. QED  BY <2>1, <2>2
<1>3. enr'[cur] = Advanced(d)
  BY <1>1, <1>2 DEF Advance, SetRow, TypeInv, TypeOK
<1>4. ~HasStep(loc[d].list, n + 1)
  <2>1. enr[cur] \in Rows
    BY <1>1 DEF TypeInv, TypeOK
  <2>2. HasStep(loc[d].list, n + 1) => Advanced(d).status = enr[cur].status
    BY <2>1 DEF Advanced, Rows
  <2>. QED  BY <1>3, <2>2
<1>5. i <= n /\ i \in Nat
  BY <1>1, <1>4, LastStep, StepBoundsAssumption DEF Steps
<1>6. sent[cur][n] > 0
  BY DEF OrderInv, CallsDelivered
<1>7. CASE i = n
  BY <1>6, <1>7
<1>8. CASE i < n
  BY <1>1, <1>6, <1>8 DEF OrderInv, InOrder
<1>. QED  BY <1>1, <1>5, <1>7, <1>8

\* An enrollment is completed after its last step only if every step of the
\* messages read for it was sent, with any number of dispatchers, processes,
\* crashes and replaced messages.
THEOREM CompletionsSent == Spec => CompletedIsSent
<1> DEFINE I == TypeInv /\ OrderInv
           Sent == \A d \in Dispatchers :
                     LET e == loc[d].cur IN
                     /\ pc[d] = "advance" /\ pc'[d] # "advance"
                     /\ enr[e].status # "completed" /\ enr'[e].status = "completed"
                     => \A i \in Steps : HasStep(loc[d].list, i) => sent[e][i] > 0
<1>1. Init => I
  BY InitTypes, InitOrder
<1>2. I /\ [Next]_vars => I'
  BY StepTypes, StepOrder
<1>3. I /\ [Next]_vars => [Sent]_vars
  <2> SUFFICES ASSUME I, [Next]_vars PROVE Sent
    OBVIOUS
  <2>. QED  BY CompletesSent
<1> HIDE DEF I
<1>. QED  BY <1>1, <1>2, <1>3, PTL DEF Spec, CompletedIsSent
=============================================================================
