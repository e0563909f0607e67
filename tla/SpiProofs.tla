----------------------------- MODULE SpiProofs -----------------------------
(***************************************************************************)
(* The backlog of answers is bounded for FIFOs of every depth, for every    *)
(* mix and size of transfers, with or without a service routine that sends. *)
(* The invariant that is inductive adds the shape of each call: polled at   *)
(* step 1, written at step 2, in debt from step 3 on until RXFIFO is read.  *)
(* The second part bounds the age of an answer in the same way: there the   *)
(* frames in the FIFOs and on the wire are in the order they were written.  *)
(***************************************************************************)
EXTENDS Spi, FiniteSetTheorems, SequenceTheorems, TLAPS

Busy  == Ops \ {"idle"}
Calls == [op : Ops, step : 1 .. 4, index : Nat, size : Nat, arrived : Int, raced : BOOLEAN]

FifosOK == tx \in Seq(Nat) /\ rx \in Seq(Nat) /\ shift \in Nat /\ sent \in Nat
FitsOK  == Len(tx) <= TxDepth /\ Len(rx) <= RxDepth

CallOK(c) ==
    /\ c \in Calls
    /\ c.op # "idle" => c.step <= Len(Turn(c.op))

CallsOK == call \in [Actors -> Calls] /\ \A a \in Actors : CallOK(call[a])
IsrOK   == ~IsrSends => call["isr"].op = "idle"

IInv == FifosOK /\ FitsOK /\ CallsOK /\ IsrOK /\ BacklogBounded /\ AnswersWouldFit

-----------------------------------------------------------------------------
\* Every turn is poll, write, and then the reads of RXFIFO (spi.h:290-400).
LEMMA TurnShape ==
    ASSUME NEW op \in Busy
    PROVE  /\ Len(Turn(op)) \in {3, 4}
           /\ Turn(op)[1] = "poll" /\ Turn(op)[2] = "push"
           /\ Turn(op)[3] \in {"drain", "read"}
           /\ Len(Turn(op)) = 4 => Turn(op)[3] = "drain" /\ Turn(op)[4] = "read"
BY DEF Busy, Ops, Turn, spi_transmit, spi_send, spi_send_multiple, spi_receive, spi_receive_multiple

\* A call is in debt exactly from its third step on.
LEMMA DebtFromStepThree ==
    ASSUME NEW c, CallOK(c)
    PROVE  Owes(c) <=> c.op # "idle" /\ c.step >= 3
<1>1. CASE c.op = "idle" BY <1>1 DEF Owes
<1>2. CASE c.op # "idle"
  <2>1. c.op \in Busy /\ c.step \in 1 .. 4 /\ c.step <= Len(Turn(c.op))
    BY <1>2 DEF CallOK, Calls, Busy
  <2>2. Turn(c.op)[c.step] = "drain" => c.step = 3
    BY <2>1, TurnShape
  <2>3. c.step = Len(Turn(c.op)) => c.step >= 3
    BY <2>1, TurnShape
  <2>4. c.step >= 3 => \/ c.step = Len(Turn(c.op))
                             \/ Turn(c.op)[c.step] = "drain"
    <3> DEFINE turn == Turn(c.op)  s == c.step  n == Len(turn)
    <3>1. Len(turn) \in {3, 4} BY <2>1, TurnShape
    <3>4. s \in 1 .. 4 /\ s <= n BY <2>1
    <3>2. Len(turn) = 4 => turn[3] = "drain" BY <2>1, TurnShape
    <3>3. s = 3 \/ s = 4 \/ ~(s >= 3)
      <4> HIDE DEF s
      <4> QED BY <3>4
    <3>5. n = 3 \/ n = 4 BY <3>1
    <3>6. s = 4 => n = 4
      <4> HIDE DEF s, n
      <4> QED BY <3>4, <3>5
    <3> QED BY <3>2, <3>3, <3>5, <3>6
  <2> QED BY <1>2, <2>1, <2>2, <2>3, <2>4 DEF Owes
<1> QED BY <1>1, <1>2

\* The index stays a number, and a 16-bit one below the values of its type.
LEMMA NextIndexType ==
    ASSUME NEW c \in Calls
    PROVE  NextIndex(c) \in Nat /\ (CountsIn16Bits(c.op) => NextIndex(c) < IndexValues)
<1> DEFINE i == c.index
<1>1. i \in Nat BY DEF Calls
<1>2. i + 1 \in Nat /\ IndexValues \in Nat /\ IndexValues > 0 BY <1>1, IndexAssumption
<1>3. (i + 1) % IndexValues \in Nat /\ (i + 1) % IndexValues < IndexValues
  <2> DEFINE j == i + 1
  <2> HIDE DEF j
  <2> QED BY <1>2
<1> QED BY <1>2, <1>3 DEF NextIndex

\* What follows a step of a call is a call, at the next step of the turn or
\* before the first.
LEMMA AfterShape ==
    ASSUME NEW c, CallOK(c), c.op # "idle"
    PROVE  /\ CallOK(After(c))
           /\ c.step < Len(Turn(c.op)) =>
                /\ After(c).op = c.op /\ After(c).step = c.step + 1 /\ After(c).arrived = c.arrived
           /\ ~(c.step < Len(Turn(c.op))) => After(c).op = "idle" \/ After(c).step = 1
<1>0. c \in Calls BY DEF CallOK
<1>1. c \in Calls /\ c.op \in Busy /\ c.step <= Len(Turn(c.op)) /\ Len(Turn(c.op)) \in {3, 4}
  BY TurnShape DEF CallOK, Calls, Busy
<1> DEFINE n == Len(Turn(c.op))
<1>2. n \in {3, 4} /\ c.step \in 1 .. n BY <1>1 DEF Calls
<1>3. CASE c.step < n
  <2>1. After(c) = [c EXCEPT !.step = @ + 1] BY <1>3 DEF After
  <2>2. /\ After(c) \in Calls /\ After(c).op = c.op /\ After(c).step = c.step + 1
        /\ After(c).arrived = c.arrived
    <3> HIDE DEF n
    <3> QED BY <1>1, <1>2, <1>3, <2>1 DEF Calls
  <2> QED BY <1>2, <1>3, <2>2 DEF CallOK
<1>4. CASE ~(c.step < n)
  <2>0. c.step = Len(Turn(c.op)) /\ ~(c.step < Len(Turn(c.op)))
    <3>1. c.step = n
      <4> HIDE DEF n
      <4> QED BY <1>2, <1>4
    <3> QED BY <3>1, <1>4
  <2>1. CASE NextIndex(c) < c.size
    <3>1. After(c) = [c EXCEPT !.step = 1, !.index = NextIndex(c)] BY <2>0, <2>1 DEF After
    <3>3. NextIndex(c) \in Nat BY <1>0, NextIndexType
    <3>2. After(c) \in Calls /\ After(c).op = c.op /\ After(c).step = 1
      <4> DEFINE d == [c EXCEPT !.step = 1]  k == NextIndex(c)
      <4>1. d \in Calls /\ d.op = c.op /\ d.step = 1 BY <1>0 DEF Calls
      <4>2. After(c) = [d EXCEPT !.index = k] BY <3>1
      <4>3. k \in Nat BY <3>3
      <4> HIDE DEF d, k
      <4> QED BY <4>1, <4>2, <4>3 DEF Calls
    <3> QED BY <1>1, <1>2, <2>0, <3>2 DEF CallOK
  <2>2. CASE ~(NextIndex(c) < c.size)
    <3>1. After(c) = NoCall BY <2>0, <2>2 DEF After
    <3> QED BY <2>0, <3>1 DEF CallOK, Calls, NoCall, Ops
  <2> QED BY <2>1, <2>2
<1> QED BY <1>3, <1>4

\* Where a call is when it makes each kind of access.
LEMMA AtShape ==
    ASSUME NEW a \in Actors, NEW s, CallsOK, At(a, s)
    PROVE  /\ CallOK(call[a]) /\ call[a].op # "idle"
           /\ s = "poll" => call[a].step = 1
           /\ s = "push" => call[a].step = 2
           /\ s = "drain" => call[a].step = 3
           /\ s = "read" => call[a].step >= 3 /\ ~(call[a].step < Len(Turn(call[a].op)))
<1> DEFINE op == call[a].op  n == Len(Turn(op))  k == call[a].step
<1>1. CallOK(call[a]) /\ op # "idle" /\ Turn(op)[k] = s BY DEF CallsOK, At
<1>2. op \in Busy /\ k \in 1 .. 4 /\ k <= n BY <1>1 DEF CallOK, Calls, Busy
<1>3. n \in {3, 4} BY <1>2, TurnShape
<1>4. k = 1 \/ k = 2 \/ k = 3 \/ (k = 4 /\ n = 4)
  <2> HIDE DEF k, n
  <2> QED BY <1>2, <1>3
<1>5. /\ Turn(op)[1] = "poll" /\ Turn(op)[2] = "push"
      /\ Turn(op)[3] \in {"drain", "read"}
      /\ n = 4 => Turn(op)[3] = "drain" /\ Turn(op)[4] = "read"
  BY <1>2, TurnShape
<1>6. k = 3 /\ n = 3 => ~(k < n)
  <2> HIDE DEF k, n
  <2> QED OBVIOUS
<1>7. k = 4 /\ n = 4 => ~(k < n) /\ k >= 3
  <2> HIDE DEF k, n
  <2> QED OBVIOUS
<1> QED BY <1>1, <1>3, <1>4, <1>5, <1>6, <1>7

\* A FIFO loses one element from its front at a time.
LEMMA Front ==
    ASSUME NEW q \in Seq(Nat), q # <<>>
    PROVE  /\ Head(q) \in Nat /\ Tail(q) \in Seq(Nat)
           /\ Len(q) \in Nat /\ Len(Tail(q)) = Len(q) - 1
BY HeadTailProperties, LenProperties

\* Two actors owe at most two answers.
LEMMA DebtsType == Debts \in 0 .. 2 /\ Debts' \in 0 .. 2
BY DEF Debts, Debt

\* Only the debt of the call that moves changes.
LEMMA DebtMoves ==
    ASSUME NEW a \in Actors,
           \A b \in Actors \ {a} : call'[b].op = call[b].op /\ call'[b].step = call[b].step
    PROVE  Debts' = Debts + Debt(a)' - Debt(a)
<1>1. \A b \in Actors \ {a} : Debt(b)' = Debt(b) BY DEF Debt, Owes
<1>2. Debt("main") \in {0, 1} /\ Debt("isr") \in {0, 1} BY DEF Debt
<1>3. Debt("main")' \in {0, 1} /\ Debt("isr")' \in {0, 1} BY DEF Debt
<1>4. CASE a = "main"
  <2>1. Debt("isr")' = Debt("isr") BY <1>1, <1>4 DEF Actors
  <2> QED BY <1>2, <1>3, <1>4, <2>1 DEF Debts
<1>5. CASE a = "isr"
  <2>1. Debt("main")' = Debt("main") BY <1>1, <1>5 DEF Actors
  <2> QED BY <1>2, <1>3, <1>5, <2>1 DEF Debts
<1> QED BY <1>4, <1>5 DEF Actors

\* One actor's call is replaced by another one.
LEMMA CallMoves ==
    ASSUME CallsOK, NEW a \in Actors, NEW c, CallOK(c), call' = [call EXCEPT ![a] = c]
    PROVE  /\ CallsOK' /\ call'[a] = c
           /\ Debts' = Debts + (IF Owes(c) THEN 1 ELSE 0) - Debt(a)
<1>1. call'[a] = c /\ \A b \in Actors \ {a} : call'[b] = call[b] BY DEF CallsOK
<1>2. c \in Calls BY DEF CallOK
<1>3. CallsOK' BY <1>1, <1>2 DEF CallsOK
<1>4. Debt(a)' = IF Owes(c) THEN 1 ELSE 0 BY <1>1 DEF Debt
<1> QED BY <1>1, <1>3, <1>4, DebtMoves

\* A step that leaves the FIFOs and the debts alone.
LEMMA FifosStand ==
    ASSUME IInv, CallsOK', IsrOK', Debts' = Debts, UNCHANGED <<tx, rx, shift, sent, overrun>>
    PROVE  IInv'
<1>1. FifosOK' /\ FitsOK' BY DEF IInv, FifosOK, FitsOK
<1>2. Backlog' = Backlog BY DEF Backlog
<1>3. BacklogBounded' BY <1>2 DEF IInv, BacklogBounded
<1>4. AnswersWouldFit' BY DEF IInv, AnswersWouldFit
<1> QED BY <1>1, <1>3, <1>4 DEF IInv

-----------------------------------------------------------------------------
(* The steps.                                                              *)

\* A poll moves a call from its first step to its second.
LEMMA PollStep ==
    ASSUME IInv, NEW a \in Actors, Poll(a)
    PROVE  /\ IInv' /\ Debts' = Debts
           /\ call'[a].step = 2 /\ \A b \in Actors \ {a} : call'[b] = call[b]
<1> DEFINE c == [After(call[a]) EXCEPT !.raced = FALSE]
<1>1. CallsOK /\ At(a, "poll") BY DEF IInv, Poll
<1>2. CallOK(call[a]) /\ call[a].op # "idle" /\ call[a].step = 1 BY <1>1, AtShape
<1>3. call[a].step < Len(Turn(call[a].op))
  <2>1. call[a].op \in Busy BY <1>2 DEF CallOK, Calls, Busy
  <2> QED BY <1>2, <2>1, TurnShape
<1>4. CallOK(After(call[a])) /\ After(call[a]).op = call[a].op /\ After(call[a]).step = 2
  BY <1>2, <1>3, AfterShape
<1>5. c \in Calls /\ c.op = After(call[a]).op /\ c.step = After(call[a]).step
  BY <1>4 DEF CallOK, Calls
<1>6. CallOK(c) BY <1>4, <1>5 DEF CallOK
<1>7. call' = [call EXCEPT ![a] = c] BY DEF Poll
<1> HIDE DEF c
<1>8. ~Owes(c) BY <1>4, <1>5, <1>6, DebtFromStepThree
<1>9. Debt(a) = 0 BY <1>2, DebtFromStepThree DEF Debt
<1>10. CallsOK' /\ Debts' = Debts + (IF Owes(c) THEN 1 ELSE 0) - Debt(a)
  BY <1>1, <1>6, <1>7, CallMoves
<1>11. Debts' = Debts BY <1>8, <1>9, <1>10, DebtsType
<1>12. IsrOK' BY <1>2, <1>7 DEF IInv, IsrOK, Actors, CallsOK
<1>13. UNCHANGED <<tx, rx, shift, sent, overrun>> BY DEF Poll, wire
<1>14. IInv' BY <1>10, <1>11, <1>12, <1>13, FifosStand
<1>15. call'[a] = c /\ \A b \in Actors \ {a} : call'[b] = call[b] BY <1>1, <1>7 DEF CallsOK
<1> QED BY <1>4, <1>5, <1>11, <1>14, <1>15

\* A write of TXFIFO puts one frame more on its way, and its call in debt.
LEMMA PushStep ==
    ASSUME IInv, NEW a \in Actors, Push(a)
    PROVE  /\ IInv' /\ Debts' = Debts + 1
           /\ call'[a].arrived = Arrived /\ call'[a].step = 3
           /\ \A b \in Actors \ {a} : /\ call'[b].op = call[b].op /\ call'[b].step = call[b].step
                                      /\ call'[b].arrived = call[b].arrived
<1> DEFINE c == [After(call[a]) EXCEPT !.arrived = Arrived]
           other(b) == [call[b] EXCEPT !.raced = call[b].op # "idle"]
<1>1. CallsOK /\ FifosOK /\ FitsOK /\ At(a, "push") BY DEF IInv, Push
<1>2. CallOK(call[a]) /\ call[a].op # "idle" /\ call[a].step = 2 BY <1>1, AtShape
<1>3. call[a].step < Len(Turn(call[a].op))
  <2>1. call[a].op \in Busy BY <1>2 DEF CallOK, Calls, Busy
  <2> QED BY <1>2, <2>1, TurnShape
<1>4. CallOK(After(call[a])) /\ After(call[a]).op = call[a].op /\ After(call[a]).step = 3
  BY <1>2, <1>3, AfterShape
<1>5. Arrived \in Int
  <2>1. tx # <<>> => Head(tx) \in Nat BY <1>1, Front DEF FifosOK
  <2> QED BY <1>1, <2>1 DEF Arrived, FifosOK
<1>6. c \in Calls /\ c.op = After(call[a]).op /\ c.step = After(call[a]).step /\ c.arrived = Arrived
  BY <1>4, <1>5 DEF CallOK, Calls
<1>7. CallOK(c) BY <1>4, <1>6 DEF CallOK
<1>8. /\ call' \in [Actors -> Calls] /\ call'[a] = c
      /\ \A b \in Actors \ {a} : /\ CallOK(call'[b]) /\ call'[b].op = call[b].op
                                 /\ call'[b].step = call[b].step /\ call'[b].arrived = call[b].arrived
  <2>1. call' = [b \in Actors |-> IF b = a THEN c ELSE other(b)] BY DEF Push
  <2>2. \A b \in Actors : CallOK(call[b]) BY <1>1 DEF CallsOK
  <2>3. \A b \in Actors : /\ CallOK(other(b)) /\ other(b).op = call[b].op
                           /\ other(b).step = call[b].step /\ other(b).arrived = call[b].arrived
    BY <2>2 DEF CallOK, Calls
  <2>4. \A b \in Actors : other(b) \in Calls BY <2>3 DEF CallOK
  <2> HIDE DEF c, other
  <2> QED BY <1>6, <2>1, <2>3, <2>4
<1> HIDE DEF c, other
<1>9. CallsOK' BY <1>7, <1>8 DEF CallsOK
<1>10. Debt(a) = 0 /\ Debt(a)' = 1
  <2>1. Owes(c) BY <1>2, <1>4, <1>6, <1>7, DebtFromStepThree
  <2>2. ~Owes(call[a]) BY <1>2, DebtFromStepThree
  <2> QED BY <1>8, <2>1, <2>2 DEF Debt
<1>11. Debts' = Debts + 1 BY <1>8, <1>10, DebtMoves, DebtsType
<1>12. IsrOK'
  <2>1. c.op # "idle" /\ c.op = call[a].op BY <1>2, <1>4, <1>6
  <2> QED BY <1>8, <2>1 DEF IInv, IsrOK, Actors
<1>13. FifosOK' /\ FitsOK' /\ Backlog' <= Backlog + 1 /\ Backlog' \in Int
  <2>1. UNCHANGED <<rx, shift>> /\ sent' = sent + 1 BY DEF Push
  <2>2. CASE tx' = Append(tx, sent + 1) /\ Len(tx) < TxDepth
    <3>1. sent + 1 \in Nat BY <1>1 DEF FifosOK
    <3>2. tx' \in Seq(Nat) /\ Len(tx') = Len(tx) + 1 /\ Len(tx) \in Nat /\ Len(rx) \in Nat
      BY <1>1, <2>2, <3>1 DEF FifosOK
    <3>3. Len(tx') <= TxDepth BY <2>2, <3>2, DepthAssumption
    <3>4. FifosOK' /\ FitsOK' BY <1>1, <2>1, <3>1, <3>2, <3>3 DEF FifosOK, FitsOK
    <3> QED BY <1>1, <2>1, <3>2, <3>4 DEF Backlog
  <2>3. CASE UNCHANGED tx
    <3>1. sent + 1 \in Nat /\ Len(tx) \in Nat /\ Len(rx) \in Nat BY <1>1 DEF FifosOK
    <3>2. FifosOK' /\ FitsOK' BY <1>1, <2>1, <2>3, <3>1 DEF FifosOK, FitsOK
    <3> QED BY <2>1, <2>3, <3>1, <3>2 DEF Backlog
  <2> QED BY <2>2, <2>3 DEF Push
<1>14. BacklogBounded'
  <2>1. Backlog <= TxDepth + 1 + Debts BY DEF IInv, BacklogBounded
  <2>2. Backlog \in Int BY <1>1 DEF Backlog, FifosOK
  <2> QED BY <1>11, <1>13, <2>1, <2>2, DebtsType, DepthAssumption DEF BacklogBounded
<1>15. AnswersWouldFit' BY DEF IInv, Push, AnswersWouldFit
<1>16. IInv' BY <1>9, <1>12, <1>13, <1>14, <1>15 DEF IInv
<1> QED BY <1>4, <1>6, <1>8, <1>11, <1>16

\* With RXFIFO empty nothing is ahead of the answers but TXFIFO and the wire.
LEMMA EmptyBacklog ==
    ASSUME FifosOK, FitsOK, rx = <<>>
    PROVE  Backlog <= TxDepth + 1 /\ Backlog \in Int
<1>1. Len(tx) \in Nat /\ Len(rx) = 0 BY DEF FifosOK
<1> QED BY <1>1, DepthAssumption DEF Backlog, FitsOK

\* The loop over RXFIFO takes answers until there are none.
LEMMA DrainStep ==
    ASSUME IInv, NEW a \in Actors, Drain(a)
    PROVE  /\ IInv'
           /\ rx = <<>> => /\ \/ call'[a].op = "idle" \/ ~(call'[a].step >= 3)
                              \/ call[a].step = 3 /\ call'[a].arrived = call[a].arrived
                           /\ \A b \in Actors \ {a} : call'[b] = call[b]
           /\ rx # <<>> => Debts' = Debts
<1>1. CallsOK /\ IsrOK /\ FifosOK /\ FitsOK /\ At(a, "drain") BY DEF IInv, Drain
<1>2. UNCHANGED <<tx, shift, sent, overrun>> BY DEF Drain
<1>3. AnswersWouldFit' BY <1>2 DEF IInv, AnswersWouldFit
<1>4. CASE rx = <<>>
  <2> DEFINE c == After(call[a])
  <2>1. CallOK(call[a]) /\ call[a].op # "idle" BY <1>1, AtShape
  <2>2. CallOK(c) BY <2>1, AfterShape
  <2>3. call' = [call EXCEPT ![a] = c] /\ rx' = rx BY <1>4 DEF Drain
  <2> HIDE DEF c
  <2>4. CallsOK' BY <1>1, <2>2, <2>3, CallMoves
  <2>5. IsrOK' BY <1>1, <2>1, <2>3 DEF IsrOK, Actors, CallsOK
  <2>6. FifosOK' /\ FitsOK' BY <1>1, <1>2, <2>3 DEF FifosOK, FitsOK
  <2>7. Backlog' = Backlog BY <1>2, <2>3 DEF Backlog
  <2>8. BacklogBounded'
    <3>1. Backlog <= TxDepth + 1 /\ Backlog \in Int BY <1>1, <1>4, EmptyBacklog
    <3>2. Backlog' <= TxDepth + 1 /\ Backlog' \in Int BY <2>7, <3>1
    <3>3. Debts' \in Int /\ Debts' >= 0 BY DebtsType
    <3>4. TxDepth + 1 \in Int BY DepthAssumption
    <3>5. Backlog' <= (TxDepth + 1) + Debts'
      <4> DEFINE b == Backlog'  d == Debts'  t == TxDepth + 1
      <4>1. b <= t /\ b \in Int /\ d \in Int /\ d >= 0 /\ t \in Int BY <3>2, <3>3, <3>4
      <4> HIDE DEF b, d, t
      <4>2. b <= t + d BY <4>1
      <4> QED BY <4>2 DEF b, d, t
    <3> QED BY <3>5 DEF BacklogBounded
  <2>9. IInv' BY <1>3, <2>4, <2>5, <2>6, <2>8 DEF IInv
  <2>10. call'[a] = c /\ \A b \in Actors \ {a} : call'[b] = call[b] BY <1>1, <2>3 DEF CallsOK
  <2>11. \/ c.op = "idle" \/ c.step = 1
         \/ (call[a].step = 3 /\ c.arrived = call[a].arrived)
    BY <1>1, <2>1, AtShape, AfterShape DEF c
  <2> QED BY <1>4, <2>9, <2>10, <2>11
<1>5. CASE rx # <<>>
  <2>1. rx' = Tail(rx) /\ call' = call BY <1>5 DEF Drain
  <2>2. Tail(rx) \in Seq(Nat) /\ Len(rx) \in Nat /\ Len(Tail(rx)) = Len(rx) - 1
    BY <1>1, <1>5, Front DEF FifosOK
  <2>3. CallsOK' /\ IsrOK' /\ Debts' = Debts
    BY <1>1, <2>1 DEF CallsOK, IsrOK, Debts, Debt
  <2>4. FifosOK' /\ FitsOK'
    BY <1>1, <1>2, <2>1, <2>2, DepthAssumption DEF FifosOK, FitsOK
  <2>5. Backlog' = Backlog - 1 /\ Backlog \in Int
    <3>1. Len(tx) \in Nat BY <1>1 DEF FifosOK
    <3> QED BY <1>2, <2>1, <2>2, <3>1 DEF Backlog
  <2>6. BacklogBounded'
    <3>1. Backlog <= TxDepth + 1 + Debts BY DEF IInv, BacklogBounded
    <3> QED BY <2>3, <2>5, <3>1, DebtsType, DepthAssumption DEF BacklogBounded
  <2> QED BY <1>3, <1>5, <2>3, <2>4, <2>6 DEF IInv
<1> QED BY <1>4, <1>5

\* A read ends the debt of its call, with an answer if there is one.
LEMMA ReadStep ==
    ASSUME IInv, NEW a \in Actors, Read(a)
    PROVE  /\ IInv' /\ Debts' = Debts - 1
           /\ call'[a].op = "idle" \/ call'[a].step = 1
           /\ \A b \in Actors \ {a} : call'[b] = call[b]
<1> DEFINE c == After(call[a])
<1>1. CallsOK /\ IsrOK /\ FifosOK /\ FitsOK /\ At(a, "read") BY DEF IInv, Read
<1>2. UNCHANGED <<tx, shift, sent, overrun>> BY DEF Read
<1>3. AnswersWouldFit' BY <1>2 DEF IInv, AnswersWouldFit
<1>4. /\ CallOK(call[a]) /\ call[a].op # "idle" /\ call[a].step >= 3
      /\ ~(call[a].step < Len(Turn(call[a].op)))
  BY <1>1, AtShape
<1>5. CallOK(c) /\ (c.op = "idle" \/ c.step = 1) BY <1>4, AfterShape
<1>6. call' = [call EXCEPT ![a] = c] BY DEF Read
<1> HIDE DEF c
<1>7. CallsOK' /\ Debts' = Debts + (IF Owes(c) THEN 1 ELSE 0) - Debt(a)
  BY <1>1, <1>5, <1>6, CallMoves
<1>8. ~Owes(c) BY <1>5, DebtFromStepThree
<1>9. Debt(a) = 1 BY <1>4, DebtFromStepThree DEF Debt
<1>10. Debts' = Debts - 1 BY <1>7, <1>8, <1>9, DebtsType
<1>11. IsrOK' BY <1>1, <1>4, <1>6 DEF IsrOK, Actors, CallsOK
<1>12. call'[a] = c /\ \A b \in Actors \ {a} : call'[b] = call[b] BY <1>1, <1>6 DEF CallsOK
<1>13. ASSUME rx = <<>> PROVE IInv'
  <2>1. rx' = rx BY <1>13 DEF Read
  <2>2. FifosOK' /\ FitsOK' BY <1>1, <1>2, <2>1 DEF FifosOK, FitsOK
  <2>3. Backlog' = Backlog BY <1>2, <2>1 DEF Backlog
  <2>4. BacklogBounded'
    <3>1. Backlog <= TxDepth + 1 /\ Backlog \in Int BY <1>1, <1>13, EmptyBacklog
    <3>2. Backlog' <= TxDepth + 1 /\ Backlog' \in Int BY <2>3, <3>1
    <3>3. Debts' \in Int /\ Debts' >= 0 BY DebtsType
    <3>4. TxDepth + 1 \in Int BY DepthAssumption
    <3>5. Backlog' <= (TxDepth + 1) + Debts'
      <4> DEFINE b == Backlog'  d == Debts'  t == TxDepth + 1
      <4>1. b <= t /\ b \in Int /\ d \in Int /\ d >= 0 /\ t \in Int BY <3>2, <3>3, <3>4
      <4> HIDE DEF b, d, t
      <4>2. b <= t + d BY <4>1
      <4> QED BY <4>2 DEF b, d, t
    <3> QED BY <3>5 DEF BacklogBounded
  <2> QED BY <1>3, <1>7, <1>11, <2>2, <2>4 DEF IInv
<1>14. ASSUME rx # <<>> PROVE IInv'
  <2>1. rx' = Tail(rx) BY <1>14 DEF Read
  <2>2. Tail(rx) \in Seq(Nat) /\ Len(rx) \in Nat /\ Len(Tail(rx)) = Len(rx) - 1
    BY <1>1, <1>14, Front DEF FifosOK
  <2>3. FifosOK' /\ FitsOK'
    BY <1>1, <1>2, <2>1, <2>2, DepthAssumption DEF FifosOK, FitsOK
  <2>4. Backlog' = Backlog - 1 /\ Backlog \in Int
    <3>1. Len(tx) \in Nat BY <1>1 DEF FifosOK
    <3> QED BY <1>2, <2>1, <2>2, <3>1 DEF Backlog
  <2>5. BacklogBounded'
    <3>1. Backlog <= TxDepth + 1 + Debts BY DEF IInv, BacklogBounded
    <3> QED BY <1>10, <2>4, <3>1, DebtsType, DepthAssumption DEF BacklogBounded
  <2> QED BY <1>3, <1>7, <1>11, <2>3, <2>5 DEF IInv
<1> QED BY <1>5, <1>10, <1>12, <1>13, <1>14

\* The next frame goes on the wire.
LEMMA LoadStep ==
    ASSUME IInv, Load
    PROVE  IInv' /\ Debts' = Debts
<1>1. CallsOK /\ IsrOK /\ FifosOK /\ FitsOK /\ tx # <<>> BY DEF IInv, Load
<1>2. UNCHANGED <<rx, sent, call, overrun>> /\ shift = 0 /\ shift' = Head(tx) /\ tx' = Tail(tx)
  BY DEF Load
<1>3. /\ Head(tx) \in Nat /\ Tail(tx) \in Seq(Nat)
      /\ Len(tx) \in Nat /\ Len(Tail(tx)) = Len(tx) - 1
  BY <1>1, Front DEF FifosOK
<1>4. CallsOK' /\ IsrOK' /\ Debts' = Debts BY <1>1, <1>2 DEF CallsOK, IsrOK, Debts, Debt
<1>5. FifosOK' /\ FitsOK' BY <1>1, <1>2, <1>3, DepthAssumption DEF FifosOK, FitsOK
<1>6. Backlog' <= Backlog /\ Backlog \in Int /\ Backlog' \in Int
  <2>1. Len(rx) \in Nat BY <1>1 DEF FifosOK
  <2> QED BY <1>2, <1>3, <2>1 DEF Backlog
<1>7. BacklogBounded'
  <2>1. Backlog <= TxDepth + 1 + Debts BY DEF IInv, BacklogBounded
  <2> QED BY <1>4, <1>6, <2>1, DebtsType, DepthAssumption DEF BacklogBounded
<1>8. AnswersWouldFit' BY <1>2 DEF IInv, AnswersWouldFit
<1> QED BY <1>4, <1>5, <1>7, <1>8 DEF IInv

\* Its answer goes to RXFIFO; one that finds it full shows that RXFIFO is
\* smaller than the backlog can grow.
LEMMA ShiftStep ==
    ASSUME IInv, Shift
    PROVE  IInv' /\ Debts' = Debts
<1>1. CallsOK /\ IsrOK /\ FifosOK /\ FitsOK /\ shift # 0 BY DEF IInv, Shift
<1>2. UNCHANGED <<tx, sent, call>> /\ shift' = 0 BY DEF Shift
<1>3. Len(tx) \in Nat /\ Len(rx) \in Nat /\ shift \in Nat BY <1>1 DEF FifosOK
<1>4. CallsOK' /\ IsrOK' /\ Debts' = Debts BY <1>1, <1>2 DEF CallsOK, IsrOK, Debts, Debt
<1>5. Backlog <= TxDepth + 1 + Debts /\ Backlog = Len(tx) + 1 + Len(rx)
  BY <1>1, <1>3 DEF IInv, BacklogBounded, Backlog
<1>6. CASE rx' = Append(rx, shift) /\ Len(rx) < RxDepth /\ overrun' = overrun
  <2>1. rx' \in Seq(Nat) /\ Len(rx') = Len(rx) + 1 BY <1>1, <1>6 DEF FifosOK
  <2>2. FifosOK' /\ FitsOK'
    BY <1>1, <1>2, <1>3, <1>6, <2>1, DepthAssumption DEF FifosOK, FitsOK
  <2>3. Backlog' = Backlog BY <1>2, <1>3, <1>5, <2>1 DEF Backlog
  <2>4. BacklogBounded' BY <1>4, <1>5, <2>3 DEF BacklogBounded
  <2> QED BY <1>4, <1>6, <2>2, <2>4 DEF IInv, AnswersWouldFit
<1>7. CASE UNCHANGED rx
  <2>1. FifosOK' /\ FitsOK' BY <1>1, <1>2, <1>7 DEF FifosOK, FitsOK
  <2>2. Backlog' = Backlog - 1 /\ Backlog \in Int BY <1>2, <1>3, <1>5, <1>7 DEF Backlog
  <2>3. BacklogBounded' BY <1>4, <1>5, <2>2, DebtsType, DepthAssumption DEF BacklogBounded
  <2>4. AnswersWouldFit'
    <3>1. CASE UNCHANGED overrun BY <3>1 DEF IInv, AnswersWouldFit
    <3>2. CASE ~(Len(rx) < RxDepth)
      <4>1. RxDepth <= TxDepth + Debts
        BY <1>3, <1>5, <3>2, DebtsType, DepthAssumption
      <4>2. ~IsrSends => Debts \in 0 .. 1
        <5>1. ~IsrSends => Debt("isr") = 0 BY <1>1 DEF IsrOK, Debt, Owes
        <5>2. Debt("main") \in {0, 1} BY DEF Debt
        <5> QED BY <5>1, <5>2 DEF Debts
      <4>3. RxDepth < TxDepth + (IF IsrSends THEN 3 ELSE 2)
        <5>1. CASE IsrSends BY <4>1, <5>1, DebtsType, DepthAssumption
        <5>2. CASE ~IsrSends BY <4>1, <4>2, <5>2, DepthAssumption
        <5> QED BY <5>1, <5>2
      <4> QED BY <4>3 DEF AnswersWouldFit
    <3> QED BY <1>7, <3>1, <3>2 DEF Shift
  <2> QED BY <1>4, <2>1, <2>3, <2>4 DEF IInv
<1> QED BY <1>4, <1>6, <1>7 DEF Shift

\* A call that begins owes nothing.
LEMMA CallStep ==
    ASSUME IInv, NEW a \in Actors, NEW op \in Busy, NEW size \in Nat, Call(a, op, size),
           a = "isr" => IsrSends
    PROVE  /\ IInv' /\ Debts' = Debts
           /\ call'[a].step = 1 /\ \A b \in Actors \ {a} : call'[b] = call[b]
<1> DEFINE c == [NoCall EXCEPT !.op = op, !.size = size]
<1>1. CallsOK /\ IsrOK /\ CallOK(call[a]) BY DEF IInv, CallsOK
<1>2. c \in Calls /\ c.op = op /\ c.step = 1
  <2> DEFINE d == [NoCall EXCEPT !.op = op]
  <2>1. NoCall \in Calls /\ NoCall.step = 1 BY DEF NoCall, Calls, Ops
  <2>2. op \in Ops BY DEF Busy
  <2>3. d \in Calls /\ d.op = op /\ d.step = 1 BY <2>1, <2>2 DEF Calls
  <2>4. c = [d EXCEPT !.size = size] OBVIOUS
  <2> HIDE DEF c, d
  <2> QED BY <2>3, <2>4 DEF Calls
<1>3. CallOK(c) BY <1>2, TurnShape DEF CallOK
<1>4. call' = [call EXCEPT ![a] = c] BY DEF Call
<1> HIDE DEF c
<1>5. CallsOK' /\ Debts' = Debts + (IF Owes(c) THEN 1 ELSE 0) - Debt(a)
  BY <1>1, <1>3, <1>4, CallMoves
<1>6. ~Owes(c) BY <1>2, <1>3, DebtFromStepThree
<1>7. Debt(a) = 0 BY DEF Call, Debt, Owes
<1>8. Debts' = Debts BY <1>5, <1>6, <1>7, DebtsType
<1>9. IsrOK' BY <1>1, <1>4 DEF IsrOK, Actors, CallsOK
<1>10. UNCHANGED <<tx, rx, shift, sent, overrun>> BY DEF Call, wire
<1>11. IInv' BY <1>5, <1>8, <1>9, <1>10, FifosStand
<1>12. call'[a] = c /\ \A b \in Actors \ {a} : call'[b] = call[b] BY <1>1, <1>4 DEF CallsOK
<1> QED BY <1>2, <1>8, <1>11, <1>12

\* Every step of the calls and of the controller keeps the backlog within what
\* the calls in progress account for (spi.h:290-405).
THEOREM BacklogInductive == IInv /\ [Next]_vars => IInv'
<1> SUFFICES ASSUME IInv, [Next]_vars PROVE IInv' OBVIOUS
<1>0. CallsOK /\ IsrOK BY DEF IInv
<1>1. ASSUME UNCHANGED <<wire, call>> PROVE IInv'
  <2>1. CallsOK' /\ IsrOK' /\ Debts' = Debts
    BY <1>0, <1>1 DEF CallsOK, IsrOK, Debts, Debt
  <2> QED BY <1>1, <2>1, FifosStand DEF wire
<1>2. CASE spi_init \/ spi_set_cs \/ spi_close
  BY <1>1, <1>2 DEF spi_init, spi_set_cs, spi_close
<1>3. CASE Foreground
  <2>1. {"send", "receive", "transmit", "send_multiple", "receive_multiple"} \subseteq Busy
    BY DEF Busy, Ops
  <2>2. CASE \E op \in {"send", "receive"} : Call("main", op, 1)
    BY <2>1, <2>2, CallStep DEF Actors
  <2>3. CASE \E op \in {"transmit", "send_multiple", "receive_multiple"}, n \in Sizes : Call("main", op, n)
    BY <2>1, <2>3, CallStep, SizesAssumption DEF Actors
  <2> QED BY <1>3, <2>2, <2>3 DEF Foreground
<1>4. CASE Trap
  <2>1. "send" \in Busy /\ IsrSends /\ Call("isr", "send", 1) BY <1>4 DEF Busy, Ops, Trap
  <2> QED BY <2>1, CallStep DEF Actors
<1>5. CASE \E a \in Actors : Step(a) \/ AtTheBound(a)
  <2>1. CASE \E a \in Actors : Step(a)
    BY <2>1, PollStep, PushStep, DrainStep, ReadStep DEF Step
  <2>2. CASE UNCHANGED vars BY <1>1, <2>2 DEF vars, wire
  <2> QED BY <1>5, <2>1, <2>2 DEF AtTheBound
<1>6. CASE Load BY <1>6, LoadStep
<1>7. CASE Shift BY <1>7, ShiftStep
<1>8. CASE UNCHANGED vars BY <1>1, <1>8 DEF vars, wire
<1> QED BY <1>2, <1>3, <1>4, <1>5, <1>6, <1>7, <1>8 DEF Next

\* So every reachable state satisfies it.
LEMMA BacklogInvariant == Spec => []IInv
<1>1. Init => IInv
  <2> SUFFICES ASSUME Init PROVE IInv OBVIOUS
  <2>1. FifosOK /\ FitsOK /\ Len(tx) = 0 /\ Len(rx) = 0
    BY DepthAssumption DEF Init, FifosOK, FitsOK
  <2>2. CallsOK /\ IsrOK
    <3>1. NoCall \in Calls /\ NoCall.op = "idle" BY DEF NoCall, Calls, Ops
    <3> QED BY <3>1 DEF Init, CallsOK, CallOK, IsrOK, Actors
  <2>3. BacklogBounded
    <3>1. Backlog = 0 BY <2>1 DEF Init, Backlog
    <3> QED BY <3>1, DebtsType, DepthAssumption DEF BacklogBounded
  <2>4. AnswersWouldFit BY DEF Init, AnswersWouldFit
  <2> QED BY <2>1, <2>2, <2>3, <2>4 DEF IInv
<1> QED BY <1>1, BacklogInductive, PTL DEF Spec

\* For FIFOs of any depth the answers nobody has read never exceed TXFIFO, the
\* wire and one frame for each call in progress (spi.h:290-400).
THEOREM BacklogStaysBounded == Spec => []BacklogBounded
<1>1. IInv => BacklogBounded BY DEF IInv
<1> QED BY <1>1, BacklogInvariant, PTL

\* spi.h:345-347, 391-393: whatever the values of the index, a transfer of a
\* buffer at least as long never returns to its caller.
THEOREM LongTransfersStay == Spec => EndlessStay
<1>1. IInv /\ [Next]_vars => (\A a \in Actors : Endless(call[a]) => Endless(call'[a]))
  <2> SUFFICES ASSUME IInv, [Next]_vars, NEW a \in Actors, Endless(call[a])
               PROVE  Endless(call'[a])
    OBVIOUS
  <2> DEFINE c == call[a]
  <2>1. CallsOK /\ CallOK(c) /\ c \in Calls /\ c.op # "idle"
    BY DEF IInv, CallsOK, CallOK, Endless, CountsIn16Bits
  <2>2. Endless(After(c))
    <3>1. c.op \in Busy /\ c.step \in 1 .. 4 /\ c.step <= Len(Turn(c.op)) /\ Len(Turn(c.op)) \in {3, 4}
      BY <2>1, TurnShape DEF CallOK, Calls, Busy
    <3>2. NextIndex(c) < c.size
      <4>1. NextIndex(c) < IndexValues /\ NextIndex(c) \in Nat BY <2>1, NextIndexType DEF Endless
      <4>2. c.size \in Nat /\ c.size >= IndexValues BY <2>1 DEF Calls, Endless
      <4> DEFINE k == NextIndex(c)  n == c.size
      <4> HIDE DEF k, n
      <4> QED BY <4>1, <4>2, IndexAssumption
    <3>3. After(c) = [c EXCEPT !.step = @ + 1] \/ After(c) = [c EXCEPT !.step = 1, !.index = NextIndex(c)]
      <4> DEFINE n == Len(Turn(c.op))
      <4>1. c.step < n \/ (c.step = n /\ ~(c.step < n))
        <5> DEFINE k == c.step
        <5>1. k \in 1 .. 4 /\ k <= n /\ n \in {3, 4} BY <3>1
        <5>2. k < n \/ (k = n /\ ~(k < n))
          <6> HIDE DEF k, n
          <6> QED BY <5>1
        <5> QED BY <5>2
      <4> QED BY <3>2, <4>1 DEF After
    <3>4. After(c).op = c.op /\ After(c).size = c.size
      <4>1. ASSUME NEW d \in Calls, NEW v, NEW w
            PROVE  /\ [d EXCEPT !.step = v].op = d.op /\ [d EXCEPT !.step = v].size = d.size
                   /\ [d EXCEPT !.step = v, !.index = w].op = d.op
                   /\ [d EXCEPT !.step = v, !.index = w].size = d.size
        BY DEF Calls
      <4>2. CASE After(c) = [c EXCEPT !.step = @ + 1]
        <5>1. After(c) = [c EXCEPT !.step = c.step + 1] BY <4>2
        <5> QED BY <2>1, <4>1, <5>1
      <4>3. CASE After(c) = [c EXCEPT !.step = 1, !.index = NextIndex(c)] BY <2>1, <4>1, <4>3
      <4> QED BY <3>3, <4>2, <4>3
    <3> QED BY <3>4 DEF Endless
  <2>3. call'[a] = c => Endless(call'[a]) OBVIOUS
  <2>4. ASSUME NEW b \in Actors, NEW op, NEW size, Call(b, op, size) PROVE Endless(call'[a])
    <3>1. call[b].op = "idle" /\ call' = [call EXCEPT ![b] = [NoCall EXCEPT !.op = op, !.size = size]]
      BY <2>4 DEF Call
    <3>2. b # a BY <2>1, <3>1
    <3> QED BY <2>1, <3>1, <3>2 DEF CallsOK
  <2>5. CASE Foreground BY <2>4, <2>5 DEF Foreground, Actors
  <2>6. CASE Trap BY <2>4, <2>6 DEF Trap, Actors
  <2>7. CASE spi_init \/ spi_set_cs \/ spi_close \/ Load \/ Shift \/ UNCHANGED vars
    BY <2>3, <2>7 DEF spi_init, spi_set_cs, spi_close, Load, Shift, vars
  <2>8. ASSUME NEW b \in Actors, Step(b) PROVE Endless(call'[a])
    <3>1. CASE b # a
      <4>1. call'[a].op = c.op /\ call'[a].size = c.size
        <5>1. CASE call' = [call EXCEPT ![b] = call'[b]] BY <2>1, <3>1, <5>1 DEF CallsOK
        <5>2. CASE call' = [call EXCEPT ![b] = [After(@) EXCEPT !.raced = FALSE]]
          BY <2>1, <3>1, <5>2 DEF CallsOK
        <5>3. CASE call' = [call EXCEPT ![b] = After(@)] BY <2>1, <3>1, <5>3 DEF CallsOK
        <5>4. CASE Push(b)
          <6>1. call'[a] = [c EXCEPT !.raced = c.op # "idle"] BY <3>1, <5>4 DEF Push
          <6> QED BY <2>1, <6>1 DEF Calls
        <5>5. CASE UNCHANGED call BY <5>5
        <5> QED BY <2>8, <5>2, <5>3, <5>4, <5>5 DEF Step, Poll, Drain, Read
      <4> QED BY <4>1 DEF Endless
    <3>2. CASE b = a
      <4>1. CallOK(After(c)) /\ After(c) \in Calls BY <2>1, AfterShape DEF CallOK
      <4>2. CASE call' = [call EXCEPT ![a] = [After(@) EXCEPT !.raced = FALSE]]
        <5>1. call'[a] = [After(c) EXCEPT !.raced = FALSE] BY <2>1, <4>2 DEF CallsOK
        <5> QED BY <2>2, <4>1, <5>1 DEF Endless, Calls
      <4>3. CASE call' = [call EXCEPT ![a] = After(@)] BY <2>1, <2>2, <4>3 DEF CallsOK
      <4>4. CASE Push(a)
        <5>1. call'[a] = [After(c) EXCEPT !.arrived = Arrived] BY <4>4 DEF Push
        <5> QED BY <2>2, <4>1, <5>1 DEF Endless, Calls
      <4>5. CASE UNCHANGED call BY <2>3, <4>5
      <4> QED BY <2>8, <3>2, <4>2, <4>3, <4>4, <4>5 DEF Step, Poll, Drain, Read
    <3> QED BY <3>1, <3>2
  <2> QED BY <2>5, <2>6, <2>7, <2>8 DEF Next, AtTheBound
<1>2. (\A a \in Actors : Endless(call[a]) => Endless(call'[a])) <=> [\A a \in Actors : Endless(call[a]) => Endless(call'[a])]_vars
  BY DEF vars
<1> QED BY <1>1, BacklogInvariant, PTL DEF Spec, EndlessStay

\* An RXFIFO two or three deeper than TXFIFO would never drop an answer,
\* whatever the calls and however slowly they run (spi.h:299-305, 378, 400).
THEOREM NoAnswerDropped == Spec => []AnswersWouldFit
<1>1. IInv => AnswersWouldFit BY DEF IInv
<1> QED BY <1>1, BacklogInvariant, PTL

-----------------------------------------------------------------------------
(* How old an answer may be.  The frames that are not answered yet are in the *)
(* FIFOs and on the wire, in the order they were written; each call that     *)
(* writes one takes the oldest answer or finds none.                         *)

Frames(q)  == {q[k] : k \in 1 .. Len(q)}
InOrder(q) == \A j, k \in 1 .. Len(q) : j < k => q[j] < q[k]
OnWire     == IF shift = 0 THEN {} ELSE {shift}

FramesInOrder ==
    /\ lost \subseteq 1 .. sent
    /\ InOrder(tx) /\ InOrder(rx)
    /\ Frames(tx) \cup OnWire \cup Frames(rx) \subseteq (1 .. sent) \ lost
    /\ \A f \in Frames(rx) : \A g \in Frames(tx) \cup OnWire : f < g
    /\ \A f \in OnWire, g \in Frames(tx) : f < g

\* A frame that was written and has left TXFIFO is not behind one that has not.
NothingOvertakes ==
    \A f \in (1 .. sent) \ lost :
        \/ f \in Frames(tx)
        \/ (\A g \in Frames(tx) : f < g) /\ (\A g \in OnWire : f <= g)

\* The frames from the oldest on whose answer can still be read.
Oldest ==
    IF rx # <<>> THEN Head(rx)
    ELSE IF shift # 0 THEN shift
    ELSE IF tx # <<>> THEN Head(tx) ELSE sent + 1

Unanswered == (Oldest .. sent) \ lost
LagBounded == Cardinality(Unanswered) <= TxDepth + 1 + Debts

\* What spi_transmit will read is younger than what it found.
ReadsLater(a) ==
    call[a].op # "idle" /\ call[a].step >= 3 =>
        /\ call[a].arrived <= sent
        /\ \A g \in Frames(tx) \cup OnWire : call[a].arrived < g
        /\ call[a].step = 4 => \A f \in Frames(rx) : call[a].arrived < f

AnswerKnown == answer.frame \in Nat /\ answer.sent \in Nat /\ answer.sent <= sent

LagInv ==
    /\ FramesInOrder /\ NothingOvertakes /\ LagBounded
    /\ AnswerKnown /\ AnswersAreRecent /\ \A a \in Actors : ReadsLater(a)

-----------------------------------------------------------------------------
LEMMA FirstFrame ==
    ASSUME NEW q \in Seq(Nat), q # <<>>, InOrder(q)
    PROVE  /\ Frames(q) = {Head(q)} \cup Frames(Tail(q)) /\ InOrder(Tail(q))
           /\ \A f \in Frames(Tail(q)) : Head(q) < f
           /\ Head(q) \in Nat
<1> DEFINE n == Len(q)  t == Tail(q)
<1>1. n \in Nat /\ n >= 1 /\ Head(q) = q[1] /\ Head(q) \in Nat
  BY EmptySeq, LenProperties
<1>2. Len(t) = n - 1 /\ \A k \in 1 .. n - 1 : t[k] = q[k + 1]
  <2>1. Len(t) = n - 1
    BY Front
  <2>2. ASSUME NEW k \in 1 .. n - 1 PROVE t[k] = q[k + 1]
    BY <1>1
  <2>3. QED
    BY <2>1, <2>2
<1> HIDE DEF n, t
<1>3. ASSUME NEW f \in Frames(q) PROVE f = q[1] \/ f \in Frames(t)
  <2>1. PICK k \in 1 .. n : f = q[k]
    BY DEF Frames, n
  <2>2. CASE k = 1
    BY <2>1, <2>2
  <2>3. CASE k # 1
    <3>1. k - 1 \in 1 .. n - 1 /\ (k - 1) + 1 = k
      BY <1>1, <2>1, <2>3
    <3>2. t[k - 1] = q[k]
      BY <1>2, <3>1
    <3>3. QED
      BY <1>2, <2>1, <3>1, <3>2 DEF Frames
  <2>4. QED
    BY <2>2, <2>3
<1>4. ASSUME NEW f \in Frames(t) PROVE f \in Frames(q) /\ q[1] < f
  <2>1. PICK k \in 1 .. n - 1 : f = t[k]
    BY <1>2 DEF Frames
  <2>2. k + 1 \in 1 .. n /\ 1 < k + 1 /\ 1 \in 1 .. n /\ f = q[k + 1]
    BY <1>1, <1>2, <2>1
  <2>3. f \in Frames(q)
    BY <2>2 DEF Frames, n
  <2>4. q[1] < q[k + 1]
    BY <2>2 DEF InOrder, n
  <2>5. QED
    BY <2>2, <2>3, <2>4
<1>5. q[1] \in Frames(q)
  BY <1>1 DEF Frames, n
<1>6. InOrder(t)
  <2>1. ASSUME NEW j \in 1 .. n - 1, NEW k \in 1 .. n - 1, j < k PROVE t[j] < t[k]
    <3>1. j + 1 \in 1 .. n /\ k + 1 \in 1 .. n /\ j + 1 < k + 1
      BY <1>1, <2>1
    <3>2. q[j + 1] < q[k + 1]
      BY <3>1 DEF InOrder, n
    <3>3. QED
      BY <1>2, <3>2
  <2>2. QED
    BY <1>2, <2>1 DEF InOrder
<1>7. QED
  BY <1>1, <1>3, <1>4, <1>5, <1>6 DEF t

LEMMA OneFrameMore ==
    ASSUME NEW q \in Seq(Nat), NEW f \in Nat, InOrder(q), \A g \in Frames(q) : g < f
    PROVE  Frames(Append(q, f)) = Frames(q) \cup {f} /\ InOrder(Append(q, f))
<1> DEFINE n == Len(q)  t == Append(q, f)
<1>1. n \in Nat /\ Len(t) = n + 1 /\ t[n + 1] = f /\ \A k \in 1 .. n : t[k] = q[k]
  BY AppendProperties, LenProperties
<1>0. Frames(q) = {q[k] : k \in 1 .. n}
  BY DEF Frames
<1> HIDE DEF n, t
<1>2. \A k \in 1 .. n + 1 : k = n + 1 \/ k \in 1 .. n
  BY <1>1
<1>3. \A k \in 1 .. n : k \in 1 .. n + 1
  BY <1>1
<1>4. n + 1 \in 1 .. n + 1
  BY <1>1
<1>5. Frames(t) = Frames(q) \cup {f}
  BY <1>0, <1>1, <1>2, <1>3, <1>4 DEF Frames
<1>6. ASSUME NEW j \in 1 .. n + 1, NEW k \in 1 .. n + 1, j < k PROVE t[j] < t[k]
  <2>1. j \in 1 .. n
    BY <1>1, <1>6
  <2>2. CASE k = n + 1
    BY <1>0, <1>1, <2>1, <2>2
  <2>3. CASE k \in 1 .. n
    <3>1. q[j] < q[k]
      BY <1>6, <2>1, <2>3 DEF InOrder, n
    <3>2. QED
      BY <1>1, <2>1, <2>3, <3>1
  <2>4. QED
    BY <1>2, <2>2, <2>3
<1>7. QED
  BY <1>1, <1>5, <1>6 DEF InOrder, t

LEMMA AppendHead ==
    ASSUME NEW q \in Seq(Nat), NEW f \in Nat
    PROVE  /\ Append(q, f) # <<>>
           /\ q # <<>> => Head(Append(q, f)) = Head(q)
           /\ q = <<>> => Head(Append(q, f)) = f
<1> DEFINE n == Len(q)  t == Append(q, f)
<1>1. n \in Nat /\ Len(t) = n + 1 /\ t[n + 1] = f /\ \A k \in 1 .. n : t[k] = q[k]
  BY AppendProperties, LenProperties
<1>2. t \in Seq(Nat) /\ t # <<>>
  <2>1. t \in Seq(Nat)
    OBVIOUS
  <2>2. Len(t) # 0
    BY <1>1
  <2>3. QED
    BY <2>1, <2>2, EmptySeq
<1>3. Head(t) = t[1]
  BY <1>2
<1>4. ASSUME q # <<>> PROVE Head(t) = Head(q)
  <2>1. 1 \in 1 .. n /\ Head(q) = q[1]
    BY <1>1, <1>4, EmptySeq
  <2>2. QED
    BY <1>1, <1>3, <2>1
<1>5. ASSUME q = <<>> PROVE Head(t) = f
  <2>1. n = 0
    BY <1>5, EmptySeq
  <2>2. QED
    BY <1>1, <1>3, <2>1
<1>6. QED
  BY <1>2, <1>4, <1>5

LEMMA NoFrames == ASSUME NEW q \in Seq(Nat) PROVE q = <<>> <=> Frames(q) = {}
<1>1. q = <<>> <=> Len(q) = 0
  BY EmptySeq
<1>2. Len(q) \in Nat
  BY LenProperties
<1>3. Len(q) # 0 => 1 \in 1 .. Len(q)
  BY <1>2
<1>4. Len(q) = 0 => 1 .. Len(q) = {}
  OBVIOUS
<1>5. QED
  BY <1>1, <1>3, <1>4 DEF Frames

\* As many frames as places.
LEMMA FramesFit ==
    ASSUME NEW q \in Seq(Nat)
    PROVE  IsFiniteSet(Frames(q)) /\ Cardinality(Frames(q)) <= Len(q) /\ Cardinality(Frames(q)) \in Nat
<1>1. Len(q) \in Nat /\ q \in [1 .. Len(q) -> Nat]
  BY LenProperties
<1>2. q \in Surjection(1 .. Len(q), Frames(q))
  BY <1>1 DEF Surjection, Frames
<1>3. IsFiniteSet(1 .. Len(q)) /\ Cardinality(1 .. Len(q)) = Len(q)
  <2>1. 1 \in Int /\ Len(q) \in Int
    BY <1>1
  <2>2. IsFiniteSet(1 .. Len(q)) /\ Cardinality(1 .. Len(q)) = IF 1 > Len(q) THEN 0 ELSE Len(q) - 1 + 1
    BY <2>1, FS_Interval, Zenon
  <2>3. QED
    BY <1>1, <2>2
<1>4. IsFiniteSet(Frames(q)) /\ Cardinality(Frames(q)) <= Len(q)
  BY <1>2, <1>3, FS_Surjection
<1>5. QED
  BY <1>4, FS_CardinalityType

\* The oldest frame is the first of all that are there.
FirstOfAll ==
    /\ Oldest \in Nat /\ Oldest <= sent + 1
    /\ \A f \in Frames(tx) \cup OnWire \cup Frames(rx) : Oldest <= f
    /\ Oldest \in Frames(tx) \cup OnWire \cup Frames(rx) \cup {sent + 1}
    /\ rx # <<>> => Oldest \in Frames(rx)

LEMMA OldestIsFirst == FifosOK /\ FramesInOrder => FirstOfAll
<1> SUFFICES ASSUME FifosOK, FramesInOrder PROVE FirstOfAll
  OBVIOUS
<1> USE DEF FirstOfAll
<1>1. rx # <<>> => Oldest \in Frames(rx) /\ \A f \in Frames(rx) : Oldest <= f
  BY FirstFrame DEF FifosOK, FramesInOrder, Oldest
<1>2. tx # <<>> => Head(tx) \in Frames(tx) /\ \A f \in Frames(tx) : Head(tx) <= f
  BY FirstFrame DEF FifosOK, FramesInOrder
<1>3. (tx = <<>> <=> Frames(tx) = {}) /\ (rx = <<>> <=> Frames(rx) = {})
  BY NoFrames DEF FifosOK
<1>4. sent \in Nat /\ \A f \in Frames(tx) \cup OnWire \cup Frames(rx) : f \in Nat /\ f <= sent
  BY DEF FifosOK, FramesInOrder
<1>5. CASE rx # <<>>
  BY <1>1, <1>4, <1>5 DEF FramesInOrder
<1>6. CASE rx = <<>> /\ shift # 0
  BY <1>3, <1>4, <1>6 DEF FramesInOrder, Oldest, OnWire
<1>7. CASE rx = <<>> /\ shift = 0 /\ tx # <<>>
  BY <1>2, <1>3, <1>4, <1>7 DEF FramesInOrder, Oldest, OnWire
<1>8. CASE rx = <<>> /\ shift = 0 /\ tx = <<>>
  BY <1>3, <1>4, <1>8 DEF Oldest, OnWire
<1>9. QED
  BY <1>5, <1>6, <1>7, <1>8

LEMMA UnansweredIsFinite ==
    FifosOK /\ FramesInOrder => IsFiniteSet(Unanswered) /\ Cardinality(Unanswered) \in Nat
<1> SUFFICES ASSUME FifosOK, FramesInOrder
             PROVE  IsFiniteSet(Unanswered) /\ Cardinality(Unanswered) \in Nat
  OBVIOUS
<1>1. IsFiniteSet(Oldest .. sent)
  BY OldestIsFirst, FS_Interval DEF FifosOK, FirstOfAll
<1>2. IsFiniteSet(Unanswered)
  BY <1>1, FS_Subset DEF Unanswered
<1>3. QED
  BY <1>2, FS_CardinalityType

\* With no answer to read, what is unanswered is on its way.
LEMMA OnlyOnTheirWay ==
    ASSUME FifosOK, FitsOK, FramesInOrder, NothingOvertakes, rx = <<>>
    PROVE  Cardinality(Unanswered) <= TxDepth + 1
<1>1. IsFiniteSet(Frames(tx)) /\ Cardinality(Frames(tx)) <= TxDepth
  <2>1. Cardinality(Frames(tx)) <= Len(tx) /\ Cardinality(Frames(tx)) \in Nat /\ Len(tx) \in Nat
    BY FramesFit, LenProperties DEF FifosOK
  <2>2. QED
    BY <2>1, FramesFit, DepthAssumption DEF FifosOK, FitsOK
<1>2. Unanswered \subseteq Frames(tx) \cup {shift}
  <2>1. SUFFICES ASSUME NEW f \in Unanswered, f \notin Frames(tx) PROVE f = shift
    OBVIOUS
  <2>2. f \in (1 .. sent) \ lost /\ Oldest <= f
    <3>1. Oldest \in Nat /\ f \in Oldest .. sent /\ f \notin lost /\ sent \in Nat
      BY OldestIsFirst DEF Unanswered, FifosOK, FirstOfAll
    <3>2. Oldest # 0
      <4>1. Oldest \in (1 .. sent) \cup {sent + 1}
        BY OldestIsFirst DEF FramesInOrder, FirstOfAll
      <4>2. QED
        BY <3>1, <4>1
    <3>3. QED
      BY <3>1, <3>2
  <2>3. (\A g \in Frames(tx) : f < g) /\ (\A g \in OnWire : f <= g)
    BY <2>1, <2>2 DEF NothingOvertakes
  <2>4. Frames(rx) = {}
    BY NoFrames DEF FifosOK
  <2>5. Oldest \in Frames(tx) \cup OnWire \cup {sent + 1} /\ Oldest \in Nat
    BY <2>4, OldestIsFirst DEF FirstOfAll
  <2>6. Oldest \in OnWire
    BY <2>2, <2>3, <2>5 DEF FifosOK
  <2>7. Oldest = shift
    BY <2>6 DEF OnWire
  <2>8. QED
    BY <2>2, <2>3, <2>5, <2>6, <2>7
<1>3. IsFiniteSet(Frames(tx) \cup {shift}) /\ Cardinality(Frames(tx) \cup {shift}) <= TxDepth + 1
  <2>1. Cardinality(Frames(tx)) \in Nat
    BY <1>1, FS_CardinalityType
  <2>2. /\ IsFiniteSet(Frames(tx) \cup {shift})
        /\ Cardinality(Frames(tx) \cup {shift}) =
              IF shift \in Frames(tx) THEN Cardinality(Frames(tx)) ELSE Cardinality(Frames(tx)) + 1
    BY <1>1, FS_AddElement, Zenon
  <2>3. QED
    BY <1>1, <2>1, <2>2, DepthAssumption
<1>4. Cardinality(Unanswered) <= Cardinality(Frames(tx) \cup {shift})
  BY <1>2, <1>3, FS_Subset
<1>5. Cardinality(Frames(tx) \cup {shift}) \in Nat
  BY <1>3, FS_CardinalityType
<1>6. QED
  BY <1>3, <1>4, <1>5, UnansweredIsFinite, DepthAssumption

\* Taking the oldest answer.
LEMMA TakesOldest ==
    ASSUME FifosOK, FramesInOrder, NothingOvertakes, rx # <<>>, rx' = Tail(rx),
           UNCHANGED <<tx, shift, sent, lost>>
    PROVE  /\ FifosOK' /\ FramesInOrder' /\ NothingOvertakes'
           /\ Frames(rx)' \subseteq Frames(rx)
           /\ Cardinality(Unanswered)' <= Cardinality(Unanswered) - 1
           /\ Head(rx) \in 1 .. sent
           /\ Cardinality((Head(rx) + 1 .. sent) \ lost) <= Cardinality(Unanswered) - 1
<1>1. /\ Frames(rx) = {Head(rx)} \cup Frames(rx') /\ InOrder(rx')
      /\ \A f \in Frames(rx') : Head(rx) < f
      /\ Head(rx) \in Nat /\ rx' \in Seq(Nat)
  BY FirstFrame, Front DEF FifosOK, FramesInOrder
<1>2. FifosOK'
  BY <1>1 DEF FifosOK
<1>3. OnWire' = OnWire /\ FramesInOrder' /\ NothingOvertakes'
  <2>1. OnWire' = OnWire
    BY DEF OnWire
  <2>2. FramesInOrder'
    BY <1>1, <2>1 DEF FramesInOrder
  <2>3. NothingOvertakes'
    BY <2>1 DEF NothingOvertakes
  <2>4. QED
    BY <2>1, <2>2, <2>3
<1>4. Oldest = Head(rx) /\ Head(rx) \in 1 .. sent /\ Head(rx) \notin lost /\ sent \in Nat
  BY <1>1 DEF Oldest, FramesInOrder, FifosOK
<1>5. Head(rx) \in Unanswered
  BY <1>4 DEF Unanswered
<1>6. Oldest' > Head(rx) /\ Oldest' \in Nat
  <2>1. Oldest' \in Frames(tx) \cup OnWire \cup Frames(rx') \cup {sent + 1} /\ Oldest' \in Nat
    <3>1. (FifosOK /\ FramesInOrder => FirstOfAll)'
      BY OldestIsFirst, PTL
    <3>2. FirstOfAll'
      BY <1>2, <1>3, <3>1
    <3>3. QED
      BY <1>3, <3>2 DEF FirstOfAll
  <2>2. \A g \in Frames(tx) \cup OnWire : Head(rx) < g
    BY <1>1 DEF FramesInOrder
  <2>3. QED
    BY <1>1, <1>4, <2>1, <2>2
<1>7. (Head(rx) + 1 .. sent) \ lost \subseteq Unanswered \ {Head(rx)}
  BY <1>4 DEF Unanswered
<1>8. Unanswered' \subseteq Unanswered \ {Head(rx)}
  BY <1>4, <1>6 DEF Unanswered
<1>9. IsFiniteSet(Unanswered \ {Head(rx)}) /\ Cardinality(Unanswered \ {Head(rx)}) = Cardinality(Unanswered) - 1
  BY <1>5, UnansweredIsFinite, FS_RemoveElement
<1>10. QED
  BY <1>1, <1>2, <1>3, <1>4, <1>7, <1>8, <1>9, FS_Subset

-----------------------------------------------------------------------------
\* A call that begins, and a poll.
LEMMA CallsKeepLag ==
    ASSUME IInv, LagInv, UNCHANGED <<tx, rx, shift, sent, lost, answer>>, Debts' = Debts,
           \A a \in Actors : \/ call'[a].op = "idle" \/ ~(call'[a].step >= 3)
                             \/ call'[a] = call[a]
    PROVE  LagInv'
<1>1. OnWire' = OnWire /\ Oldest' = Oldest
  BY DEF OnWire, Oldest
<1>2. FramesInOrder' /\ NothingOvertakes' /\ LagBounded' /\ AnswerKnown' /\ AnswersAreRecent'
  BY <1>1 DEF LagInv, FramesInOrder, NothingOvertakes, LagBounded, Unanswered, AnswerKnown,
              AnswersAreRecent, AnswerLagsBehind, TransmitReturnsNothingOld
<1>3. ASSUME NEW a \in Actors PROVE ReadsLater(a)'
  <2>1. ReadsLater(a)
    BY DEF LagInv
  <2>2. CASE call'[a].op = "idle" \/ ~(call'[a].step >= 3)
    BY <2>2 DEF ReadsLater
  <2>3. CASE call'[a] = call[a]
    BY <1>1, <2>1, <2>3 DEF ReadsLater
  <2>4. QED
    BY <2>2, <2>3
<1>4. QED
  BY <1>2, <1>3 DEF LagInv

\* A poll, a call that begins, a drain that finds nothing, a read that does not.
LEMMA LaterStays ==
    ASSUME NEW a \in Actors, ReadsLater(a), call'[a] = call[a], sent' = sent,
           Frames(tx)' \cup OnWire' \subseteq Frames(tx) \cup OnWire,
           Frames(rx)' \subseteq Frames(rx)
    PROVE  ReadsLater(a)'
BY DEF ReadsLater

LEMMA PushKeepsLag ==
    ASSUME IInv, LagInv, NEW a \in Actors, Push(a)
    PROVE  LagInv'
<1>0. /\ IInv' /\ Debts' = Debts + 1
      /\ call'[a].arrived = Arrived /\ call'[a].step = 3
      /\ \A b \in Actors \ {a} : /\ call'[b].op = call[b].op /\ call'[b].step = call[b].step
                                 /\ call'[b].arrived = call[b].arrived
  BY PushStep
<1>1. FifosOK /\ FifosOK' /\ FitsOK /\ FramesInOrder /\ NothingOvertakes
  BY <1>0 DEF IInv, LagInv
<1>2. /\ UNCHANGED <<rx, shift, answer>> /\ sent' = sent + 1
      /\ \/ tx' = Append(tx, sent + 1) /\ lost' = lost
         \/ tx' = tx /\ lost' = lost \cup {sent + 1} /\ ~(Len(tx) < TxDepth)
  BY DEF Push
<1>3. sent \in Nat /\ sent + 1 \in Nat /\ \A f \in Frames(tx) \cup OnWire \cup Frames(rx) : f \in Nat /\ f < sent + 1
  BY <1>1 DEF FifosOK, FramesInOrder
<1>4. /\ InOrder(tx') /\ OnWire' = OnWire
      /\ \/ Frames(tx') = Frames(tx) \cup {sent + 1} /\ lost' = lost
         \/ Frames(tx') = Frames(tx) /\ lost' = lost \cup {sent + 1}
  <2>1. CASE tx' = Append(tx, sent + 1) /\ lost' = lost
    BY <1>1, <1>2, <1>3, <2>1, OneFrameMore DEF OnWire, FifosOK, FramesInOrder
  <2>2. CASE tx' = tx /\ lost' = lost \cup {sent + 1}
    BY <1>1, <1>2, <2>2 DEF OnWire, FramesInOrder
  <2>3. QED
    BY <1>2, <2>1, <2>2
<1>5. FramesInOrder'
  <2>1. (1 .. sent) \cup {sent + 1} = 1 .. sent'
    BY <1>2, <1>3
  <2>2. lost' \subseteq 1 .. sent'
    BY <1>1, <1>4, <2>1 DEF FramesInOrder
  <2>3. Frames(tx') \cup OnWire' \cup Frames(rx') \subseteq (1 .. sent') \ lost'
    <3>1. sent + 1 \notin lost /\ sent + 1 \notin Frames(tx) \cup OnWire \cup Frames(rx)
      BY <1>1, <1>3 DEF FramesInOrder
    <3>2. Frames(rx') = Frames(rx)
      BY <1>2
    <3>3. QED
      BY <1>1, <1>4, <2>1, <3>1, <3>2 DEF FramesInOrder
  <2>4. \A f \in Frames(rx) : \A g \in Frames(tx') \cup OnWire : f < g
    BY <1>1, <1>3, <1>4 DEF FramesInOrder
  <2>5. \A f \in OnWire, g \in Frames(tx') : f < g
    BY <1>1, <1>3, <1>4 DEF FramesInOrder
  <2>6. QED
    BY <1>1, <1>2, <1>4, <2>2, <2>3, <2>4, <2>5 DEF FramesInOrder
<1>6. NothingOvertakes'
  <2>1. SUFFICES ASSUME NEW f \in (1 .. sent') \ lost', f \notin Frames(tx')
                 PROVE  (\A g \in Frames(tx') : f < g) /\ (\A g \in OnWire : f <= g)
    BY <1>4 DEF NothingOvertakes
  <2>2. f # sent + 1 /\ f \in 1 .. sent /\ f \notin lost /\ f \notin Frames(tx)
    BY <1>2, <1>3, <1>4, <2>1
  <2>3. (\A g \in Frames(tx) : f < g) /\ (\A g \in OnWire : f <= g)
    BY <1>1, <2>2 DEF NothingOvertakes
  <2>4. f < sent + 1
    BY <1>3, <2>2
  <2>5. QED
    BY <1>4, <2>3, <2>4
<1>7. LagBounded'
  <2>1. Oldest' = Oldest \/ Oldest' > Oldest
    <3>1. CASE rx # <<>> \/ shift # 0
      BY <1>2, <3>1 DEF Oldest
    <3>2. CASE rx = <<>> /\ shift = 0 /\ tx # <<>>
      <4>1. tx' # <<>> /\ Head(tx') = Head(tx)
        BY <1>1, <1>2, <1>3, <3>2, AppendHead DEF FifosOK
      <4>2. QED
        BY <1>2, <3>2, <4>1 DEF Oldest
    <3>3. CASE rx = <<>> /\ shift = 0 /\ tx = <<>>
      <4>1. Len(tx) = 0 /\ tx' = Append(tx, sent + 1)
        BY <1>2, <3>3, DepthAssumption
      <4>2. tx' # <<>> /\ Head(tx') = sent + 1
        BY <1>1, <1>3, <3>3, <4>1, AppendHead DEF FifosOK
      <4>3. QED
        BY <1>2, <3>3, <4>2 DEF Oldest
    <3>4. QED
      BY <3>1, <3>2, <3>3
  <2>2. Oldest \in Nat /\ Oldest' \in Nat
    <3>1. (FifosOK /\ FramesInOrder => FirstOfAll)'
      BY OldestIsFirst, PTL
    <3>2. QED
      BY <1>1, <1>5, <3>1, OldestIsFirst DEF FirstOfAll
  <2>3. Unanswered' \subseteq Unanswered \cup {sent + 1}
    BY <1>2, <1>3, <1>4, <2>1, <2>2 DEF Unanswered
  <2>4. /\ IsFiniteSet(Unanswered \cup {sent + 1})
        /\ Cardinality(Unanswered \cup {sent + 1}) =
              IF sent + 1 \in Unanswered THEN Cardinality(Unanswered) ELSE Cardinality(Unanswered) + 1
    BY <1>1, UnansweredIsFinite, FS_AddElement, Zenon
  <2>5. Cardinality(Unanswered) \in Nat
    BY <1>1, UnansweredIsFinite
  <2>6. /\ IsFiniteSet(Unanswered') /\ Cardinality(Unanswered') <= Cardinality(Unanswered \cup {sent + 1})
    BY <2>3, <2>4, FS_Subset
  <2>7. Cardinality(Unanswered') \in Nat
    BY <2>6, FS_CardinalityType
  <2>8. Cardinality(Unanswered) <= TxDepth + 1 + Debts
    BY DEF LagInv, LagBounded
  <2>9. QED
    BY <1>0, <2>4, <2>5, <2>6, <2>7, <2>8, DebtsType, DepthAssumption DEF LagBounded
<1>8. AnswerKnown' /\ AnswersAreRecent'
  <2>1. AnswerKnown /\ AnswerLagsBehind /\ TransmitReturnsNothingOld
    BY DEF LagInv, AnswersAreRecent
  <2>2. answer' = answer /\ lost' \subseteq lost \cup {sent + 1} /\ lost \subseteq lost'
    BY <1>2, <1>4
  <2>3. sent + 1 \notin answer.frame + 1 .. answer.sent
    BY <1>3, <2>1 DEF AnswerKnown
  <2>4. (answer.frame + 1 .. answer.sent) \ lost' = (answer.frame + 1 .. answer.sent) \ lost
    BY <2>2, <2>3
  <2>5. AnswerLagsBehind' /\ TransmitReturnsNothingOld'
    BY <2>1, <2>2, <2>4 DEF AnswerLagsBehind, TransmitReturnsNothingOld
  <2>6. AnswerKnown'
    BY <1>2, <1>3, <2>1, <2>2 DEF AnswerKnown
  <2>7. QED
    BY <2>5, <2>6 DEF AnswersAreRecent
<1>9. ASSUME NEW b \in Actors PROVE ReadsLater(b)'
  <2>1. Frames(rx') = Frames(rx) /\ \A g \in Frames(tx') \cup OnWire' : g \in Frames(tx) \cup OnWire \/ g = sent + 1
    BY <1>2, <1>4
  <2>2. CASE b # a
    <3>1. ReadsLater(b) /\ call[b] \in Calls
      BY DEF LagInv, IInv, CallsOK
    <3>2. /\ call'[b].op = call[b].op /\ call'[b].step = call[b].step
          /\ call'[b].arrived = call[b].arrived
      BY <1>0, <2>2
    <3>3. call[b].arrived \in Int
      BY <3>1 DEF Calls
    <3>4. QED
      BY <1>2, <1>3, <2>1, <3>1, <3>2, <3>3 DEF ReadsLater
  <2>3. CASE b = a
    <3>1. /\ Arrived \in Int /\ Arrived < sent + 1
          /\ \A g \in Frames(tx) \cup OnWire : Arrived < g
      <4>1. tx # <<>> => Head(tx) \in Frames(tx) /\ \A f \in Frames(tx) : Head(tx) <= f
        <5>1. ASSUME tx # <<>>
              PROVE  /\ Frames(tx) = {Head(tx)} \cup Frames(Tail(tx)) /\ Head(tx) \in Nat
                     /\ \A f \in Frames(Tail(tx)) : Head(tx) < f
          BY <1>1, <5>1, FirstFrame DEF FifosOK, FramesInOrder
        <5>2. \A f \in Frames(tx) : f \in Nat
          BY <1>3
        <5>3. QED
          BY <5>1, <5>2
      <4>2. tx = <<>> => Frames(tx) = {}
        BY <1>1, NoFrames DEF FifosOK
      <4>3. CASE shift # 0
        BY <1>1, <1>3, <4>3 DEF Arrived, OnWire, FramesInOrder
      <4>4. CASE shift = 0 /\ tx # <<>>
        BY <1>3, <4>1, <4>4 DEF Arrived, OnWire
      <4>5. CASE shift = 0 /\ tx = <<>>
        BY <1>3, <4>2, <4>5 DEF Arrived, OnWire
      <4>6. QED
        BY <4>3, <4>4, <4>5
    <3>2. QED
      BY <1>0, <1>2, <1>3, <2>1, <2>3, <3>1 DEF ReadsLater
  <2>4. QED
    BY <2>2, <2>3
<1>10. QED
  BY <1>5, <1>6, <1>7, <1>8, <1>9 DEF LagInv

\* Answers that are thrown away, and the end of the loop that does.
LEMMA DrainKeepsLag ==
    ASSUME IInv, LagInv, NEW a \in Actors, Drain(a)
    PROVE  LagInv'
<1>0. /\ FifosOK /\ FitsOK /\ CallsOK /\ FramesInOrder /\ NothingOvertakes /\ LagBounded
      /\ \A b \in Actors : ReadsLater(b)
      /\ UNCHANGED <<tx, shift, sent, lost, answer>>
      /\ AnswerKnown' /\ AnswersAreRecent'
  BY DEF IInv, LagInv, Drain, AnswerKnown, AnswersAreRecent, AnswerLagsBehind, TransmitReturnsNothingOld
<1>1. OnWire' = OnWire
  BY <1>0 DEF OnWire
<1>2. CASE rx # <<>>
  <2>1. rx' = Tail(rx) /\ call' = call /\ Debts' = Debts
    BY <1>2, DrainStep DEF Drain
  <2>2. /\ FramesInOrder' /\ NothingOvertakes' /\ Frames(rx)' \subseteq Frames(rx)
        /\ Cardinality(Unanswered)' <= Cardinality(Unanswered) - 1 /\ FifosOK'
    BY <1>0, <1>2, <2>1, TakesOldest
  <2>3. Cardinality(Unanswered) \in Nat /\ Cardinality(Unanswered)' \in Nat
    <3>1. (FifosOK /\ FramesInOrder => IsFiniteSet(Unanswered) /\ Cardinality(Unanswered) \in Nat)'
      BY UnansweredIsFinite, PTL
    <3>2. QED
      BY <1>0, <2>2, <3>1, UnansweredIsFinite
  <2>4. LagBounded'
    BY <1>0, <2>1, <2>2, <2>3, DebtsType, DepthAssumption DEF LagBounded
  <2>5. \A b \in Actors : ReadsLater(b)'
    BY <1>0, <1>1, <2>1, <2>2, LaterStays
  <2>6. QED
    BY <1>0, <2>2, <2>4, <2>5 DEF LagInv
<1>3. CASE rx = <<>>
  <2>1. rx' = rx
    BY <1>3 DEF Drain
  <2>2. FramesInOrder' /\ NothingOvertakes' /\ Oldest' = Oldest /\ Unanswered' = Unanswered
    BY <1>0, <1>1, <2>1 DEF FramesInOrder, NothingOvertakes, Oldest, Unanswered
  <2>3. LagBounded'
    <3>1. Cardinality(Unanswered) <= TxDepth + 1 /\ Cardinality(Unanswered) \in Nat
      BY <1>0, <1>3, OnlyOnTheirWay, UnansweredIsFinite
    <3>2. QED
      BY <2>2, <3>1, DebtsType, DepthAssumption DEF LagBounded
  <2>4. ASSUME NEW b \in Actors PROVE ReadsLater(b)'
    <3>1. /\ call'[a].op = "idle" \/ ~(call'[a].step >= 3)
             \/ (call[a].step = 3 /\ call'[a].arrived = call[a].arrived)
          /\ \A d \in Actors \ {a} : call'[d] = call[d]
      BY <1>3, DrainStep
    <3>2. CASE b # a
      BY <1>0, <1>1, <2>1, <3>1, <3>2, LaterStays
    <3>3. CASE b = a /\ (call'[a].op = "idle" \/ ~(call'[a].step >= 3))
      BY <3>3 DEF ReadsLater
    <3>4. CASE b = a /\ call[a].step = 3 /\ call'[a].arrived = call[a].arrived
      <4>1. call[a].op # "idle" /\ ReadsLater(a) /\ Frames(rx) = {}
        BY <1>0, <1>3, NoFrames DEF Drain, At, FifosOK
      <4>2. QED
        BY <1>0, <1>1, <2>1, <3>4, <4>1 DEF ReadsLater
    <3>5. QED
      BY <3>1, <3>2, <3>3, <3>4
  <2>5. QED
    BY <1>0, <2>2, <2>3, <2>4 DEF LagInv
<1>4. QED
  BY <1>2, <1>3

\* The answer that a call returns.
LEMMA ReadKeepsLag ==
    ASSUME IInv, LagInv, NEW a \in Actors, Read(a)
    PROVE  LagInv'
<1>0. /\ FifosOK /\ FitsOK /\ CallsOK /\ IsrOK /\ FramesInOrder /\ NothingOvertakes /\ LagBounded
      /\ \A b \in Actors : ReadsLater(b)
      /\ UNCHANGED <<tx, shift, sent, lost>> /\ At(a, "read")
      /\ answer' = [frame |-> IF rx = <<>> THEN 0 ELSE Head(rx), sent |-> sent,
                    arrived |-> call[a].arrived, op |-> call[a].op]
  BY DEF IInv, LagInv, Read
<1>1. /\ Debts' = Debts - 1
      /\ call'[a].op = "idle" \/ call'[a].step = 1
      /\ \A b \in Actors \ {a} : call'[b] = call[b]
  BY ReadStep
<1>2. OnWire' = OnWire /\ Frames(rx)' \subseteq Frames(rx)
  <2>1. rx = <<>> => rx' = rx
    BY DEF Read
  <2>2. rx # <<>> => rx' = Tail(rx)
    BY DEF Read
  <2>3. rx # <<>> => Frames(Tail(rx)) \subseteq Frames(rx)
    BY <1>0, FirstFrame DEF FifosOK, FramesInOrder
  <2>4. QED
    BY <1>0, <2>1, <2>2, <2>3 DEF OnWire
<1>3. \A b \in Actors : ReadsLater(b)'
  <2>1. ASSUME NEW b \in Actors, b # a PROVE ReadsLater(b)'
    BY <1>0, <1>1, <1>2, <2>1, LaterStays
  <2>2. ReadsLater(a)'
    BY <1>1 DEF ReadsLater
  <2>3. QED
    BY <2>1, <2>2
<1>4. CASE rx = <<>>
  <2>1. rx' = rx
    BY <1>4 DEF Read
  <2>2. FramesInOrder' /\ NothingOvertakes' /\ Oldest' = Oldest /\ Unanswered' = Unanswered
    BY <1>0, <1>2, <2>1 DEF FramesInOrder, NothingOvertakes, Oldest, Unanswered
  <2>3. LagBounded'
    <3>1. Cardinality(Unanswered) <= TxDepth + 1 /\ Cardinality(Unanswered) \in Nat
      BY <1>0, <1>4, OnlyOnTheirWay, UnansweredIsFinite
    <3>2. QED
      BY <2>2, <3>1, DebtsType, DepthAssumption DEF LagBounded
  <2>4. AnswerKnown' /\ AnswersAreRecent'
    BY <1>0, <1>4 DEF AnswerKnown, AnswersAreRecent, AnswerLagsBehind, TransmitReturnsNothingOld, FifosOK
  <2>5. QED
    BY <1>3, <2>2, <2>3, <2>4 DEF LagInv
<1>5. CASE rx # <<>>
  <2>1. rx' = Tail(rx)
    BY <1>5 DEF Read
  <2>2. /\ FramesInOrder' /\ NothingOvertakes' /\ FifosOK'
        /\ Cardinality(Unanswered)' <= Cardinality(Unanswered) - 1
        /\ Head(rx) \in 1 .. sent
        /\ Cardinality((Head(rx) + 1 .. sent) \ lost) <= Cardinality(Unanswered) - 1
    BY <1>0, <1>5, <2>1, TakesOldest
  <2>3. Cardinality(Unanswered) \in Nat /\ Cardinality(Unanswered)' \in Nat
    <3>1. (FifosOK /\ FramesInOrder => IsFiniteSet(Unanswered) /\ Cardinality(Unanswered) \in Nat)'
      BY UnansweredIsFinite, PTL
    <3>2. QED
      BY <1>0, <2>2, <3>1, UnansweredIsFinite
  <2>4. LagBounded'
    BY <1>0, <1>1, <2>2, <2>3, DebtsType, DepthAssumption DEF LagBounded
  <2>5. AnswerKnown'
    BY <1>0, <1>5, <2>2 DEF AnswerKnown, FifosOK
  <2>6. AnswerLagsBehind'
    <3>1. Debts <= IF IsrSends THEN 2 ELSE 1
      <4>1. ~IsrSends => Debt("isr") = 0
        BY <1>0 DEF IsrOK, Debt, Owes
      <4>2. Debt("main") \in {0, 1} /\ Debt("isr") \in {0, 1}
        BY DEF Debt
      <4>3. QED
        BY <4>1, <4>2 DEF Debts
    <3>2. Cardinality((Head(rx) + 1 .. sent) \ lost) \in Nat
      <4>1. IsFiniteSet(Head(rx) + 1 .. sent)
        BY <1>0, <2>2, FS_Interval DEF FifosOK
      <4>2. IsFiniteSet((Head(rx) + 1 .. sent) \ lost)
        BY <4>1, FS_Subset
      <4>3. QED
        BY <4>2, FS_CardinalityType
    <3>3. Cardinality((Head(rx) + 1 .. sent) \ lost) < TxDepth + (IF IsrSends THEN 3 ELSE 2)
      BY <1>0, <2>2, <2>3, <3>1, <3>2, DebtsType, DepthAssumption DEF LagBounded
    <3>4. answer'.frame = Head(rx) /\ answer'.sent = sent
      BY <1>0, <1>5
    <3>5. QED
      BY <1>0, <3>3, <3>4 DEF AnswerLagsBehind
  <2>7. TransmitReturnsNothingOld'
    <3>1. ASSUME call[a].op = "transmit" PROVE call[a].arrived < Head(rx)
      <4>1. call[a].step = 4
        <5>1. Turn("transmit") = <<"poll", "push", "drain", "read">>
          BY DEF Turn, spi_transmit
        <5>2. call[a].step \in 1 .. 4 /\ Turn("transmit")[call[a].step] = "read"
          BY <1>0, <3>1 DEF At, CallsOK, Calls
        <5>3. QED
          BY <5>1, <5>2
      <4>2. ReadsLater(a) /\ Head(rx) \in Frames(rx)
        BY <1>0, <1>5, FirstFrame DEF FifosOK, FramesInOrder
      <4>3. QED
        BY <3>1, <4>1, <4>2 DEF ReadsLater
    <3>2. call[a].arrived \in Int /\ Head(rx) \in Int
      BY <1>0, <2>2 DEF CallsOK, Calls
    <3>3. answer'.frame = Head(rx) /\ answer'.op = call[a].op /\ answer'.arrived = call[a].arrived
      BY <1>0, <1>5
    <3>4. QED
      BY <3>1, <3>2, <3>3 DEF TransmitReturnsNothingOld
  <2>8. QED
    BY <1>3, <2>2, <2>4, <2>5, <2>6, <2>7 DEF LagInv, AnswersAreRecent
<1>6. QED
  BY <1>4, <1>5

\* A frame goes from the FIFO to the wire, and its answer to the other FIFO.
LEMMA ControllerKeepsLag ==
    ASSUME IInv, LagInv, Load \/ Shift
    PROVE  LagInv'
<1>0. /\ FifosOK /\ FramesInOrder /\ NothingOvertakes /\ LagBounded
      /\ \A b \in Actors : ReadsLater(b)
      /\ UNCHANGED <<sent, lost, answer, call>>
      /\ AnswerKnown' /\ AnswersAreRecent' /\ Debts' = Debts /\ FifosOK'
  BY LoadStep, ShiftStep
     DEF IInv, LagInv, Load, Shift, AnswerKnown, AnswersAreRecent, AnswerLagsBehind, TransmitReturnsNothingOld
<1>1. /\ FramesInOrder' /\ NothingOvertakes'
      /\ Frames(tx') \cup OnWire' \subseteq Frames(tx) \cup OnWire
      /\ Frames(rx') \subseteq Frames(rx) \cup OnWire
      /\ rx = <<>> \/ (rx' # <<>> /\ Head(rx') = Head(rx))
      /\ rx = <<>> => \/ Oldest' = Oldest \/ Oldest' \in Frames(tx) \cup {sent + 1}
  <2>1. CASE Load
    <3>1. /\ Frames(tx) = {Head(tx)} \cup Frames(tx') /\ InOrder(tx')
          /\ \A f \in Frames(tx') : Head(tx) < f
          /\ Head(tx) \in Nat /\ rx' = rx /\ shift' = Head(tx) /\ shift = 0 /\ tx # <<>>
      BY <1>0, <2>1, FirstFrame DEF Load, FifosOK, FramesInOrder
    <3>2. Head(tx) # 0 /\ OnWire' = {Head(tx)} /\ OnWire = {}
      BY <3>1, <1>0 DEF OnWire, FramesInOrder
    <3>3. FramesInOrder'
      BY <1>0, <3>1, <3>2 DEF FramesInOrder
    <3>4. NothingOvertakes'
      <4>1. ASSUME NEW f \in (1 .. sent) \ lost, f \notin Frames(tx')
            PROVE  (\A g \in Frames(tx') : f < g) /\ f <= Head(tx)
        <5>1. f \in Nat
          BY <1>0, <4>1 DEF FifosOK
        <5>2. CASE f \in Frames(tx)
          BY <3>1, <4>1, <5>1, <5>2
        <5>3. CASE f \notin Frames(tx)
          BY <1>0, <3>1, <4>1, <5>1, <5>3 DEF NothingOvertakes
        <5>4. QED
          BY <5>2, <5>3
      <4>2. QED
        BY <1>0, <3>2, <4>1 DEF NothingOvertakes
    <3>5. rx = <<>> => Oldest' = Oldest
      BY <3>1, <3>2 DEF Oldest, OnWire
    <3>6. QED
      BY <3>1, <3>2, <3>3, <3>4, <3>5
  <2>2. CASE Shift
    <3>1. /\ shift # 0 /\ shift' = 0 /\ tx' = tx /\ OnWire' = {} /\ OnWire = {shift}
          /\ shift \in Nat
      BY <1>0, <2>2 DEF Shift, OnWire, FifosOK
    <3>2. \/ rx' = rx /\ Frames(rx') = Frames(rx) /\ InOrder(rx')
          \/ rx' = Append(rx, shift) /\ Frames(rx') = Frames(rx) \cup {shift} /\ InOrder(rx')
      <4>1. CASE rx' = rx
        BY <1>0, <4>1 DEF FramesInOrder
      <4>2. CASE rx' = Append(rx, shift)
        <5>1. \A f \in Frames(rx) : f < shift
          BY <1>0, <3>1 DEF FramesInOrder
        <5>2. QED
          BY <1>0, <3>1, <4>2, <5>1, OneFrameMore DEF FramesInOrder, FifosOK
      <4>3. QED
        BY <2>2, <4>1, <4>2 DEF Shift
    <3>3. FramesInOrder' /\ NothingOvertakes'
      <4>1. FramesInOrder'
        BY <1>0, <3>1, <3>2 DEF FramesInOrder
      <4>2. NothingOvertakes'
        BY <1>0, <3>1 DEF NothingOvertakes
      <4>3. QED
        BY <4>1, <4>2
    <3>4. rx = <<>> \/ (rx' # <<>> /\ Head(rx') = Head(rx))
      BY <1>0, <3>1, <3>2, AppendHead DEF FifosOK
    <3>5. ASSUME rx = <<>> PROVE Oldest' = Oldest \/ Oldest' \in Frames(tx) \cup {sent + 1}
      <4>1. CASE rx' = rx
        <5>1. tx # <<>> => Head(tx) \in Frames(tx)
          BY <1>0, FirstFrame DEF FifosOK, FramesInOrder
        <5>2. QED
          BY <1>0, <3>1, <3>5, <4>1, <5>1 DEF Oldest
      <4>2. CASE rx' = Append(rx, shift)
        <5>1. rx' # <<>> /\ Head(rx') = shift
          BY <1>0, <3>1, <3>5, <4>2, AppendHead DEF FifosOK
        <5>2. QED
          BY <3>1, <3>5, <5>1 DEF Oldest
      <4>3. QED
        BY <3>2, <4>1, <4>2
    <3>6. QED
      BY <3>1, <3>2, <3>3, <3>4, <3>5
  <2>3. QED
    BY <2>1, <2>2
<1>2. Oldest \in Nat /\ Oldest' \in Nat /\ Oldest <= Oldest'
  <2>1. (FifosOK /\ FramesInOrder => FirstOfAll)'
    BY OldestIsFirst, PTL
  <2>2. FirstOfAll /\ FirstOfAll'
    BY <1>0, <1>1, <2>1, OldestIsFirst
  <2>3. rx # <<>> => Oldest' = Oldest
    BY <1>1 DEF Oldest
  <2>4. QED
    BY <1>1, <2>2, <2>3 DEF FirstOfAll
<1>3. LagBounded'
  <2>1. Unanswered' \subseteq Unanswered
    BY <1>0, <1>2 DEF Unanswered, FifosOK
  <2>2. IsFiniteSet(Unanswered) /\ Cardinality(Unanswered) \in Nat
    BY <1>0, UnansweredIsFinite
  <2>3. IsFiniteSet(Unanswered') /\ Cardinality(Unanswered') <= Cardinality(Unanswered)
    BY <2>1, <2>2, FS_Subset
  <2>4. Cardinality(Unanswered') \in Nat
    BY <2>3, FS_CardinalityType
  <2>5. QED
    BY <1>0, <2>2, <2>3, <2>4, DebtsType, DepthAssumption DEF LagBounded
<1>4. ASSUME NEW b \in Actors PROVE ReadsLater(b)'
  BY <1>0, <1>1 DEF ReadsLater
<1>5. QED
  BY <1>0, <1>1, <1>3, <1>4 DEF LagInv

\* Every step keeps the frames in order and the lag within bounds.
THEOREM LagInductive == Spec => []LagInv
<1>1. Init => LagInv
  <2> SUFFICES ASSUME Init PROVE LagInv
    OBVIOUS
  <2>1. Frames(tx) = {} /\ Frames(rx) = {} /\ OnWire = {} /\ InOrder(tx) /\ InOrder(rx)
    BY DEF Init, Frames, OnWire, InOrder
  <2>2. FramesInOrder /\ NothingOvertakes
    BY <2>1 DEF Init, FramesInOrder, NothingOvertakes
  <2>3. LagBounded
    <3>1. Unanswered = {}
      BY DEF Init, Unanswered, Oldest
    <3>2. QED
      BY <3>1, FS_EmptySet, DebtsType, DepthAssumption DEF LagBounded
  <2>4. AnswerKnown /\ AnswersAreRecent
    BY DEF Init, NoAnswer, AnswerKnown, AnswersAreRecent, AnswerLagsBehind, TransmitReturnsNothingOld
  <2>5. \A a \in Actors : ReadsLater(a)
    BY DEF Init, NoCall, ReadsLater
  <2>6. QED
    BY <2>2, <2>3, <2>4, <2>5 DEF LagInv
<1>2. IInv /\ LagInv /\ [Next]_vars => LagInv'
  <2> SUFFICES ASSUME IInv, LagInv, [Next]_vars PROVE LagInv'
    OBVIOUS
  <2>1. ASSUME UNCHANGED <<wire, call, answer>> PROVE LagInv'
    <3>1. Debts' = Debts
      BY <2>1 DEF Debts, Debt
    <3>2. QED
      BY <2>1, <3>1, CallsKeepLag DEF wire
  <2>2. CASE UNCHANGED vars \/ spi_init \/ spi_set_cs \/ spi_close
    BY <2>1, <2>2 DEF vars, wire, spi_init, spi_set_cs, spi_close
  <2>3. ASSUME NEW a \in Actors, NEW op \in Busy, NEW size \in Nat, Call(a, op, size), a = "isr" => IsrSends
        PROVE LagInv'
    <3>1. /\ Debts' = Debts /\ call'[a].step = 1
          /\ \A b \in Actors \ {a} : call'[b] = call[b]
      BY <2>3, CallStep
    <3>2. UNCHANGED <<tx, rx, shift, sent, lost, answer>>
      BY <2>3 DEF Call, wire
    <3>3. QED
      BY <3>1, <3>2, CallsKeepLag
  <2>4. CASE Foreground
    <3>1. {"send", "receive", "transmit", "send_multiple", "receive_multiple"} \subseteq Busy
      BY DEF Busy, Ops
    <3>2. CASE \E op \in {"send", "receive"} : Call("main", op, 1)
      BY <2>3, <3>1, <3>2 DEF Actors
    <3>3. CASE \E op \in {"transmit", "send_multiple", "receive_multiple"}, n \in Sizes : Call("main", op, n)
      BY <2>3, <3>1, <3>3, SizesAssumption DEF Actors
    <3>4. QED
      BY <2>4, <3>2, <3>3 DEF Foreground
  <2>5. CASE Trap
    BY <2>3, <2>5 DEF Busy, Ops, Trap, Actors
  <2>6. ASSUME NEW a \in Actors, Poll(a) PROVE LagInv'
    <3>1. /\ Debts' = Debts /\ call'[a].step = 2
          /\ \A b \in Actors \ {a} : call'[b] = call[b]
      BY <2>6, PollStep
    <3>2. UNCHANGED <<tx, rx, shift, sent, lost, answer>>
      BY <2>6 DEF Poll, wire
    <3>3. QED
      BY <3>1, <3>2, CallsKeepLag
  <2>7. CASE \E a \in Actors : Step(a) \/ AtTheBound(a)
    <3>1. CASE \E a \in Actors : Step(a)
      BY <2>6, <3>1, PushKeepsLag, DrainKeepsLag, ReadKeepsLag DEF Step
    <3>2. CASE UNCHANGED vars
      BY <2>2, <3>2
    <3>3. QED
      BY <2>7, <3>1, <3>2 DEF AtTheBound
  <2>8. CASE Load \/ Shift
    BY <2>8, ControllerKeepsLag
  <2>9. QED
    BY <2>2, <2>4, <2>5, <2>7, <2>8 DEF Next
<1>3. QED
  BY <1>1, <1>2, BacklogInvariant, PTL DEF Spec

(* spi.h:290-405: for FIFOs of any depth, also when answers are dropped or    *)
(* the direction keeps them away, what a call returns answers one of the      *)
(* last TxDepth + 2 frames (+ 3 with a service routine), and what             *)
(* spi_transmit returns had not arrived before.                              *)
THEOREM AnswersStayRecent == Spec => []AnswersAreRecent
<1>1. LagInv => AnswersAreRecent
  BY DEF LagInv
<1>2. QED
  BY <1>1, LagInductive, PTL
=============================================================================
