--------------------------- MODULE SessionProofs ----------------------------
(***************************************************************************)
(* Theorems about Session, for every number of peers, requests and         *)
(* exchanges. This module: the types; what every action does, in the terms *)
(* of the invariant; and what the steps of the user and the driver keep of *)
(* the link that their peer uses.                                          *)
(*                                                                         *)
(* The tasks are a bag of sequences, which provers find hard: they are     *)
(* dealt with once, in the lemmas of the first sections. From there on a   *)
(* task is the job it does, and a step replaces one job by others.         *)
(***************************************************************************)
EXTENDS SessionInvariant, SessionProps, TLAPS, SequenceTheorems

-----------------------------------------------------------------------------
(* Tasks                                                                   *)

\* Bags of tasks and of sockets.
LEMMA BagAddIs ==
    ASSUME NEW B, BagOK(B), NEW x
    PROVE  /\ DOMAIN BagAdd(B, x) = DOMAIN B \cup {x}
           /\ \A y \in DOMAIN B : y # x => BagAdd(B, x)[y] = B[y]
           /\ x \notin DOMAIN B => BagAdd(B, x)[x] = 1
           /\ BagOK(BagAdd(B, x))
  BY DEF BagAdd, BagOK

LEMMA BagRemoveIs ==
    ASSUME NEW B, BagOK(B), NEW x \in DOMAIN B
    PROVE  /\ DOMAIN BagRemove(B, x) \in {DOMAIN B, DOMAIN B \ {x}}
           /\ B[x] = 1 => DOMAIN BagRemove(B, x) = DOMAIN B \ {x}
           /\ \A y \in DOMAIN B : y # x => BagRemove(B, x)[y] = B[y]
           /\ BagOK(BagRemove(B, x))
  BY DEF BagRemove, BagOK

LEMMA BagPlusIs ==
    ASSUME NEW B, BagOK(B), NEW S
    PROVE  /\ DOMAIN (B (+) SetToBag(S)) = DOMAIN B \cup S
           /\ \A y \in DOMAIN B \ S : (B (+) SetToBag(S))[y] = B[y]
           /\ \A y \in S \ DOMAIN B : (B (+) SetToBag(S))[y] = 1
           /\ BagOK(B (+) SetToBag(S))
  BY DEF (+), SetToBag, BagOK

\* The step after step in a task with that aim.
StepAfter(step, aim) ==
    IF step = "dial" THEN "exchange"
    ELSE IF step = "exchange" THEN "connect"
    ELSE IF step = "connect" THEN "recvMsg"
    ELSE IF step = "accept" THEN "initHigh"
    ELSE IF step \in {"reject", "cancel"} THEN "reset"
    ELSE IF step = "reset" /\ aim \in {"unconnected", "again"} THEN "lost"
    ELSE aim

\* The steps that tasks are at, with the steps they end with.
Kinds == {<<"dial", "request">>, <<"exchange", "request">>, <<"connect", "request">>,
          <<"recvMsg", "request">>, <<"request", "request">>,
          <<"accept", "statusOn">>, <<"initHigh", "statusOn">>, <<"initLow", "statusOn">>,
          <<"statusOn", "statusOn">>,
          <<"reject", "statusOff">>, <<"reset", "statusOff">>, <<"statusOff", "statusOff">>,
          <<"cancel", "reset">>, <<"reset", "reset">>, <<"reset", "close">>, <<"close", "close">>,
          <<"reset", "unconnected">>, <<"lost", "unconnected">>, <<"unconnected", "unconnected">>,
          <<"reset", "again">>, <<"lost", "again">>, <<"again", "again">>, <<"ready", "ready">>,
          <<"recvMsg", "established">>, <<"established", "established">>,
          <<"listen", "started">>, <<"started", "started">>, <<"stop", "stop">>,
          <<"initFileSenders", "initFileSenders">>}

\* What is left of a handler after a step is what is left of a handler.
LEMMA PlanIs ==
    ASSUME NEW s \in Plans
    PROVE  /\ <<Head(s), s[Len(s)]>> \in Kinds
           /\ Len(s) = 1 <=> Head(s) = s[Len(s)]
           /\ Len(s) # 1 => /\ Tail(s) \in Plans
                            /\ Head(Tail(s)) = StepAfter(Head(s), s[Len(s)])
                            /\ Tail(s)[Len(Tail(s))] = s[Len(s)]
                            /\ Tail(s) # s
<1> DEFINE u == Tail(s)
<1> HIDE DEF u
<1> SUFFICES /\ <<Head(s), s[Len(s)]>> \in Kinds
             /\ Len(s) = 1 <=> Head(s) = s[Len(s)]
             /\ Len(s) # 1 => /\ u \in Plans
                              /\ Head(u) = StepAfter(Head(s), s[Len(s)])
                              /\ u[Len(u)] = s[Len(s)]
                              /\ u # s
  BY DEF u
<1>1. CASE s = <<"dial", "exchange", "connect", "recvMsg", "request">>
  <2>1. Head(s) = "dial" /\ Len(s) = 5 /\ s[5] = "request"
    BY <1>1
  <2>2. u = <<"exchange", "connect", "recvMsg", "request">>
    BY <1>1 DEF u
  <2>3. Head(u) = "exchange" /\ Len(u) = 4 /\ u[4] = "request"
    BY <2>2
  <2>7. u # s
    BY <2>1, <2>3
  <2>4. u \in Plans
    BY <2>2 DEF Plans
  <2>5. <<Head(s), s[Len(s)]>> \in Kinds
    BY <2>1 DEF Kinds
  <2>6. StepAfter(Head(s), s[Len(s)]) = Head(u)
    BY <2>1, <2>3 DEF StepAfter
  <2> QED
    BY <2>1, <2>3, <2>4, <2>5, <2>6, <2>7
<1>2. CASE s = <<"exchange", "connect", "recvMsg", "request">>
  <2>1. Head(s) = "exchange" /\ Len(s) = 4 /\ s[4] = "request"
    BY <1>2
  <2>2. u = <<"connect", "recvMsg", "request">>
    BY <1>2 DEF u
  <2>3. Head(u) = "connect" /\ Len(u) = 3 /\ u[3] = "request"
    BY <2>2
  <2>7. u # s
    BY <2>1, <2>3
  <2>4. u \in Plans
    BY <2>2 DEF Plans
  <2>5. <<Head(s), s[Len(s)]>> \in Kinds
    BY <2>1 DEF Kinds
  <2>6. StepAfter(Head(s), s[Len(s)]) = Head(u)
    BY <2>1, <2>3 DEF StepAfter
  <2> QED
    BY <2>1, <2>3, <2>4, <2>5, <2>6, <2>7
<1>3. CASE s = <<"connect", "recvMsg", "request">>
  <2>1. Head(s) = "connect" /\ Len(s) = 3 /\ s[3] = "request"
    BY <1>3
  <2>2. u = <<"recvMsg", "request">>
    BY <1>3 DEF u
  <2>3. Head(u) = "recvMsg" /\ Len(u) = 2 /\ u[2] = "request"
    BY <2>2
  <2>7. u # s
    BY <2>1, <2>3
  <2>4. u \in Plans
    BY <2>2 DEF Plans
  <2>5. <<Head(s), s[Len(s)]>> \in Kinds
    BY <2>1 DEF Kinds
  <2>6. StepAfter(Head(s), s[Len(s)]) = Head(u)
    BY <2>1, <2>3 DEF StepAfter
  <2> QED
    BY <2>1, <2>3, <2>4, <2>5, <2>6, <2>7
<1>4. CASE s = <<"recvMsg", "request">>
  <2>1. Head(s) = "recvMsg" /\ Len(s) = 2 /\ s[2] = "request"
    BY <1>4
  <2>2. u = <<"request">>
    BY <1>4 DEF u
  <2>3. Head(u) = "request" /\ Len(u) = 1 /\ u[1] = "request"
    BY <2>2
  <2>7. u # s
    BY <2>1, <2>3
  <2>4. u \in Plans
    BY <2>2 DEF Plans
  <2>5. <<Head(s), s[Len(s)]>> \in Kinds
    BY <2>1 DEF Kinds
  <2>6. StepAfter(Head(s), s[Len(s)]) = Head(u)
    BY <2>1, <2>3 DEF StepAfter
  <2> QED
    BY <2>1, <2>3, <2>4, <2>5, <2>6, <2>7
<1>5. CASE s = <<"request">>
  <2>1. Head(s) = "request" /\ Len(s) = 1 /\ s[1] = "request"
    BY <1>5
  <2> QED
    BY <2>1 DEF Kinds
<1>6. CASE s = <<"accept", "initHigh", "statusOn">>
  <2>1. Head(s) = "accept" /\ Len(s) = 3 /\ s[3] = "statusOn"
    BY <1>6
  <2>2. u = <<"initHigh", "statusOn">>
    BY <1>6 DEF u
  <2>3. Head(u) = "initHigh" /\ Len(u) = 2 /\ u[2] = "statusOn"
    BY <2>2
  <2>7. u # s
    BY <2>1, <2>3
  <2>4. u \in Plans
    BY <2>2 DEF Plans
  <2>5. <<Head(s), s[Len(s)]>> \in Kinds
    BY <2>1 DEF Kinds
  <2>6. StepAfter(Head(s), s[Len(s)]) = Head(u)
    BY <2>1, <2>3 DEF StepAfter
  <2> QED
    BY <2>1, <2>3, <2>4, <2>5, <2>6, <2>7
<1>7. CASE s = <<"initHigh", "statusOn">>
  <2>1. Head(s) = "initHigh" /\ Len(s) = 2 /\ s[2] = "statusOn"
    BY <1>7
  <2>2. u = <<"statusOn">>
    BY <1>7 DEF u
  <2>3. Head(u) = "statusOn" /\ Len(u) = 1 /\ u[1] = "statusOn"
    BY <2>2
  <2>7. u # s
    BY <2>1, <2>3
  <2>4. u \in Plans
    BY <2>2 DEF Plans
  <2>5. <<Head(s), s[Len(s)]>> \in Kinds
    BY <2>1 DEF Kinds
  <2>6. StepAfter(Head(s), s[Len(s)]) = Head(u)
    BY <2>1, <2>3 DEF StepAfter
  <2> QED
    BY <2>1, <2>3, <2>4, <2>5, <2>6, <2>7
<1>8. CASE s = <<"initLow", "statusOn">>
  <2>1. Head(s) = "initLow" /\ Len(s) = 2 /\ s[2] = "statusOn"
    BY <1>8
  <2>2. u = <<"statusOn">>
    BY <1>8 DEF u
  <2>3. Head(u) = "statusOn" /\ Len(u) = 1 /\ u[1] = "statusOn"
    BY <2>2
  <2>7. u # s
    BY <2>1, <2>3
  <2>4. u \in Plans
    BY <2>2 DEF Plans
  <2>5. <<Head(s), s[Len(s)]>> \in Kinds
    BY <2>1 DEF Kinds
  <2>6. StepAfter(Head(s), s[Len(s)]) = Head(u)
    BY <2>1, <2>3 DEF StepAfter
  <2> QED
    BY <2>1, <2>3, <2>4, <2>5, <2>6, <2>7
<1>9. CASE s = <<"statusOn">>
  <2>1. Head(s) = "statusOn" /\ Len(s) = 1 /\ s[1] = "statusOn"
    BY <1>9
  <2> QED
    BY <2>1 DEF Kinds
<1>10. CASE s = <<"reject", "reset", "statusOff">>
  <2>1. Head(s) = "reject" /\ Len(s) = 3 /\ s[3] = "statusOff"
    BY <1>10
  <2>2. u = <<"reset", "statusOff">>
    BY <1>10 DEF u
  <2>3. Head(u) = "reset" /\ Len(u) = 2 /\ u[2] = "statusOff"
    BY <2>2
  <2>7. u # s
    BY <2>1, <2>3
  <2>4. u \in Plans
    BY <2>2 DEF Plans
  <2>5. <<Head(s), s[Len(s)]>> \in Kinds
    BY <2>1 DEF Kinds
  <2>6. StepAfter(Head(s), s[Len(s)]) = Head(u)
    BY <2>1, <2>3 DEF StepAfter
  <2> QED
    BY <2>1, <2>3, <2>4, <2>5, <2>6, <2>7
<1>11. CASE s = <<"reset", "statusOff">>
  <2>1. Head(s) = "reset" /\ Len(s) = 2 /\ s[2] = "statusOff"
    BY <1>11
  <2>2. u = <<"statusOff">>
    BY <1>11 DEF u
  <2>3. Head(u) = "statusOff" /\ Len(u) = 1 /\ u[1] = "statusOff"
    BY <2>2
  <2>7. u # s
    BY <2>1, <2>3
  <2>4. u \in Plans
    BY <2>2 DEF Plans
  <2>5. <<Head(s), s[Len(s)]>> \in Kinds
    BY <2>1 DEF Kinds
  <2>6. StepAfter(Head(s), s[Len(s)]) = Head(u)
    BY <2>1, <2>3 DEF StepAfter
  <2> QED
    BY <2>1, <2>3, <2>4, <2>5, <2>6, <2>7
<1>12. CASE s = <<"statusOff">>
  <2>1. Head(s) = "statusOff" /\ Len(s) = 1 /\ s[1] = "statusOff"
    BY <1>12
  <2> QED
    BY <2>1 DEF Kinds
<1>13. CASE s = <<"cancel", "reset">>
  <2>1. Head(s) = "cancel" /\ Len(s) = 2 /\ s[2] = "reset"
    BY <1>13
  <2>2. u = <<"reset">>
    BY <1>13 DEF u
  <2>3. Head(u) = "reset" /\ Len(u) = 1 /\ u[1] = "reset"
    BY <2>2
  <2>7. u # s
    BY <2>1, <2>3
  <2>4. u \in Plans
    BY <2>2 DEF Plans
  <2>5. <<Head(s), s[Len(s)]>> \in Kinds
    BY <2>1 DEF Kinds
  <2>6. StepAfter(Head(s), s[Len(s)]) = Head(u)
    BY <2>1, <2>3 DEF StepAfter
  <2> QED
    BY <2>1, <2>3, <2>4, <2>5, <2>6, <2>7
<1>14. CASE s = <<"reset">>
  <2>1. Head(s) = "reset" /\ Len(s) = 1 /\ s[1] = "reset"
    BY <1>14
  <2> QED
    BY <2>1 DEF Kinds
<1>15. CASE s = <<"reset", "close">>
  <2>1. Head(s) = "reset" /\ Len(s) = 2 /\ s[2] = "close"
    BY <1>15
  <2>2. u = <<"close">>
    BY <1>15 DEF u
  <2>3. Head(u) = "close" /\ Len(u) = 1 /\ u[1] = "close"
    BY <2>2
  <2>7. u # s
    BY <2>1, <2>3
  <2>4. u \in Plans
    BY <2>2 DEF Plans
  <2>5. <<Head(s), s[Len(s)]>> \in Kinds
    BY <2>1 DEF Kinds
  <2>6. StepAfter(Head(s), s[Len(s)]) = Head(u)
    BY <2>1, <2>3 DEF StepAfter
  <2> QED
    BY <2>1, <2>3, <2>4, <2>5, <2>6, <2>7
<1>16. CASE s = <<"close">>
  <2>1. Head(s) = "close" /\ Len(s) = 1 /\ s[1] = "close"
    BY <1>16
  <2> QED
    BY <2>1 DEF Kinds
<1>17. CASE s = <<"reset", "lost", "unconnected">>
  <2>1. Head(s) = "reset" /\ Len(s) = 3 /\ s[3] = "unconnected"
    BY <1>17
  <2>2. u = <<"lost", "unconnected">>
    BY <1>17 DEF u
  <2>3. Head(u) = "lost" /\ Len(u) = 2 /\ u[2] = "unconnected"
    BY <2>2
  <2>7. u # s
    BY <2>1, <2>3
  <2>4. u \in Plans
    BY <2>2 DEF Plans
  <2>5. <<Head(s), s[Len(s)]>> \in Kinds
    BY <2>1 DEF Kinds
  <2>6. StepAfter(Head(s), s[Len(s)]) = Head(u)
    BY <2>1, <2>3 DEF StepAfter
  <2> QED
    BY <2>1, <2>3, <2>4, <2>5, <2>6, <2>7
<1>18. CASE s = <<"lost", "unconnected">>
  <2>1. Head(s) = "lost" /\ Len(s) = 2 /\ s[2] = "unconnected"
    BY <1>18
  <2>2. u = <<"unconnected">>
    BY <1>18 DEF u
  <2>3. Head(u) = "unconnected" /\ Len(u) = 1 /\ u[1] = "unconnected"
    BY <2>2
  <2>7. u # s
    BY <2>1, <2>3
  <2>4. u \in Plans
    BY <2>2 DEF Plans
  <2>5. <<Head(s), s[Len(s)]>> \in Kinds
    BY <2>1 DEF Kinds
  <2>6. StepAfter(Head(s), s[Len(s)]) = Head(u)
    BY <2>1, <2>3 DEF StepAfter
  <2> QED
    BY <2>1, <2>3, <2>4, <2>5, <2>6, <2>7
<1>19. CASE s = <<"unconnected">>
  <2>1. Head(s) = "unconnected" /\ Len(s) = 1 /\ s[1] = "unconnected"
    BY <1>19
  <2> QED
    BY <2>1 DEF Kinds
<1>20. CASE s = <<"reset", "lost", "again">>
  <2>1. Head(s) = "reset" /\ Len(s) = 3 /\ s[3] = "again"
    BY <1>20
  <2>2. u = <<"lost", "again">>
    BY <1>20 DEF u
  <2>3. Head(u) = "lost" /\ Len(u) = 2 /\ u[2] = "again"
    BY <2>2
  <2>7. u # s
    BY <2>1, <2>3
  <2>4. u \in Plans
    BY <2>2 DEF Plans
  <2>5. <<Head(s), s[Len(s)]>> \in Kinds
    BY <2>1 DEF Kinds
  <2>6. StepAfter(Head(s), s[Len(s)]) = Head(u)
    BY <2>1, <2>3 DEF StepAfter
  <2> QED
    BY <2>1, <2>3, <2>4, <2>5, <2>6, <2>7
<1>21. CASE s = <<"lost", "again">>
  <2>1. Head(s) = "lost" /\ Len(s) = 2 /\ s[2] = "again"
    BY <1>21
  <2>2. u = <<"again">>
    BY <1>21 DEF u
  <2>3. Head(u) = "again" /\ Len(u) = 1 /\ u[1] = "again"
    BY <2>2
  <2>7. u # s
    BY <2>1, <2>3
  <2>4. u \in Plans
    BY <2>2 DEF Plans
  <2>5. <<Head(s), s[Len(s)]>> \in Kinds
    BY <2>1 DEF Kinds
  <2>6. StepAfter(Head(s), s[Len(s)]) = Head(u)
    BY <2>1, <2>3 DEF StepAfter
  <2> QED
    BY <2>1, <2>3, <2>4, <2>5, <2>6, <2>7
<1>22. CASE s = <<"again">>
  <2>1. Head(s) = "again" /\ Len(s) = 1 /\ s[1] = "again"
    BY <1>22
  <2> QED
    BY <2>1 DEF Kinds
<1>23. CASE s = <<"ready">>
  <2>1. Head(s) = "ready" /\ Len(s) = 1 /\ s[1] = "ready"
    BY <1>23
  <2> QED
    BY <2>1 DEF Kinds
<1>24. CASE s = <<"recvMsg", "established">>
  <2>1. Head(s) = "recvMsg" /\ Len(s) = 2 /\ s[2] = "established"
    BY <1>24
  <2>2. u = <<"established">>
    BY <1>24 DEF u
  <2>3. Head(u) = "established" /\ Len(u) = 1 /\ u[1] = "established"
    BY <2>2
  <2>7. u # s
    BY <2>1, <2>3
  <2>4. u \in Plans
    BY <2>2 DEF Plans
  <2>5. <<Head(s), s[Len(s)]>> \in Kinds
    BY <2>1 DEF Kinds
  <2>6. StepAfter(Head(s), s[Len(s)]) = Head(u)
    BY <2>1, <2>3 DEF StepAfter
  <2> QED
    BY <2>1, <2>3, <2>4, <2>5, <2>6, <2>7
<1>25. CASE s = <<"established">>
  <2>1. Head(s) = "established" /\ Len(s) = 1 /\ s[1] = "established"
    BY <1>25
  <2> QED
    BY <2>1 DEF Kinds
<1>26. CASE s = <<"listen", "started">>
  <2>1. Head(s) = "listen" /\ Len(s) = 2 /\ s[2] = "started"
    BY <1>26
  <2>2. u = <<"started">>
    BY <1>26 DEF u
  <2>3. Head(u) = "started" /\ Len(u) = 1 /\ u[1] = "started"
    BY <2>2
  <2>7. u # s
    BY <2>1, <2>3
  <2>4. u \in Plans
    BY <2>2 DEF Plans
  <2>5. <<Head(s), s[Len(s)]>> \in Kinds
    BY <2>1 DEF Kinds
  <2>6. StepAfter(Head(s), s[Len(s)]) = Head(u)
    BY <2>1, <2>3 DEF StepAfter
  <2> QED
    BY <2>1, <2>3, <2>4, <2>5, <2>6, <2>7
<1>27. CASE s = <<"started">>
  <2>1. Head(s) = "started" /\ Len(s) = 1 /\ s[1] = "started"
    BY <1>27
  <2> QED
    BY <2>1 DEF Kinds
<1>28. CASE s = <<"stop">>
  <2>1. Head(s) = "stop" /\ Len(s) = 1 /\ s[1] = "stop"
    BY <1>28
  <2> QED
    BY <2>1 DEF Kinds
<1>29. CASE s = <<"initFileSenders">>
  <2>1. Head(s) = "initFileSenders" /\ Len(s) = 1 /\ s[1] = "initFileSenders"
    BY <1>29
  <2> QED
    BY <2>1 DEF Kinds
<1> QED
  BY <1>1, <1>2, <1>3, <1>4, <1>5, <1>6, <1>7, <1>8, <1>9, <1>10, <1>11, <1>12, <1>13, <1>14, <1>15, <1>16, <1>17, <1>18, <1>19, <1>20, <1>21, <1>22, <1>23, <1>24, <1>25, <1>26, <1>27, <1>28, <1>29 DEF Plans

\* Of two tasks at the same step, for the same end, the same is left.
LEMMA PlanOfKind ==
    ASSUME NEW s \in Plans, NEW u \in Plans, Head(s) = Head(u), s[Len(s)] = u[Len(u)]
    PROVE  s = u
<1>1. CASE s = <<"dial", "exchange", "connect", "recvMsg", "request">>
  <2>1. Head(s) = "dial" /\ Len(s) = 5 /\ s[5] = "request"
    BY <1>1
  <2>2. u = s
    BY <1>1, <2>1 DEF Plans
  <2> QED
    BY <2>2
<1>2. CASE s = <<"exchange", "connect", "recvMsg", "request">>
  <2>1. Head(s) = "exchange" /\ Len(s) = 4 /\ s[4] = "request"
    BY <1>2
  <2>2. u = s
    BY <1>2, <2>1 DEF Plans
  <2> QED
    BY <2>2
<1>3. CASE s = <<"connect", "recvMsg", "request">>
  <2>1. Head(s) = "connect" /\ Len(s) = 3 /\ s[3] = "request"
    BY <1>3
  <2>2. u = s
    BY <1>3, <2>1 DEF Plans
  <2> QED
    BY <2>2
<1>4. CASE s = <<"recvMsg", "request">>
  <2>1. Head(s) = "recvMsg" /\ Len(s) = 2 /\ s[2] = "request"
    BY <1>4
  <2>2. u = s
    BY <1>4, <2>1 DEF Plans
  <2> QED
    BY <2>2
<1>5. CASE s = <<"request">>
  <2>1. Head(s) = "request" /\ Len(s) = 1 /\ s[1] = "request"
    BY <1>5
  <2>2. u = s
    BY <1>5, <2>1 DEF Plans
  <2> QED
    BY <2>2
<1>6. CASE s = <<"accept", "initHigh", "statusOn">>
  <2>1. Head(s) = "accept" /\ Len(s) = 3 /\ s[3] = "statusOn"
    BY <1>6
  <2>2. u = s
    BY <1>6, <2>1 DEF Plans
  <2> QED
    BY <2>2
<1>7. CASE s = <<"initHigh", "statusOn">>
  <2>1. Head(s) = "initHigh" /\ Len(s) = 2 /\ s[2] = "statusOn"
    BY <1>7
  <2>2. u = s
    BY <1>7, <2>1 DEF Plans
  <2> QED
    BY <2>2
<1>8. CASE s = <<"initLow", "statusOn">>
  <2>1. Head(s) = "initLow" /\ Len(s) = 2 /\ s[2] = "statusOn"
    BY <1>8
  <2>2. u = s
    BY <1>8, <2>1 DEF Plans
  <2> QED
    BY <2>2
<1>9. CASE s = <<"statusOn">>
  <2>1. Head(s) = "statusOn" /\ Len(s) = 1 /\ s[1] = "statusOn"
    BY <1>9
  <2>2. u = s
    BY <1>9, <2>1 DEF Plans
  <2> QED
    BY <2>2
<1>10. CASE s = <<"reject", "reset", "statusOff">>
  <2>1. Head(s) = "reject" /\ Len(s) = 3 /\ s[3] = "statusOff"
    BY <1>10
  <2>2. u = s
    BY <1>10, <2>1 DEF Plans
  <2> QED
    BY <2>2
<1>11. CASE s = <<"reset", "statusOff">>
  <2>1. Head(s) = "reset" /\ Len(s) = 2 /\ s[2] = "statusOff"
    BY <1>11
  <2>2. u = s
    BY <1>11, <2>1 DEF Plans
  <2> QED
    BY <2>2
<1>12. CASE s = <<"statusOff">>
  <2>1. Head(s) = "statusOff" /\ Len(s) = 1 /\ s[1] = "statusOff"
    BY <1>12
  <2>2. u = s
    BY <1>12, <2>1 DEF Plans
  <2> QED
    BY <2>2
<1>13. CASE s = <<"cancel", "reset">>
  <2>1. Head(s) = "cancel" /\ Len(s) = 2 /\ s[2] = "reset"
    BY <1>13
  <2>2. u = s
    BY <1>13, <2>1 DEF Plans
  <2> QED
    BY <2>2
<1>14. CASE s = <<"reset">>
  <2>1. Head(s) = "reset" /\ Len(s) = 1 /\ s[1] = "reset"
    BY <1>14
  <2>2. u = s
    BY <1>14, <2>1 DEF Plans
  <2> QED
    BY <2>2
<1>15. CASE s = <<"reset", "close">>
  <2>1. Head(s) = "reset" /\ Len(s) = 2 /\ s[2] = "close"
    BY <1>15
  <2>2. u = s
    BY <1>15, <2>1 DEF Plans
  <2> QED
    BY <2>2
<1>16. CASE s = <<"close">>
  <2>1. Head(s) = "close" /\ Len(s) = 1 /\ s[1] = "close"
    BY <1>16
  <2>2. u = s
    BY <1>16, <2>1 DEF Plans
  <2> QED
    BY <2>2
<1>17. CASE s = <<"reset", "lost", "unconnected">>
  <2>1. Head(s) = "reset" /\ Len(s) = 3 /\ s[3] = "unconnected"
    BY <1>17
  <2>2. u = s
    BY <1>17, <2>1 DEF Plans
  <2> QED
    BY <2>2
<1>18. CASE s = <<"lost", "unconnected">>
  <2>1. Head(s) = "lost" /\ Len(s) = 2 /\ s[2] = "unconnected"
    BY <1>18
  <2>2. u = s
    BY <1>18, <2>1 DEF Plans
  <2> QED
    BY <2>2
<1>19. CASE s = <<"unconnected">>
  <2>1. Head(s) = "unconnected" /\ Len(s) = 1 /\ s[1] = "unconnected"
    BY <1>19
  <2>2. u = s
    BY <1>19, <2>1 DEF Plans
  <2> QED
    BY <2>2
<1>20. CASE s = <<"reset", "lost", "again">>
  <2>1. Head(s) = "reset" /\ Len(s) = 3 /\ s[3] = "again"
    BY <1>20
  <2>2. u = s
    BY <1>20, <2>1 DEF Plans
  <2> QED
    BY <2>2
<1>21. CASE s = <<"lost", "again">>
  <2>1. Head(s) = "lost" /\ Len(s) = 2 /\ s[2] = "again"
    BY <1>21
  <2>2. u = s
    BY <1>21, <2>1 DEF Plans
  <2> QED
    BY <2>2
<1>22. CASE s = <<"again">>
  <2>1. Head(s) = "again" /\ Len(s) = 1 /\ s[1] = "again"
    BY <1>22
  <2>2. u = s
    BY <1>22, <2>1 DEF Plans
  <2> QED
    BY <2>2
<1>23. CASE s = <<"ready">>
  <2>1. Head(s) = "ready" /\ Len(s) = 1 /\ s[1] = "ready"
    BY <1>23
  <2>2. u = s
    BY <1>23, <2>1 DEF Plans
  <2> QED
    BY <2>2
<1>24. CASE s = <<"recvMsg", "established">>
  <2>1. Head(s) = "recvMsg" /\ Len(s) = 2 /\ s[2] = "established"
    BY <1>24
  <2>2. u = s
    BY <1>24, <2>1 DEF Plans
  <2> QED
    BY <2>2
<1>25. CASE s = <<"established">>
  <2>1. Head(s) = "established" /\ Len(s) = 1 /\ s[1] = "established"
    BY <1>25
  <2>2. u = s
    BY <1>25, <2>1 DEF Plans
  <2> QED
    BY <2>2
<1>26. CASE s = <<"listen", "started">>
  <2>1. Head(s) = "listen" /\ Len(s) = 2 /\ s[2] = "started"
    BY <1>26
  <2>2. u = s
    BY <1>26, <2>1 DEF Plans
  <2> QED
    BY <2>2
<1>27. CASE s = <<"started">>
  <2>1. Head(s) = "started" /\ Len(s) = 1 /\ s[1] = "started"
    BY <1>27
  <2>2. u = s
    BY <1>27, <2>1 DEF Plans
  <2> QED
    BY <2>2
<1>28. CASE s = <<"stop">>
  <2>1. Head(s) = "stop" /\ Len(s) = 1 /\ s[1] = "stop"
    BY <1>28
  <2>2. u = s
    BY <1>28, <2>1 DEF Plans
  <2> QED
    BY <2>2
<1>29. CASE s = <<"initFileSenders">>
  <2>1. Head(s) = "initFileSenders" /\ Len(s) = 1 /\ s[1] = "initFileSenders"
    BY <1>29
  <2>2. u = s
    BY <1>29, <2>1 DEF Plans
  <2> QED
    BY <2>2
<1> QED
  BY <1>1, <1>2, <1>3, <1>4, <1>5, <1>6, <1>7, <1>8, <1>9, <1>10, <1>11, <1>12, <1>13, <1>14, <1>15, <1>16, <1>17, <1>18, <1>19, <1>20, <1>21, <1>22, <1>23, <1>24, <1>25, <1>26, <1>27, <1>28, <1>29 DEF Plans

\* A step of another peer.
Same(p) == \A h, l, x : Doing(p, h, l, x)' <=> Doing(p, h, l, x)

Rest(t) == [t EXCEPT !.steps = Tail(@)]

LEMMA StepsReplaced ==
    ASSUME NEW t \in [steps : Plans, arg : Peers \cup Nat \cup {Nobody}], NEW u
    PROVE  /\ [t EXCEPT !.steps = u] = [steps |-> u, arg |-> t.arg]
           /\ [t EXCEPT !.steps = u].steps = u /\ [t EXCEPT !.steps = u].arg = t.arg
  OBVIOUS

\* The same of tasks, ...
LEMMA TaskIs ==
    ASSUME NEW t \in Tasks
    PROVE  /\ <<Head(t.steps), Aim(t)>> \in Kinds /\ t.steps \in Plans /\ t.arg \in Args(Aim(t))
           /\ Len(t.steps) = 1 <=> Head(t.steps) = Aim(t)
           /\ Len(t.steps) # 1 => /\ Rest(t) \in Tasks
                                  /\ JobOf(Rest(t)) = <<StepAfter(Head(t.steps), Aim(t)), Aim(t), t.arg>>
                                  /\ Head(Rest(t).steps) = StepAfter(Head(t.steps), Aim(t))
                                  /\ Aim(Rest(t)) = Aim(t)
                                  /\ Rest(t).arg = t.arg
                                  /\ Rest(t) # t
<1> DEFINE u == Tail(t.steps)
<1>0. u = Tail(t.steps)
  OBVIOUS
<1>1. t \in [steps : Plans, arg : Peers \cup Nat \cup {Nobody}] /\ t.arg \in Args(Aim(t))
  BY DEF Tasks
<1>2. t.steps \in Plans /\ t.arg \in Peers \cup Nat \cup {Nobody}
  BY <1>1
<1>a. Rest(t) = [t EXCEPT !.steps = u]
  BY DEF Rest
<1> HIDE DEF u
<1>3. /\ <<Head(t.steps), Aim(t)>> \in Kinds
      /\ Len(t.steps) = 1 <=> Head(t.steps) = Aim(t)
      /\ Len(t.steps) # 1 => /\ u \in Plans
                       /\ Head(u) = StepAfter(Head(t.steps), Aim(t))
                       /\ u[Len(u)] = Aim(t)
                       /\ u # t.steps
  BY <1>2, PlanIs DEF Aim, u
<1>4. Rest(t).steps = u /\ Rest(t).arg = t.arg /\ Rest(t) = [steps |-> u, arg |-> t.arg]
  BY <1>1, <1>a, StepsReplaced
<1>7. Aim(Rest(t)) = u[Len(u)]
  BY <1>4, Zenon DEF Aim
<1>8. CASE Len(t.steps) # 1
  <2>1. Rest(t) \in Tasks
    BY <1>1, <1>2, <1>3, <1>4, <1>7, <1>8 DEF Tasks
  <2>2. Rest(t) # t
    BY <1>3, <1>4, <1>8
  <2>3. JobOf(Rest(t)) = <<StepAfter(Head(t.steps), Aim(t)), Aim(t), t.arg>>
    BY <1>3, <1>4, <1>7, <1>8 DEF JobOf
  <2> QED
    BY <1>1, <1>2, <1>3, <1>4, <1>7, <1>8, <2>1, <2>2, <2>3
<1> QED
  BY <1>1, <1>2, <1>3, <1>8

\* ... which are the jobs that they do.
LEMMA TaskOfJob ==
    ASSUME NEW t \in Tasks, NEW u \in Tasks, JobOf(t) = JobOf(u)
    PROVE  t = u
<1>1. Head(t.steps) = Head(u.steps) /\ t.steps[Len(t.steps)] = u.steps[Len(u.steps)] /\ t.arg = u.arg
  BY DEF JobOf, Aim
<1>2. t.steps \in Plans /\ u.steps \in Plans
  BY DEF Tasks
<1>3. t.steps = u.steps
  BY <1>1, <1>2, PlanOfKind
<1> QED
  BY <1>1, <1>3 DEF Tasks

\* One bag of tasks becomes another: what may have gone, what has come.
Becomes(B, C, t, added) ==
    /\ BagToSet(C) \subseteq BagToSet(B) \cup added
    /\ added \subseteq BagToSet(C)
    /\ BagToSet(B) \ {t} \subseteq BagToSet(C)
    /\ B[t] = 1 /\ t \notin added => t \notin BagToSet(C)
    /\ \A u \in BagToSet(B) : u # t /\ u \notin added => C[u] = B[u]
    /\ \A u \in added : u \notin BagToSet(B) => C[u] = 1
    /\ BagOK(C)

\* A task that is dropped; replaced by what it publishes; or by its rest.
LEMMA RemoveBecomes ==
    ASSUME NEW B, BagOK(B), NEW t \in BagToSet(B)
    PROVE  Becomes(B, BagRemove(B, t), t, {})
  BY BagRemoveIs DEF Becomes, BagToSet

LEMMA PlusBecomes ==
    ASSUME NEW B, BagOK(B), NEW t \in BagToSet(B), NEW new
    PROVE  Becomes(B, BagRemove(B, t) (+) SetToBag(new), t, new)
<1> DEFINE C == BagRemove(B, t)
           E == C (+) SetToBag(new)
<1>1. Becomes(B, C, t, {}) /\ BagOK(C)
  BY RemoveBecomes DEF Becomes
<1> HIDE DEF C
<1>3. /\ DOMAIN E = DOMAIN C \cup new /\ BagOK(E)
      /\ \A y \in DOMAIN C \ new : E[y] = C[y]
      /\ \A y \in new \ DOMAIN C : E[y] = 1
  BY <1>1, BagPlusIs
<1> HIDE DEF E
<1>6. Becomes(B, E, t, new)
  BY <1>1, <1>3 DEF Becomes, BagToSet
<1> QED
  BY <1>6 DEF C, E

LEMMA AfterBecomes ==
    ASSUME NEW B, BagOK(B), NEW t \in BagToSet(B), NEW r, r # t, NEW new, r \notin new
    PROVE  /\ Becomes(B, BagAdd(BagRemove(B, t), r), t, {r})
           /\ Becomes(B, BagAdd(BagRemove(B, t), r) (+) SetToBag(new), t, {r} \cup new)
<1> DEFINE C == BagRemove(B, t)
           D == BagAdd(C, r)
           F == D (+) SetToBag(new)
<1>1. Becomes(B, C, t, {}) /\ BagOK(C)
  BY RemoveBecomes DEF Becomes
<1> HIDE DEF C
<1>2. /\ DOMAIN D = DOMAIN C \cup {r} /\ BagOK(D)
      /\ \A y \in DOMAIN C : y # r => D[y] = C[y]
      /\ r \notin DOMAIN C => D[r] = 1
  BY <1>1, BagAddIs
<1> HIDE DEF D
<1>4. /\ DOMAIN F = DOMAIN D \cup new /\ BagOK(F)
      /\ \A y \in DOMAIN D \ new : F[y] = D[y]
      /\ \A y \in new \ DOMAIN D : F[y] = 1
  BY <1>2, BagPlusIs
<1> HIDE DEF F
<1>5. Becomes(B, D, t, {r})
  BY <1>1, <1>2 DEF Becomes, BagToSet
<1>7. Becomes(B, F, t, {r} \cup new)
  <2>1. r \notin new /\ r # t
    OBVIOUS
  <2> QED
    BY <1>2, <1>4, <1>5, <2>1 DEF Becomes, BagToSet
<1> QED
  BY <1>5, <1>7 DEF C, D, F

\* What a step of p does to its tasks: job <<h, l, x>> goes (if it was there
\* once only), and those in added come.
Turns(p, h, l, x, added) ==
    /\ \A q \in Peers : q # p => Same(q) /\ (Once(q)' <=> Once(q))
    /\ \A g, a, y : Doing(p, g, a, y)' => Doing(p, g, a, y) \/ <<g, a, y>> \in added
    /\ \A g, a, y : Doing(p, g, a, y) => Doing(p, g, a, y)' \/ (g = h /\ a = l /\ y = x)
    /\ \A g, a, y : <<g, a, y>> \in added => Doing(p, g, a, y)'

\* What becomes of a bag becomes of the jobs in it.
LEMMA JobsBecome ==
    ASSUME TodoOK, NEW p \in Peers, NEW t \in BagToSet(todo[p]), NEW added \in SUBSET Tasks,
           DOMAIN todo' = Peers, \A q \in Peers : q # p => todo'[q] = todo[q],
           Becomes(todo[p], todo'[p], t, added)
    PROVE  /\ TodoOK'
           /\ Turns(p, Head(t.steps), Aim(t), t.arg, {JobOf(u) : u \in added})
           /\ Once(p) /\ Single(t) /\ t \notin added => ~Doing(p, Head(t.steps), Aim(t), t.arg)'
           /\ Once(p) /\ (\A u \in added : Single(u) => u \notin BagToSet(todo[p])) => Once(p)'
<1>1. /\ BagToSet(todo[p]) \subseteq Tasks /\ BagOK(todo[p]) /\ t \in Tasks
      /\ BagToSet(todo'[p]) \subseteq Tasks /\ BagOK(todo'[p])
  BY DEF TodoOK, Becomes
<1>2. TodoOK'
  BY <1>1 DEF TodoOK
<1>3. \A q \in Peers : q # p => Same(q) /\ (Once(q)' <=> Once(q))
  <2> SUFFICES ASSUME NEW q \in Peers, q # p
               PROVE  Same(q) /\ (Once(q)' <=> Once(q))
    OBVIOUS
  <2>1. todo'[q] = todo[q]
    OBVIOUS
  <2>2. Jobs(q)' = Jobs(q)
    BY <2>1 DEF Jobs
  <2> QED
    BY <2>1, <2>2 DEF Same, Doing, Once
<1>4. ASSUME NEW g, NEW a, NEW y, Doing(p, g, a, y)'
      PROVE  Doing(p, g, a, y) \/ <<g, a, y>> \in {JobOf(u) : u \in added}
  <2>1. PICK u \in BagToSet(todo'[p]) : <<g, a, y>> = JobOf(u)
    BY <1>4 DEF Doing, Jobs
  <2>2. u \in BagToSet(todo[p]) \/ u \in added
    BY DEF Becomes
  <2> QED
    BY <2>1, <2>2 DEF Doing, Jobs
<1>5. ASSUME NEW g, NEW a, NEW y, Doing(p, g, a, y)
      PROVE  Doing(p, g, a, y)' \/ (g = Head(t.steps) /\ a = Aim(t) /\ y = t.arg)
  <2>1. PICK u \in BagToSet(todo[p]) : <<g, a, y>> = JobOf(u)
    BY <1>5 DEF Doing, Jobs
  <2>2. CASE u = t
    BY <2>1, <2>2 DEF JobOf
  <2>3. CASE u # t
    <3>1. u \in BagToSet(todo'[p])
      BY <2>3 DEF Becomes
    <3> QED
      BY <2>1, <3>1 DEF Doing, Jobs
  <2> QED
    BY <2>2, <2>3
<1>6. ASSUME NEW g, NEW a, NEW y, <<g, a, y>> \in {JobOf(u) : u \in added}
      PROVE  Doing(p, g, a, y)'
  <2>1. PICK u \in added : <<g, a, y>> = JobOf(u)
    BY <1>6
  <2>2. u \in BagToSet(todo'[p])
    BY DEF Becomes
  <2> QED
    BY <2>1, <2>2 DEF Doing, Jobs
<1>7. ASSUME Once(p), Single(t), t \notin added, Doing(p, Head(t.steps), Aim(t), t.arg)'
      PROVE  FALSE
  <2>1. PICK u \in BagToSet(todo'[p]) : JobOf(t) = JobOf(u)
    BY <1>7 DEF Doing, Jobs, JobOf
  <2>2. u = t
    BY <1>1, <2>1, TaskOfJob
  <2>3. todo[p][t] = 1
    BY <1>7 DEF Once
  <2> QED
    BY <1>7, <2>1, <2>2, <2>3 DEF Becomes
<1>8. ASSUME Once(p), \A u \in added : Single(u) => u \notin BagToSet(todo[p])
      PROVE  Once(p)'
  <2> SUFFICES ASSUME NEW u \in BagToSet(todo'[p]), Single(u)
               PROVE  todo'[p][u] = 1
    BY DEF Once
  <2>1. CASE u \in added
    BY <1>8, <2>1 DEF Becomes
  <2>2. CASE u \notin added
    <3>1. u \in BagToSet(todo[p]) /\ todo[p][u] = 1
      BY <1>8, <2>2 DEF Once, Becomes
    <3>2. CASE u # t
      BY <2>2, <3>1, <3>2 DEF Becomes
    <3>3. CASE u = t
      BY <2>2, <3>1, <3>3 DEF Becomes
    <3> QED
      BY <3>2, <3>3
  <2> QED
    BY <2>1, <2>2
<1> QED
  BY <1>2, <1>3, <1>4, <1>5, <1>6, <1>7, <1>8 DEF Turns

\* The first step of t is made, and the tasks of new are published.
LEMMA StepTurns ==
    ASSUME TodoOK, NEW p \in Peers, NEW t \in BagToSet(todo[p]), NEW new \in SUBSET Tasks,
           \A u \in new : ~Single(u),
           Head(t.steps) # Aim(t) => Rest(t) \notin new,
           todo' = After(p, t, new)
    PROVE  LET h == Head(t.steps)
               l == Aim(t)
               published == {JobOf(u) : u \in new}
           IN  /\ TodoOK'
               /\ h = l => Turns(p, h, l, t.arg, published)
               /\ h # l => Turns(p, h, l, t.arg, {<<StepAfter(h, l), l, t.arg>>} \cup published)
               /\ Once(p) /\ Single(t) => ~Doing(p, h, l, t.arg)'
               /\ /\ Once(p)
                  /\ h # l /\ Single(Rest(t)) => ~Doing(p, StepAfter(h, l), l, t.arg)
                  => Once(p)'
<1> DEFINE h == Head(t.steps)
           l == Aim(t)
           published == {JobOf(u) : u \in new}
<1>1. t \in Tasks /\ BagOK(todo[p]) /\ p \in DOMAIN todo /\ DOMAIN todo = Peers
  BY DEF TodoOK
<1>2. Len(t.steps) = 1 <=> h = l
  BY <1>1, TaskIs
<1>3. DOMAIN todo' = Peers /\ \A q \in Peers : q # p => todo'[q] = todo[q]
  BY <1>1 DEF After
<1>4. CASE h = l
  <2>1. todo'[p] = BagRemove(todo[p], t) (+) SetToBag(new)
    BY <1>1, <1>2, <1>4 DEF After
  <2>2. t \notin new \/ ~Single(t)
    OBVIOUS
  <2>3. Becomes(todo[p], todo'[p], t, new)
    BY <1>1, <2>1, PlusBecomes
  <2>4. /\ TodoOK' /\ Turns(p, h, l, t.arg, published)
        /\ Once(p) /\ Single(t) /\ t \notin new => ~Doing(p, h, l, t.arg)'
        /\ Once(p) /\ (\A u \in new : Single(u) => u \notin BagToSet(todo[p])) => Once(p)'
    BY <1>3, <2>3, JobsBecome
  <2> QED
    BY <1>4, <2>2, <2>4
<1>5. CASE h # l
  <2>1. Rest(t) \in Tasks /\ JobOf(Rest(t)) = <<StepAfter(h, l), l, t.arg>> /\ Rest(t) # t
    BY <1>1, <1>2, <1>5, TaskIs
  <2>2. todo'[p] = BagAdd(BagRemove(todo[p], t), Rest(t)) (+) SetToBag(new)
    BY <1>1, <1>2, <1>5 DEF After, Rest
  <2> DEFINE added == {Rest(t)} \cup new
  <2>3. Becomes(todo[p], todo'[p], t, added)
    <3>1. Rest(t) \notin new /\ t \in BagToSet(todo[p])
      BY <1>5
    <3>2. Becomes(todo[p], BagAdd(BagRemove(todo[p], t), Rest(t)) (+) SetToBag(new), t,
                  {Rest(t)} \cup new)
      BY <1>1, <2>1, <3>1, AfterBecomes
    <3> QED
      BY <2>2, <3>2
  <2>4. added \in SUBSET Tasks
    BY <2>1
  <2>5. {JobOf(u) : u \in added} = {<<StepAfter(h, l), l, t.arg>>} \cup published
    BY <2>1
  <2> HIDE DEF added
  <2>6. /\ TodoOK' /\ Turns(p, h, l, t.arg, {JobOf(u) : u \in added})
        /\ Once(p) /\ Single(t) /\ t \notin added => ~Doing(p, h, l, t.arg)'
        /\ Once(p) /\ (\A u \in added : Single(u) => u \notin BagToSet(todo[p])) => Once(p)'
    BY <1>3, <2>3, <2>4, JobsBecome
  <2>7. t \notin added \/ ~Single(t)
    BY <2>1 DEF added
  <2>8. ASSUME Single(Rest(t)) => ~Doing(p, StepAfter(h, l), l, t.arg)
        PROVE  \A u \in added : Single(u) => u \notin BagToSet(todo[p])
    <3>1. Rest(t) \in BagToSet(todo[p]) => Doing(p, StepAfter(h, l), l, t.arg)
      BY <2>1 DEF Doing, Jobs
    <3> QED
      BY <2>8, <3>1 DEF added
  <2> QED
    BY <1>5, <2>5, <2>6, <2>7, <2>8
<1> QED
  BY <1>4, <1>5

\* Tasks that are published, and nothing else.
LEMMA PublishTurns ==
    ASSUME TodoOK, NEW p \in Peers, NEW new \in SUBSET Tasks, Publish(p, new)
    PROVE  LET published == {JobOf(u) : u \in new}
           IN  /\ TodoOK'
               /\ \A q \in Peers : q # p => Same(q) /\ (Once(q)' <=> Once(q))
               /\ \A g, a, y : Doing(p, g, a, y)' <=> Doing(p, g, a, y) \/ <<g, a, y>> \in published
               /\ /\ Once(p)
                  /\ \A u \in new : Single(u) => ~Doing(p, Head(u.steps), Aim(u), u.arg)
                  => Once(p)'
<1> DEFINE published == {JobOf(u) : u \in new}
<1>1. BagOK(todo[p]) /\ BagToSet(todo[p]) \subseteq Tasks /\ DOMAIN todo = Peers
  BY DEF TodoOK
<1>2. /\ DOMAIN todo' = Peers /\ \A q \in Peers : q # p => todo'[q] = todo[q]
      /\ todo'[p] = todo[p] (+) SetToBag(new)
  BY <1>1 DEF Publish
<1>3. /\ BagToSet(todo'[p]) = BagToSet(todo[p]) \cup new
      /\ \A u \in BagToSet(todo[p]) \ new : todo'[p][u] = todo[p][u]
      /\ \A u \in new \ BagToSet(todo[p]) : todo'[p][u] = 1
      /\ BagOK(todo'[p])
  <2> DEFINE C == todo[p] (+) SetToBag(new)
  <2>1. /\ DOMAIN C = DOMAIN todo[p] \cup new
        /\ \A u \in DOMAIN todo[p] \ new : C[u] = todo[p][u]
        /\ \A u \in new \ DOMAIN todo[p] : C[u] = 1
        /\ BagOK(C)
    BY <1>1, BagPlusIs
  <2> HIDE DEF C
  <2>2. todo'[p] = C
    BY <1>2 DEF C
  <2> QED
    BY <2>1, <2>2 DEF BagToSet
<1>4. TodoOK'
  BY <1>1, <1>2, <1>3 DEF TodoOK
<1>5. \A q \in Peers : q # p => Same(q) /\ (Once(q)' <=> Once(q))
  <2> SUFFICES ASSUME NEW q \in Peers, q # p
               PROVE  Same(q) /\ (Once(q)' <=> Once(q))
    OBVIOUS
  <2>1. todo'[q] = todo[q]
    BY <1>2
  <2>2. Jobs(q)' = Jobs(q)
    BY <2>1 DEF Jobs
  <2> QED
    BY <2>1, <2>2 DEF Same, Doing, Once
<1>6. Jobs(p)' = Jobs(p) \cup published
  BY <1>3 DEF Jobs
<1>7. ASSUME Once(p), \A u \in new : Single(u) => ~Doing(p, Head(u.steps), Aim(u), u.arg)
      PROVE  Once(p)'
  <2> SUFFICES ASSUME NEW u \in BagToSet(todo'[p]), Single(u)
               PROVE  todo'[p][u] = 1
    BY DEF Once
  <2>1. u \in BagToSet(todo[p]) => Doing(p, Head(u.steps), Aim(u), u.arg)
    BY DEF Doing, Jobs, JobOf
  <2>2. u \in new => u \notin BagToSet(todo[p])
    BY <1>7, <2>1
  <2> QED
    BY <1>3, <1>7, <2>2 DEF Once
<1> QED
  BY <1>4, <1>5, <1>6, <1>7 DEF Doing

-----------------------------------------------------------------------------
(* Messages                                                                *)

\* What is sent is read last, ...
LEMMA MessageSent ==
    ASSUME NEW s \in Seq(Message), NEW m \in Message
    PROVE  /\ Append(s, m) \in Seq(Message) /\ Append(s, m) # << >>
           /\ \A type : Holds(Append(s, m), type) <=> Holds(s, type) \/ m.type = type
           /\ \A type : AtMostOne(s, type) /\ (m.type = type => ~Holds(s, type))
                            => AtMostOne(Append(s, m), type)
           /\ \A k : Keyed(s, k) /\ m.key = k => Keyed(Append(s, m), k)
           /\ \A types : Only(s, types) /\ m.type \in types => Only(Append(s, m), types)
           /\ InOrder(s) /\ (m.type = "request" => ~Holds(s, "cancel")) => InOrder(Append(s, m))
<1> DEFINE n == Len(s)
           u == Append(s, m)
<1>1. /\ u \in Seq(Message) /\ DOMAIN u = 1..(n + 1) /\ DOMAIN s = 1..n /\ n \in Nat
      /\ u[n + 1] = m /\ \A i \in 1..n : u[i] = s[i]
  OBVIOUS
<1>2. u # << >>
  BY <1>1
<1>3. DOMAIN u = DOMAIN s \cup {n + 1} /\ n + 1 \notin DOMAIN s /\ \A i \in DOMAIN s : u[i] = s[i]
  BY <1>1
<1>4. \A i \in DOMAIN s : i < n + 1
  BY <1>1
<1>5. u[n + 1] = m
  BY <1>1
<1> HIDE DEF n, u
<1>6. \A type : Holds(u, type) <=> Holds(s, type) \/ m.type = type
  BY <1>3, <1>5 DEF Holds
<1>7. ASSUME NEW type, AtMostOne(s, type), m.type = type => ~Holds(s, type)
      PROVE  AtMostOne(u, type)
  BY <1>3, <1>5, <1>7 DEF Holds, AtMostOne
<1>8. \A k : Keyed(s, k) /\ m.key = k => Keyed(u, k)
  BY <1>3, <1>5 DEF Keyed
<1>9. \A types : Only(s, types) /\ m.type \in types => Only(u, types)
  BY <1>3, <1>5 DEF Only
<1>10. ASSUME InOrder(s), m.type = "request" => ~Holds(s, "cancel")
       PROVE  InOrder(u)
  <2> SUFFICES ASSUME NEW i \in DOMAIN u, NEW j \in DOMAIN u,
                      u[i].type = "cancel", u[j].type = "request"
               PROVE  j < i
    BY DEF InOrder
  <2>1. CASE j = n + 1
    <3>1. m.type = "request" /\ i # n + 1
      BY <1>5, <2>1
    <3>2. i \in DOMAIN s /\ s[i].type = "cancel"
      BY <1>3, <3>1
    <3> QED
      BY <1>10, <3>1, <3>2 DEF Holds
  <2>2. CASE j # n + 1 /\ i = n + 1
    BY <1>3, <1>4, <2>2
  <2>3. CASE j # n + 1 /\ i # n + 1
    BY <1>3, <1>10, <2>3 DEF InOrder
  <2> QED
    BY <2>1, <2>2, <2>3
<1>11. /\ u \in Seq(Message) /\ u # << >>
       /\ \A type : AtMostOne(s, type) /\ (m.type = type => ~Holds(s, type)) => AtMostOne(u, type)
  BY <1>1, <1>2, <1>7
<1> QED
  BY <1>6, <1>8, <1>9, <1>10, <1>11 DEF u

\* ... what is taken was sent first.
LEMMA MessageTaken ==
    ASSUME NEW s \in Seq(Message), s # << >>
    PROVE  /\ Tail(s) \in Seq(Message) /\ Head(s) \in Message
           /\ \A type : Holds(s, type) <=> Holds(Tail(s), type) \/ Head(s).type = type
           /\ \A type : AtMostOne(s, type) =>
                  AtMostOne(Tail(s), type) /\ (Head(s).type = type => ~Holds(Tail(s), type))
           /\ \A k : Keyed(s, k) => Keyed(Tail(s), k) /\ Head(s).key = k
           /\ \A types : Only(s, types) => Only(Tail(s), types) /\ Head(s).type \in types
           /\ InOrder(s) => InOrder(Tail(s)) /\ (Head(s).type = "cancel" => ~Holds(s, "request"))
<1> DEFINE n == Len(s)
           u == Tail(s)
           m == Head(s)
<1>1. /\ u \in Seq(Message) /\ m \in Message /\ n \in Nat /\ n >= 1 /\ m = s[1]
      /\ DOMAIN u = 1..(n - 1) /\ DOMAIN s = 1..n /\ \A i \in 1..(n - 1) : u[i] = s[i + 1]
  OBVIOUS
<1> HIDE DEF n, u, m
<1>2. \A i \in DOMAIN s : i = 1 \/ (i - 1 \in DOMAIN u /\ u[i - 1] = s[i])
  BY <1>1
<1>3. \A i \in DOMAIN u : i + 1 \in DOMAIN s /\ s[i + 1] = u[i] /\ i + 1 # 1
  BY <1>1
<1>4. 1 \in DOMAIN s /\ s[1] = m /\ DOMAIN s \subseteq Int /\ DOMAIN u \subseteq Int
  BY <1>1
<1>5. \A type : Holds(s, type) <=> Holds(u, type) \/ m.type = type
  BY <1>2, <1>3, <1>4 DEF Holds
<1>6. ASSUME NEW type, AtMostOne(s, type)
      PROVE  AtMostOne(u, type) /\ (m.type = type => ~Holds(u, type))
  <2>1. \A i, j \in DOMAIN u : i + 1 = j + 1 => i = j
    BY <1>4
  <2>2. AtMostOne(u, type)
    BY <1>3, <1>6, <2>1 DEF AtMostOne
  <2>3. m.type = type => ~Holds(u, type)
    BY <1>3, <1>4, <1>6 DEF AtMostOne, Holds
  <2> QED
    BY <2>2, <2>3
<1>7. \A k : Keyed(s, k) => Keyed(u, k) /\ m.key = k
  BY <1>3, <1>4 DEF Keyed
<1>8. \A types : Only(s, types) => Only(u, types) /\ m.type \in types
  BY <1>3, <1>4 DEF Only
<1>9. ASSUME InOrder(s)
      PROVE  InOrder(u) /\ (m.type = "cancel" => ~Holds(s, "request"))
  <2>1. \A i, j \in DOMAIN u : j + 1 < i + 1 => j < i
    BY <1>4
  <2>2. InOrder(u)
    BY <1>3, <1>9, <2>1 DEF InOrder
  <2>3. \A i \in DOMAIN s : ~(i < 1)
    BY <1>1
  <2>4. m.type = "cancel" => ~Holds(s, "request")
    BY <1>4, <1>9, <2>3 DEF InOrder, Holds
  <2> QED
    BY <2>2, <2>4
<1>10. /\ u \in Seq(Message) /\ m \in Message
       /\ \A type : AtMostOne(s, type) => AtMostOne(u, type) /\ (m.type = type => ~Holds(u, type))
  BY <1>1, <1>6
<1> QED
  BY <1>5, <1>7, <1>8, <1>9, <1>10 DEF u, m

\* Nothing is to be read.
LEMMA NoMessage ==
    /\ \A type : ~Holds(<< >>, type) /\ AtMostOne(<< >>, type)
    /\ \A k : Keyed(<< >>, k)
    /\ \A types : Only(<< >>, types)
    /\ InOrder(<< >>) /\ << >> \in Seq(Message)
  BY DEF Holds, AtMostOne, Keyed, Only, InOrder

-----------------------------------------------------------------------------
(* Links                                                                   *)

\* A link joins two peers.
LEMMA LinkIs ==
    ASSUME LinksOK
    PROVE  /\ DOMAIN links = 1..Len(links) /\ Len(links) \in Nat
           /\ Fresh \notin DOMAIN links /\ Nobody \notin DOMAIN links
           /\ \A c \in DOMAIN links :
                 /\ links[c] \in Link /\ c \in Nat
                 /\ From(c) \in Peers /\ To(c) \in Peers /\ From(c) # To(c)
                 /\ Open(c) \subseteq {From(c), To(c)} /\ Taken(c) \in BOOLEAN
                 /\ In(c, From(c)) \in Seq(Message) /\ In(c, To(c)) \in Seq(Message)
<1>1. DOMAIN links = 1..Len(links) /\ Len(links) \in Nat /\ \A c \in DOMAIN links : links[c] \in Link
  BY DEF LinksOK
<1>2. Fresh \notin DOMAIN links /\ Nobody \notin DOMAIN links
  BY <1>1, SessionAssumption
<1>3. ASSUME NEW c \in DOMAIN links
      PROVE  /\ links[c] \in Link /\ c \in Nat
             /\ From(c) \in Peers /\ To(c) \in Peers /\ From(c) # To(c)
             /\ Open(c) \subseteq {From(c), To(c)} /\ Taken(c) \in BOOLEAN
             /\ In(c, From(c)) \in Seq(Message) /\ In(c, To(c)) \in Seq(Message)
  <2>1. links[c] \in Link /\ c \in Nat
    BY <1>1
  <2>2. DOMAIN links[c].in = {From(c), To(c)} /\ From(c) # To(c) /\ Open(c) \subseteq {From(c), To(c)}
    BY DEF LinksOK
  <2>3. PICK ends \in SUBSET Peers : links[c].in \in [ends -> Seq(Message)]
    BY <2>1 DEF Link
  <2>4. In(c, From(c)) \in Seq(Message) /\ In(c, To(c)) \in Seq(Message)
    BY <2>2, <2>3 DEF In
  <2> QED
    BY <2>1, <2>2, <2>4 DEF Link, From, To, Open, Taken
<1> QED
  BY <1>1, <1>2, <1>3

\* The links but for what they carry.
Kept(c) == From(c)' = From(c) /\ To(c)' = To(c)
Unmoved(c) == \A p : In(c, p)' = In(c, p)

\* Nothing happens to the links.
LEMMA LinksStay ==
    ASSUME LinksOK, UNCHANGED links
    PROVE  /\ LinksOK' /\ DOMAIN links' = DOMAIN links
           /\ \A c \in DOMAIN links : /\ Kept(c) /\ Unmoved(c)
                                      /\ Open(c)' = Open(c) /\ Taken(c)' = Taken(c)
  BY DEF LinksOK, Kept, Unmoved, From, To, Open, Taken, In

\* A link that carries something else.
LEMMA InReplaced ==
    ASSUME NEW f, NEW c \in DOMAIN f, NEW o, NEW s
    PROVE  [f EXCEPT ![c].in[o] = s] =
               [f EXCEPT ![c] = [f[c] EXCEPT !.in = [f[c].in EXCEPT ![o] = s]]]
  OBVIOUS

LEMMA LinkWithIn ==
    ASSUME NEW l \in Link, NEW ends \in SUBSET Peers, NEW x \in [ends -> Seq(Message)]
    PROVE  /\ [l EXCEPT !.in = x] \in Link /\ [l EXCEPT !.in = x].in = x
           /\ [l EXCEPT !.in = x].from = l.from /\ [l EXCEPT !.in = x].to = l.to
           /\ [l EXCEPT !.in = x].open = l.open /\ [l EXCEPT !.in = x].taken = l.taken
<1> DEFINE ins == UNION {[e -> Seq(Message)] : e \in SUBSET Peers}
<1>1. x \in ins
  OBVIOUS
<1>2. l \in [from : Peers, to : Peers, open : SUBSET Peers, taken : BOOLEAN, in : ins]
  BY DEF Link
<1> HIDE DEF ins
<1>3. [l EXCEPT !.in = x] \in [from : Peers, to : Peers, open : SUBSET Peers, taken : BOOLEAN, in : ins]
  BY <1>1, <1>2
<1>4. [l EXCEPT !.in = x] \in Link
  BY <1>3 DEF Link, ins
<1> QED
  BY <1>2, <1>4

\* What end o has to read on link c becomes s.
LEMMA LinkCarries ==
    ASSUME LinksOK, NEW c \in DOMAIN links, NEW o \in {From(c), To(c)}, NEW s \in Seq(Message),
           links' = [links EXCEPT ![c].in[o] = s]
    PROVE  /\ LinksOK' /\ DOMAIN links' = DOMAIN links
           /\ \A d \in DOMAIN links : /\ Kept(d) /\ Open(d)' = Open(d) /\ Taken(d)' = Taken(d)
                                      /\ d # c => Unmoved(d)
           /\ In(c, o)' = s
           /\ \A p \in {From(c), To(c)} : p # o => In(c, p)' = In(c, p)
<1>1. links \in Seq(Link) /\ links[c] \in Link /\ DOMAIN links[c].in = {From(c), To(c)}
      /\ DOMAIN links = 1..Len(links) /\ Len(links) \in Nat /\ From(c) \in Peers /\ To(c) \in Peers
  BY LinkIs DEF LinksOK
<1> DEFINE l == links[c]
           m == [l EXCEPT !.in = [l.in EXCEPT ![o] = s]]
<1>2. links' = [links EXCEPT ![c] = m]
  BY InReplaced
<1>3. PICK ends \in SUBSET Peers : l.in \in [ends -> Seq(Message)]
  BY <1>1 DEF Link
<1>4. [l.in EXCEPT ![o] = s] \in [ends -> Seq(Message)]
  BY <1>3
<1>5. m \in Link
  BY <1>1, <1>4, LinkWithIn
<1>6. /\ m.from = l.from /\ m.to = l.to /\ m.open = l.open /\ m.taken = l.taken
      /\ m.in = [l.in EXCEPT ![o] = s]
  BY <1>1, <1>4, LinkWithIn
<1>7. DOMAIN m.in = DOMAIN l.in /\ m.in[o] = s /\ \A p \in {From(c), To(c)} : p # o => m.in[p] = l.in[p]
  <2>1. o \in DOMAIN l.in
    BY <1>1
  <2> DEFINE f == l.in
             g == [f EXCEPT ![o] = s]
  <2>2. DOMAIN g = DOMAIN f /\ g[o] = s /\ \A p \in DOMAIN f : p # o => g[p] = f[p]
    BY <2>1
  <2>3. f = l.in /\ m.in = g
    BY <1>6
  <2> HIDE DEF f, g, l, m
  <2> QED
    BY <1>1, <2>2, <2>3 DEF l
<1> HIDE DEF l, m
<1>8. DOMAIN links' = DOMAIN links /\ links' \in Seq(Link) /\ links'[c] = m
      /\ \A d \in DOMAIN links : d # c => links'[d] = links[d]
  BY <1>1, <1>2, <1>5
<1>9. ASSUME NEW d \in DOMAIN links, d # c
      PROVE  Kept(d) /\ Open(d)' = Open(d) /\ Taken(d)' = Taken(d) /\ Unmoved(d)
  BY <1>8, <1>9 DEF Kept, Unmoved, From, To, Open, Taken, In
<1>10. /\ Kept(c) /\ Open(c)' = Open(c) /\ Taken(c)' = Taken(c)
       /\ In(c, o)' = s /\ \A p \in {From(c), To(c)} : p # o => In(c, p)' = In(c, p)
       /\ DOMAIN links'[c].in = DOMAIN links[c].in
  <2>1. links'[c] = m /\ links[c] = l
    BY <1>8 DEF l
  <2>2. Kept(c) /\ Open(c)' = Open(c) /\ Taken(c)' = Taken(c)
    BY <1>6, <2>1 DEF Kept, From, To, Open, Taken
  <2>3. links'[c].in = m.in /\ links[c].in = l.in
    BY <2>1
  <2>4. In(c, o)' = s /\ \A p \in {From(c), To(c)} : p # o => In(c, p)' = In(c, p)
    BY <1>7, <2>3 DEF In
  <2> QED
    BY <1>7, <2>2, <2>3, <2>4
<1>11. \A d \in DOMAIN links : d # c => links'[d] = links[d]
  BY <1>8
<1>12. LinksOK'
  <2>1. ASSUME NEW d \in DOMAIN links
        PROVE  /\ Kept(d) /\ Open(d)' = Open(d) /\ DOMAIN links'[d].in = DOMAIN links[d].in
    BY <1>9, <1>10, <1>11
  <2>2. ASSUME NEW d \in DOMAIN links
        PROVE  /\ From(d)' # To(d)' /\ Open(d)' \subseteq {From(d)', To(d)'}
               /\ DOMAIN links'[d].in = {From(d)', To(d)'}
    BY <2>1 DEF LinksOK, Kept
  <2> QED
    BY <1>8, <2>2 DEF LinksOK
<1> QED
  BY <1>8, <1>9, <1>10, <1>12

\* A link that is closed, or taken.
LEMMA LinkWith ==
    ASSUME NEW l \in Link, NEW open \in SUBSET Peers
    PROVE  /\ [l EXCEPT !.open = open] \in Link /\ [l EXCEPT !.open = open].open = open
           /\ [l EXCEPT !.open = open].from = l.from /\ [l EXCEPT !.open = open].to = l.to
           /\ [l EXCEPT !.open = open].in = l.in /\ [l EXCEPT !.open = open].taken = l.taken
           /\ [l EXCEPT !.taken = TRUE] \in Link /\ [l EXCEPT !.taken = TRUE].taken = TRUE
           /\ [l EXCEPT !.taken = TRUE].from = l.from /\ [l EXCEPT !.taken = TRUE].to = l.to
           /\ [l EXCEPT !.taken = TRUE].in = l.in /\ [l EXCEPT !.taken = TRUE].open = l.open
<1> DEFINE ins == UNION {[e -> Seq(Message)] : e \in SUBSET Peers}
<1>1. l \in [from : Peers, to : Peers, open : SUBSET Peers, taken : BOOLEAN, in : ins]
  BY DEF Link
<1> HIDE DEF ins
<1>2. /\ [l EXCEPT !.open = open] \in [from : Peers, to : Peers, open : SUBSET Peers, taken : BOOLEAN, in : ins]
      /\ [l EXCEPT !.taken = TRUE] \in [from : Peers, to : Peers, open : SUBSET Peers, taken : BOOLEAN, in : ins]
  BY <1>1
<1>3. [l EXCEPT !.open = open] \in Link /\ [l EXCEPT !.taken = TRUE] \in Link
  BY <1>2 DEF Link, ins
<1> QED
  BY <1>1, <1>3

\* p closes its end of c.
LEMMA LinkCloses ==
    ASSUME LinksOK, NEW c, NEW p \in Peers
    PROVE  /\ Closed(c, p) \in Seq(Link) /\ DOMAIN Closed(c, p) = DOMAIN links
           /\ \A d \in DOMAIN links : d # c => Closed(c, p)[d] = links[d]
           /\ c \in DOMAIN links =>
                 LET l == Closed(c, p)[c]
                 IN  /\ l.open = Open(c) \ {p} /\ l.from = From(c) /\ l.to = To(c)
                     /\ l.in = links[c].in /\ l.taken = Taken(c)
           /\ c \notin DOMAIN links => Closed(c, p) = links
<1>1. links \in Seq(Link) /\ DOMAIN links = 1..Len(links) /\ Len(links) \in Nat
  BY LinkIs DEF LinksOK
<1>2. CASE c \notin DOMAIN links
  BY <1>1, <1>2 DEF Closed, IsLink
<1>3. CASE c \in DOMAIN links
  <2> DEFINE l == links[c]
             m == [l EXCEPT !.open = Open(c) \ {p}]
  <2>1. l \in Link /\ Open(c) \ {p} \in SUBSET Peers
    BY <1>3, LinkIs DEF Open
  <2>2. /\ m \in Link /\ m.open = Open(c) \ {p}
        /\ m.from = l.from /\ m.to = l.to /\ m.in = l.in /\ m.taken = l.taken
    BY <2>1, LinkWith
  <2>3. Closed(c, p) = [links EXCEPT ![c] = m]
    BY <1>3 DEF Closed, IsLink, Open
  <2> HIDE DEF m
  <2>4. /\ Closed(c, p) \in Seq(Link) /\ DOMAIN Closed(c, p) = DOMAIN links /\ Closed(c, p)[c] = m
        /\ \A d \in DOMAIN links : d # c => Closed(c, p)[d] = links[d]
    BY <1>1, <1>3, <2>2, <2>3
  <2> QED
    BY <1>3, <2>2, <2>4 DEF From, To, Taken
<1> QED
  BY <1>2, <1>3

LEMMA LinkClosed ==
    ASSUME LinksOK, NEW c, NEW p \in Peers, links' = Closed(c, p)
    PROVE  /\ LinksOK' /\ DOMAIN links' = DOMAIN links
           /\ \A d \in DOMAIN links :
                 /\ Kept(d) /\ Unmoved(d) /\ Taken(d)' = Taken(d)
                 /\ Open(d)' = IF d = c THEN Open(d) \ {p} ELSE Open(d)
<1>1. /\ links' \in Seq(Link) /\ DOMAIN links' = DOMAIN links
      /\ \A d \in DOMAIN links : d # c => links'[d] = links[d]
  BY LinkCloses
<1>2. ASSUME NEW d \in DOMAIN links
      PROVE  /\ Kept(d) /\ Unmoved(d) /\ Taken(d)' = Taken(d)
             /\ Open(d)' = IF d = c THEN Open(d) \ {p} ELSE Open(d)
             /\ DOMAIN links'[d].in = DOMAIN links[d].in
  <2>1. CASE d # c
    BY <1>1, <2>1 DEF Kept, Unmoved, From, To, Open, Taken, In
  <2>2. CASE d = c
    <3>1. /\ Open(d)' = Open(c) \ {p} /\ From(d)' = From(d) /\ To(d)' = To(d)
          /\ links'[d].in = links[d].in /\ Taken(d)' = Taken(d)
      BY <2>2, LinkCloses DEF From, To, Open, Taken
    <3> QED
      BY <2>2, <3>1 DEF Kept, Unmoved, In
  <2> QED
    BY <2>1, <2>2
<1>3. ASSUME NEW d \in DOMAIN links
      PROVE  /\ From(d)' # To(d)' /\ Open(d)' \subseteq {From(d)', To(d)'}
             /\ DOMAIN links'[d].in = {From(d)', To(d)'}
  BY <1>2 DEF LinksOK, Kept
<1>4. LinksOK'
  BY <1>1, <1>3 DEF LinksOK
<1> QED
  BY <1>1, <1>2, <1>4

\* An element of a sequence.
LEMMA ElementReplaced ==
    ASSUME NEW S, NEW s \in Seq(S), NEW i \in DOMAIN s, NEW x \in S
    PROVE  [s EXCEPT ![i] = x] \in Seq(S) /\ DOMAIN [s EXCEPT ![i] = x] = DOMAIN s
  OBVIOUS

\* A connection is taken, and closed at once if it is not the candidate's.
LEMMA LinkIsTaken ==
    ASSUME LinksOK, NEW c \in DOMAIN links, NEW p \in Peers, NEW old,
           old = links \/ old = Closed(c, p),
           links' = [old EXCEPT ![c].taken = TRUE]
    PROVE  /\ LinksOK' /\ DOMAIN links' = DOMAIN links
           /\ \A d \in DOMAIN links :
                 /\ Kept(d) /\ Unmoved(d) /\ Taken(d)' = (Taken(d) \/ d = c)
                 /\ old = links => Open(d)' = Open(d)
<1> DEFINE l == old[c]
           m == [l EXCEPT !.taken = TRUE]
<1>1. /\ old \in Seq(Link) /\ DOMAIN old = DOMAIN links
      /\ \A d \in DOMAIN links : d # c => old[d] = links[d]
      /\ l.open \in {Open(c), Open(c) \ {p}} /\ l.from = From(c) /\ l.to = To(c)
      /\ l.in = links[c].in
      /\ old = links => l.open = Open(c)
  <2>1. CASE old = links
    BY <2>1 DEF LinksOK, From, To, Open
  <2>2. CASE old = Closed(c, p) /\ old # links
    BY <2>2, LinkCloses
  <2> QED
    BY <2>1, <2>2
<1>2. l \in Link
  BY <1>1
<1>3. links' = [old EXCEPT ![c] = m]
  OBVIOUS
<1>4. m \in Link /\ m.taken = TRUE /\ m.from = l.from /\ m.to = l.to /\ m.in = l.in /\ m.open = l.open
  BY <1>2, LinkWith
<1> HIDE DEF m
<1>5. /\ links' \in Seq(Link) /\ DOMAIN links' = DOMAIN links /\ links'[c] = m
      /\ \A d \in DOMAIN links : d # c => links'[d] = links[d]
  <2>1. c \in DOMAIN old
    BY <1>1
  <2>2. links' \in Seq(Link) /\ DOMAIN links' = DOMAIN old
    <3>1. old \in Seq(Link) /\ m \in Link
      BY <1>1, <1>4
    <3>2. [old EXCEPT ![c] = m] \in Seq(Link) /\ DOMAIN [old EXCEPT ![c] = m] = DOMAIN old
      BY ONLY <2>1, <3>1, ElementReplaced
    <3> QED
      BY ONLY <1>3, <3>2
  <2>3. links'[c] = m /\ \A d \in DOMAIN old : d # c => links'[d] = old[d]
    BY <1>3, <2>1
  <2> QED
    BY <1>1, <2>2, <2>3
<1> HIDE DEF l
<1>6. ASSUME NEW d \in DOMAIN links, d # c
      PROVE  Kept(d) /\ Unmoved(d) /\ Taken(d)' = Taken(d) /\ Open(d)' = Open(d)
  BY <1>5, <1>6 DEF Kept, Unmoved, From, To, Open, Taken, In
<1>7. /\ Kept(c) /\ Taken(c)' = TRUE /\ links'[c].in = links[c].in
      /\ Open(c)' \in {Open(c), Open(c) \ {p}} /\ (old = links => Open(c)' = Open(c))
  BY <1>1, <1>4, <1>5 DEF Kept, From, To, Open, Taken
<1>8. Unmoved(c)
  BY <1>7 DEF Unmoved, In
<1>9. ASSUME NEW d \in DOMAIN links
      PROVE  /\ From(d)' # To(d)' /\ Open(d)' \subseteq {From(d)', To(d)'}
             /\ DOMAIN links'[d].in = {From(d)', To(d)'}
  <2>1. DOMAIN links'[d].in = DOMAIN links[d].in /\ Kept(d) /\ Open(d)' \subseteq Open(d)
    BY <1>5, <1>6, <1>7
  <2> QED
    BY <2>1 DEF LinksOK, Kept
<1>10. LinksOK'
  BY <1>5, <1>9 DEF LinksOK
<1>11. \A d \in DOMAIN links : Taken(d) \in BOOLEAN
  BY LinkIs
<1>12. ASSUME NEW d \in DOMAIN links
       PROVE  /\ Kept(d) /\ Unmoved(d) /\ Taken(d)' = (Taken(d) \/ d = c)
              /\ old = links => Open(d)' = Open(d)
  BY <1>6, <1>7, <1>8, <1>11
<1> QED
  BY <1>5, <1>10, <1>12

EndsOf(c) == DOMAIN links[c].in

\* A connection from p to q.
NewLink(p, q) == [from |-> p, to |-> q, open |-> {p, q}, taken |-> FALSE,
                  in |-> [r \in {p, q} |-> << >>]]

\* What the connection is that is made.
LEMMA LinkMade ==
    ASSUME LinksOK, NEW p \in Peers, NEW q \in Peers, p # q,
           NEW old \in Seq(Link), DOMAIN old = DOMAIN links,
           links' = Append(old, NewLink(p, q)), NEW n, n = Len(links) + 1
    PROVE  /\ links' \in Seq(Link) /\ n \notin DOMAIN links /\ n \in Nat
           /\ DOMAIN links' = DOMAIN links \cup {n}
           /\ \A d \in DOMAIN links : links'[d] = old[d]
           /\ From(n)' = p /\ To(n)' = q /\ Open(n)' = {p, q} /\ Taken(n)' = FALSE
           /\ In(n, p)' = << >> /\ In(n, q)' = << >>
           /\ EndsOf(n)' = {p, q}
<1> DEFINE l == NewLink(p, q)
<1>1. links \in Seq(Link) /\ DOMAIN links = 1..Len(links) /\ Len(links) \in Nat
  BY LinkIs DEF LinksOK
<1>2. l \in Link
  <2> DEFINE ins == UNION {[e -> Seq(Message)] : e \in SUBSET Peers}
  <2>1. [r \in {p, q} |-> << >>] \in ins
    <3>1. [r \in {p, q} |-> << >>] \in [{p, q} -> Seq(Message)] /\ {p, q} \in SUBSET Peers
      OBVIOUS
    <3> QED
      BY <3>1
  <2> HIDE DEF ins
  <2>2. l \in [from : Peers, to : Peers, open : SUBSET Peers, taken : BOOLEAN, in : ins]
    BY <2>1 DEF NewLink
  <2> QED
    BY <2>2 DEF Link, ins
<1>3. /\ l.from = p /\ l.to = q /\ l.open = {p, q} /\ l.taken = FALSE
      /\ l.in[p] = << >> /\ l.in[q] = << >> /\ DOMAIN l.in = {p, q}
  BY DEF NewLink
<1> HIDE DEF l
<1>4. Len(old) = Len(links)
  BY <1>1
<1>5. /\ links' \in Seq(Link) /\ DOMAIN links' = 1..n /\ links'[n] = l
      /\ \A d \in DOMAIN links : links'[d] = old[d]
  BY <1>1, <1>2, <1>4 DEF l
<1>6. n \notin DOMAIN links /\ DOMAIN links' = DOMAIN links \cup {n} /\ n \in Nat
  BY <1>1, <1>5
<1>7. /\ From(n)' = p /\ To(n)' = q /\ Open(n)' = {p, q} /\ Taken(n)' = FALSE
      /\ In(n, p)' = << >> /\ In(n, q)' = << >>
      /\ EndsOf(n)' = {p, q}
  BY <1>3, <1>5 DEF From, To, Open, Taken, In, EndsOf
<1> QED
  BY <1>5, <1>6, <1>7

\* It keeps the links what they are, ...
LEMMA LinkAppended ==
    ASSUME LinksOK, NEW p \in Peers, NEW q \in Peers, p # q,
           NEW old \in Seq(Link), DOMAIN old = DOMAIN links,
           \A d \in DOMAIN links : /\ old[d].from = From(d) /\ old[d].to = To(d)
                                   /\ old[d].open \subseteq Open(d) /\ old[d].in = links[d].in,
           links' = Append(old, NewLink(p, q)), NEW n, n = Len(links) + 1
    PROVE  LinksOK' /\ DOMAIN links' = DOMAIN links \cup {n}
<1>3. /\ links' \in Seq(Link) /\ n \notin DOMAIN links
      /\ DOMAIN links' = DOMAIN links \cup {n} /\ \A d \in DOMAIN links : links'[d] = old[d]
  <2>1. links' \in Seq(Link) /\ n \notin DOMAIN links
    BY LinkMade
  <2>2. DOMAIN links' = DOMAIN links \cup {n}
    BY LinkMade
  <2>3. \A d \in DOMAIN links : links'[d] = old[d]
    BY LinkMade
  <2> QED
    BY <2>1, <2>2, <2>3
<1>4. From(n)' = p /\ To(n)' = q /\ Open(n)' = {p, q} /\ EndsOf(n)' = {p, q}
  <2>1. From(n)' = p
    BY LinkMade
  <2>2. To(n)' = q
    BY LinkMade
  <2>3. Open(n)' = {p, q}
    BY LinkMade
  <2>4. EndsOf(n)' = {p, q}
    BY LinkMade
  <2> QED
    BY <2>1, <2>2, <2>3, <2>4
<1>5. ASSUME NEW d \in DOMAIN links
      PROVE  /\ From(d)' # To(d)' /\ Open(d)' \subseteq {From(d)', To(d)'}
             /\ EndsOf(d)' = {From(d)', To(d)'}
  <2>1. From(d)' = From(d) /\ To(d)' = To(d) /\ Open(d)' \subseteq Open(d)
    BY <1>3 DEF From, To, Open
  <2>2. links'[d].in = links[d].in
    BY <1>3
  <2>3. EndsOf(d)' = EndsOf(d)
    BY <2>2 DEF EndsOf
  <2> QED
    BY <2>1, <2>3 DEF LinksOK, EndsOf
<1>6. From(n)' # To(n)' /\ Open(n)' \subseteq {From(n)', To(n)'} /\ EndsOf(n)' = {From(n)', To(n)'}
  BY <1>4
<1>7. \A d \in DOMAIN links' : /\ From(d)' # To(d)' /\ Open(d)' \subseteq {From(d)', To(d)'}
                               /\ EndsOf(d)' = {From(d)', To(d)'}
  BY <1>3, <1>5, <1>6
<1>8. LinksOK'
  BY <1>3, <1>7 DEF LinksOK, EndsOf
<1> QED
  BY <1>3, <1>8

\* ... when the driver makes it.
LEMMA LinkAdded ==
    ASSUME LinksOK, NEW p \in Peers, NEW q \in Peers, p # q, NEW c,
           links' = Append(Closed(c, p), NewLink(p, q))
    PROVE  LinksOK' /\ DOMAIN links' = DOMAIN links \cup {Len(links) + 1}
<1> DEFINE old == Closed(c, p)
<1>1. /\ old \in Seq(Link) /\ DOMAIN old = DOMAIN links
      /\ \A d \in DOMAIN links : /\ old[d].from = From(d) /\ old[d].to = To(d)
                                  /\ old[d].open \subseteq Open(d) /\ old[d].in = links[d].in
  BY LinkCloses DEF From, To, Open
<1>2. links' = Append(old, NewLink(p, q))
  OBVIOUS
<1> HIDE DEF old
<1> QED
  BY <1>1, <1>2, LinkAppended

-----------------------------------------------------------------------------
(* Jobs                                                                    *)

\* What p does: a job goes one step on; or is done; or others are published.
Others(p) == \A q \in Peers : q # p => Same(q) /\ (Once(q)' <=> Once(q))
Advances(p, h, l, x, g) ==
    /\ Others(p) /\ Doing(p, h, l, x) /\ Doing(p, g, l, x)'
    /\ \A s, a, y : Doing(p, s, a, y)' => Doing(p, s, a, y) \/ (s = g /\ a = l /\ y = x)
    /\ \A s, a, y : Doing(p, s, a, y) => Doing(p, s, a, y)' \/ (s = h /\ a = l /\ y = x)
Finishes(p, h, x) ==
    /\ Others(p) /\ Doing(p, h, h, x)
    /\ \A s, a, y : Doing(p, s, a, y)' => Doing(p, s, a, y)
    /\ \A s, a, y : Doing(p, s, a, y) => Doing(p, s, a, y)' \/ (s = h /\ a = h /\ y = x)
Gets(p, h, l, x) ==
    /\ Others(p)
    /\ \A s, a, y : Doing(p, s, a, y)' <=> Doing(p, s, a, y) \/ (s = h /\ a = l /\ y = x)
\* One job goes on and another is published.
Spawns(p, h, l, x, g, h1, l1, x1) ==
    /\ Others(p) /\ Doing(p, h, l, x) /\ (h # l => Doing(p, g, l, x)') /\ Doing(p, h1, l1, x1)'
    /\ \A s, a, y : Doing(p, s, a, y)' =>
          \/ Doing(p, s, a, y) \/ (h # l /\ s = g /\ a = l /\ y = x)
          \/ (s = h1 /\ a = l1 /\ y = x1)
    /\ \A s, a, y : Doing(p, s, a, y) => Doing(p, s, a, y)' \/ (s = h /\ a = l /\ y = x)

\* The same of jobs as Single of tasks.
Alone(h, l) == \/ l = "request" /\ h # "dial"
               \/ h \in {"accept", "reject"}
               \/ l = "established"

\* A task is a job that is done.
LEMMA JobDone ==
    ASSUME TodoOK, NEW p \in Peers, NEW t \in BagToSet(todo[p])
    PROVE  /\ t \in Tasks /\ Doing(p, Head(t.steps), Aim(t), t.arg)
           /\ <<Head(t.steps), Aim(t)>> \in Kinds /\ t.arg \in Args(Aim(t))
           /\ Single(t) <=> Alone(Head(t.steps), Aim(t))
<1>1. t \in Tasks
  BY DEF TodoOK
<1>2. Doing(p, Head(t.steps), Aim(t), t.arg)
  BY DEF Doing, Jobs, JobOf
<1> QED
  BY <1>1, <1>2, TaskIs DEF Single, Alone

\* A step of a handler, ...
LEMMA JobAdvances ==
    ASSUME TodoOK, NEW p \in Peers, NEW t \in BagToSet(todo[p]), Head(t.steps) # Aim(t),
           todo' = After(p, t, {})
    PROVE  LET h == Head(t.steps)
               l == Aim(t)
               x == t.arg
               g == StepAfter(h, l)
           IN  /\ TodoOK' /\ Advances(p, h, l, x, g)
               /\ Once(p) /\ Alone(h, l) => ~Doing(p, h, l, x)'
               /\ Once(p) /\ (Alone(g, l) => ~Doing(p, g, l, x)) => Once(p)'
<1> DEFINE h == Head(t.steps)
           l == Aim(t)
           x == t.arg
           g == StepAfter(h, l)
<1>1. t \in Tasks /\ Doing(p, h, l, x) /\ (Single(t) <=> Alone(h, l))
  BY JobDone
<1>2. Head(Rest(t).steps) = g /\ Aim(Rest(t)) = l
  BY <1>1, TaskIs
<1>3. Single(Rest(t)) <=> Alone(g, l)
  BY <1>2, Zenon DEF Single, Alone
<1>4. {JobOf(u) : u \in {}} = {}
  OBVIOUS
<1>5. /\ TodoOK' /\ Turns(p, h, l, x, {<<g, l, x>>})
      /\ Once(p) /\ Single(t) => ~Doing(p, h, l, x)'
      /\ Once(p) /\ (Single(Rest(t)) => ~Doing(p, g, l, x)) => Once(p)'
  BY <1>4, StepTurns
<1>6. \A s, a, y : <<s, a, y>> \in {<<g, l, x>>} <=> (s = g /\ a = l /\ y = x)
  OBVIOUS
<1> HIDE DEF h, l, x, g
<1>7. Advances(p, h, l, x, g)
  BY <1>1, <1>5, <1>6 DEF Turns, Advances, Others
<1> QED
  BY <1>1, <1>3, <1>5, <1>7 DEF h, l, x, g

\* ... its last step, ...
LEMMA JobFinishes ==
    ASSUME TodoOK, NEW p \in Peers, NEW t \in BagToSet(todo[p]), Head(t.steps) = Aim(t),
           todo' = After(p, t, {})
    PROVE  /\ TodoOK' /\ Finishes(p, Aim(t), t.arg)
           /\ Once(p) => Once(p)'
           /\ Once(p) /\ Alone(Aim(t), Aim(t)) => ~Doing(p, Aim(t), Aim(t), t.arg)'
<1> DEFINE l == Aim(t)
           x == t.arg
<1>1. t \in Tasks /\ Doing(p, l, l, x) /\ (Single(t) <=> Alone(l, l))
  BY JobDone
<1>4. {JobOf(u) : u \in {}} = {}
  OBVIOUS
<1>5. /\ TodoOK' /\ Turns(p, l, l, x, {}) /\ (Once(p) => Once(p)')
      /\ Once(p) /\ Single(t) => ~Doing(p, l, l, x)'
  BY <1>4, StepTurns
<1> HIDE DEF l, x
<1>7. Finishes(p, l, x)
  BY <1>1, <1>5 DEF Turns, Finishes, Others
<1> QED
  BY <1>1, <1>5, <1>7 DEF l, x

\* ... and one that publishes a handler.
LEMMA JobSpawns ==
    ASSUME TodoOK, NEW p \in Peers, NEW t \in BagToSet(todo[p]), NEW u \in Tasks,
           ~Alone(StepAfter(Head(t.steps), Aim(t)), Aim(t)),
           ~Alone(Head(u.steps), Aim(u)), Aim(u) # Aim(t),
           todo' = After(p, t, {u})
    PROVE  LET h == Head(t.steps)
               l == Aim(t)
               x == t.arg
               g == StepAfter(h, l)
           IN  /\ TodoOK' /\ Spawns(p, h, l, x, g, Head(u.steps), Aim(u), u.arg)
               /\ Once(p) => Once(p)'
<1> DEFINE h == Head(t.steps)
           l == Aim(t)
           x == t.arg
           g == StepAfter(h, l)
           h1 == Head(u.steps)
           l1 == Aim(u)
           x1 == u.arg
<1>1. t \in Tasks /\ Doing(p, h, l, x) /\ (Single(t) <=> Alone(h, l))
      /\ (Len(t.steps) = 1 <=> h = l)
  BY JobDone, TaskIs
<1>2. h # l => Head(Rest(t).steps) = g /\ Aim(Rest(t)) = l
  BY <1>1, TaskIs
<1>3. h # l => (Single(Rest(t)) <=> Alone(g, l))
  BY <1>2, Zenon DEF Single, Alone
<1>4. {JobOf(v) : v \in {u}} = {<<h1, l1, x1>>}
  BY DEF JobOf
<1>5. ~Single(u)
  BY DEF Single, Alone
<1>6. h # l => Rest(t) \notin {u}
  BY <1>2
<1>7. {u} \in SUBSET Tasks
  OBVIOUS
<1>8. /\ TodoOK'
      /\ h = l => Turns(p, h, l, x, {<<h1, l1, x1>>})
      /\ h # l => Turns(p, h, l, x, {<<g, l, x>>} \cup {<<h1, l1, x1>>})
      /\ /\ Once(p)
         /\ h # l /\ Single(Rest(t)) => ~Doing(p, g, l, x)
         => Once(p)'
  BY <1>4, <1>5, <1>6, <1>7, StepTurns
<1>9. \A s, a, y : /\ <<s, a, y>> \in {<<h1, l1, x1>>} <=> (s = h1 /\ a = l1 /\ y = x1)
                  /\ <<s, a, y>> \in {<<g, l, x>>} \cup {<<h1, l1, x1>>} <=>
                        (s = h1 /\ a = l1 /\ y = x1) \/ (s = g /\ a = l /\ y = x)
  OBVIOUS
<1>10. Once(p) => Once(p)'
  BY <1>3, <1>8
<1> HIDE DEF h, l, x, g, h1, l1, x1
<1>11. h = l => Spawns(p, h, l, x, g, h1, l1, x1)
  BY <1>1, <1>8, <1>9 DEF Turns, Spawns, Others
<1>12. h # l => Spawns(p, h, l, x, g, h1, l1, x1)
  BY <1>1, <1>8, <1>9 DEF Turns, Spawns, Others
<1>13. Spawns(p, h, l, x, g, h1, l1, x1)
  BY <1>11, <1>12
<1> QED
  BY <1>8, <1>10, <1>13 DEF h, l, x, g, h1, l1, x1

\* The same of a job that is published by another.
LEMMA JobGets ==
    ASSUME TodoOK, NEW p \in Peers, NEW u \in Tasks, Publish(p, {u})
    PROVE  LET h == Head(u.steps)
               l == Aim(u)
               x == u.arg
           IN  /\ TodoOK' /\ Gets(p, h, l, x)
               /\ Once(p) /\ (Alone(h, l) => ~Doing(p, h, l, x)) => Once(p)'
<1> DEFINE h == Head(u.steps)
           l == Aim(u)
           x == u.arg
<1>1. {JobOf(v) : v \in {u}} = {<<h, l, x>>}
  BY DEF JobOf
<1>2. /\ TodoOK'
      /\ Others(p)
      /\ \A s, a, y : Doing(p, s, a, y)' <=> Doing(p, s, a, y) \/ <<s, a, y>> \in {<<h, l, x>>}
      /\ Once(p) /\ (Single(u) => ~Doing(p, h, l, x)) => Once(p)'
  BY <1>1, PublishTurns DEF Others
<1>3. \A s, a, y : <<s, a, y>> \in {<<h, l, x>>} <=> (s = h /\ a = l /\ y = x)
  OBVIOUS
<1>4. Single(u) <=> Alone(h, l)
  BY DEF Single, Alone
<1> HIDE DEF h, l, x
<1>5. Gets(p, h, l, x)
  BY <1>2, <1>3 DEF Gets
<1> QED
  BY <1>2, <1>4, <1>5 DEF h, l, x

\* Nothing is published.
LEMMA NothingPublished ==
    ASSUME TodoOK, NEW p \in Peers, Publish(p, {})
    PROVE  TodoOK' /\ (\A q \in Peers : Same(q) /\ (Once(q) => Once(q)'))
<1>1. {JobOf(v) : v \in {}} = {}
  OBVIOUS
<1>2. {} \in SUBSET Tasks
  OBVIOUS
<1> QED
  BY <1>1, <1>2, PublishTurns DEF Same

\* A handler that is published, as a job.
JobIs(u, h, l, x) == u \in Tasks /\ Head(u.steps) = h /\ Aim(u) = l /\ u.arg = x

\* A plan with its argument is a task.
LEMMA HandlerIs ==
    ASSUME NEW s \in Plans, NEW x \in Args(s[Len(s)])
    PROVE  JobIs(Task(s, x), Head(s), s[Len(s)], x)
<1>1. x \in Peers \cup Nat \cup {Nobody}
  BY DEF Args
<1>2. Task(s, x) = [steps |-> s, arg |-> x]
  BY DEF Task
<1> DEFINE u == [steps |-> s, arg |-> x]
<1>3. u \in [steps : Plans, arg : Peers \cup Nat \cup {Nobody}] /\ u.steps = s /\ u.arg = x
  BY <1>1
<1> HIDE DEF u
<1>4. Aim(u) = s[Len(s)]
  BY <1>3 DEF Aim
<1>5. u \in Tasks
  BY <1>3, <1>4 DEF Tasks
<1>6. JobIs(u, Head(s), s[Len(s)], x)
  BY <1>3, <1>4, <1>5 DEF JobIs
<1> QED
  BY <1>2, <1>6 DEF u

\* The handlers, as jobs.
LEMMA HandlerJobs ==
    /\ \A q \in Peers : JobIs(SendConnectRequest(q), "dial", "request", q)
    /\ \A c \in Nat : JobIs(Accepted(c), "recvMsg", "established", c)
    /\ \A q \in Peers \cup {Nobody} : JobIs(Start(q), "listen", "started", q)
    /\ JobIs(SendAccept, "accept", "statusOn", Nobody)
    /\ JobIs(SendReject, "reject", "statusOff", Nobody)
    /\ JobIs(HaveAccept, "initLow", "statusOn", Nobody)
    /\ JobIs(HaveReject, "reset", "statusOff", Nobody)
    /\ JobIs(ResetConnection, "cancel", "reset", Nobody)
    /\ JobIs(CancelConnRequest, "reset", "reset", Nobody)
    /\ JobIs(Disconnect, "reset", "close", Nobody)
    /\ JobIs(ConnectError, "reset", "unconnected", Nobody)
    /\ JobIs(ConnClosed, "reset", "again", Nobody)
    /\ JobIs(SendInitFileReceiverDone, "ready", "ready", Nobody)
    /\ JobIs(Stop, "stop", "stop", Nobody)
    /\ JobIs(InitFileSenders, "initFileSenders", "initFileSenders", Nobody)
<1>1. ASSUME NEW q \in Peers PROVE JobIs(SendConnectRequest(q), "dial", "request", q)
  <2> DEFINE s == <<"dial", "exchange", "connect", "recvMsg", "request">>
  <2>1. s \in Plans
    BY DEF Plans
  <2>2. Head(s) = "dial" /\ s[Len(s)] = "request"
    OBVIOUS
  <2>3. SendConnectRequest(q) = Task(s, q)
    BY DEF SendConnectRequest, Plain
  <2> HIDE DEF s
  <2>4. q \in Args(s[Len(s)])
    BY <2>2 DEF Args
  <2> QED
    BY <2>1, <2>2, <2>3, <2>4, HandlerIs
<1>2. JobIs(SendAccept, "accept", "statusOn", Nobody)
  <2> DEFINE s == <<"accept", "initHigh", "statusOn">>
  <2>1. s \in Plans
    BY DEF Plans
  <2>2. Head(s) = "accept" /\ s[Len(s)] = "statusOn"
    OBVIOUS
  <2>3. SendAccept = Task(s, Nobody)
    BY DEF SendAccept, Plain
  <2> HIDE DEF s
  <2>4. Nobody \in Args(s[Len(s)])
    BY <2>2 DEF Args
  <2> QED
    BY <2>1, <2>2, <2>3, <2>4, HandlerIs
<1>3. JobIs(SendReject, "reject", "statusOff", Nobody)
  <2> DEFINE s == <<"reject", "reset", "statusOff">>
  <2>1. s \in Plans
    BY DEF Plans
  <2>2. Head(s) = "reject" /\ s[Len(s)] = "statusOff"
    OBVIOUS
  <2>3. SendReject = Task(s, Nobody)
    BY DEF SendReject, Plain
  <2> HIDE DEF s
  <2>4. Nobody \in Args(s[Len(s)])
    BY <2>2 DEF Args
  <2> QED
    BY <2>1, <2>2, <2>3, <2>4, HandlerIs
<1>4. JobIs(HaveAccept, "initLow", "statusOn", Nobody)
  <2> DEFINE s == <<"initLow", "statusOn">>
  <2>1. s \in Plans
    BY DEF Plans
  <2>2. Head(s) = "initLow" /\ s[Len(s)] = "statusOn"
    OBVIOUS
  <2>3. HaveAccept = Task(s, Nobody)
    BY DEF HaveAccept, Plain
  <2> HIDE DEF s
  <2>4. Nobody \in Args(s[Len(s)])
    BY <2>2 DEF Args
  <2> QED
    BY <2>1, <2>2, <2>3, <2>4, HandlerIs
<1>5. JobIs(HaveReject, "reset", "statusOff", Nobody)
  <2> DEFINE s == <<"reset", "statusOff">>
  <2>1. s \in Plans
    BY DEF Plans
  <2>2. Head(s) = "reset" /\ s[Len(s)] = "statusOff"
    OBVIOUS
  <2>3. HaveReject = Task(s, Nobody)
    BY DEF HaveReject, Plain
  <2> HIDE DEF s
  <2>4. Nobody \in Args(s[Len(s)])
    BY <2>2 DEF Args
  <2> QED
    BY <2>1, <2>2, <2>3, <2>4, HandlerIs
<1>6. JobIs(ResetConnection, "cancel", "reset", Nobody)
  <2> DEFINE s == <<"cancel", "reset">>
  <2>1. s \in Plans
    BY DEF Plans
  <2>2. Head(s) = "cancel" /\ s[Len(s)] = "reset"
    OBVIOUS
  <2>3. ResetConnection = Task(s, Nobody)
    BY DEF ResetConnection, Plain
  <2> HIDE DEF s
  <2>4. Nobody \in Args(s[Len(s)])
    BY <2>2 DEF Args
  <2> QED
    BY <2>1, <2>2, <2>3, <2>4, HandlerIs
<1>7. JobIs(CancelConnRequest, "reset", "reset", Nobody)
  <2> DEFINE s == <<"reset">>
  <2>1. s \in Plans
    BY DEF Plans
  <2>2. Head(s) = "reset" /\ s[Len(s)] = "reset"
    OBVIOUS
  <2>3. CancelConnRequest = Task(s, Nobody)
    BY DEF CancelConnRequest, Plain
  <2> HIDE DEF s
  <2>4. Nobody \in Args(s[Len(s)])
    BY <2>2 DEF Args
  <2> QED
    BY <2>1, <2>2, <2>3, <2>4, HandlerIs
<1>8. JobIs(Disconnect, "reset", "close", Nobody)
  <2> DEFINE s == <<"reset", "close">>
  <2>1. s \in Plans
    BY DEF Plans
  <2>2. Head(s) = "reset" /\ s[Len(s)] = "close"
    OBVIOUS
  <2>3. Disconnect = Task(s, Nobody)
    BY DEF Disconnect, Plain
  <2> HIDE DEF s
  <2>4. Nobody \in Args(s[Len(s)])
    BY <2>2 DEF Args
  <2> QED
    BY <2>1, <2>2, <2>3, <2>4, HandlerIs
<1>9. JobIs(ConnectError, "reset", "unconnected", Nobody)
  <2> DEFINE s == <<"reset", "lost", "unconnected">>
  <2>1. s \in Plans
    BY DEF Plans
  <2>2. Head(s) = "reset" /\ s[Len(s)] = "unconnected"
    OBVIOUS
  <2>3. ConnectError = Task(s, Nobody)
    BY DEF ConnectError, Plain
  <2> HIDE DEF s
  <2>4. Nobody \in Args(s[Len(s)])
    BY <2>2 DEF Args
  <2> QED
    BY <2>1, <2>2, <2>3, <2>4, HandlerIs
<1>10. JobIs(ConnClosed, "reset", "again", Nobody)
  <2> DEFINE s == <<"reset", "lost", "again">>
  <2>1. s \in Plans
    BY DEF Plans
  <2>2. Head(s) = "reset" /\ s[Len(s)] = "again"
    OBVIOUS
  <2>3. ConnClosed = Task(s, Nobody)
    BY DEF ConnClosed, Plain
  <2> HIDE DEF s
  <2>4. Nobody \in Args(s[Len(s)])
    BY <2>2 DEF Args
  <2> QED
    BY <2>1, <2>2, <2>3, <2>4, HandlerIs
<1>11. JobIs(SendInitFileReceiverDone, "ready", "ready", Nobody)
  <2> DEFINE s == <<"ready">>
  <2>1. s \in Plans
    BY DEF Plans
  <2>2. Head(s) = "ready" /\ s[Len(s)] = "ready"
    OBVIOUS
  <2>3. SendInitFileReceiverDone = Task(s, Nobody)
    BY DEF SendInitFileReceiverDone, Plain
  <2> HIDE DEF s
  <2>4. Nobody \in Args(s[Len(s)])
    BY <2>2 DEF Args
  <2> QED
    BY <2>1, <2>2, <2>3, <2>4, HandlerIs
<1>12. ASSUME NEW c \in Nat PROVE JobIs(Accepted(c), "recvMsg", "established", c)
  <2> DEFINE s == <<"recvMsg", "established">>
  <2>1. s \in Plans
    BY DEF Plans
  <2>2. Head(s) = "recvMsg" /\ s[Len(s)] = "established"
    OBVIOUS
  <2>3. Accepted(c) = Task(s, c)
    BY DEF Accepted, Plain
  <2> HIDE DEF s
  <2>4. c \in Args(s[Len(s)])
    BY <2>2 DEF Args
  <2> QED
    BY <2>1, <2>2, <2>3, <2>4, HandlerIs
<1>13. ASSUME NEW q \in Peers \cup {Nobody} PROVE JobIs(Start(q), "listen", "started", q)
  <2> DEFINE s == <<"listen", "started">>
  <2>1. s \in Plans
    BY DEF Plans
  <2>2. Head(s) = "listen" /\ s[Len(s)] = "started"
    OBVIOUS
  <2>3. Start(q) = Task(s, q)
    BY DEF Start, Plain
  <2> HIDE DEF s
  <2>4. q \in Args(s[Len(s)])
    BY <2>2 DEF Args
  <2> QED
    BY <2>1, <2>2, <2>3, <2>4, HandlerIs
<1>14. JobIs(Stop, "stop", "stop", Nobody)
  <2> DEFINE s == <<"stop">>
  <2>1. s \in Plans
    BY DEF Plans
  <2>2. Head(s) = "stop" /\ s[Len(s)] = "stop"
    OBVIOUS
  <2>3. Stop = Task(s, Nobody)
    BY DEF Stop, Plain
  <2> HIDE DEF s
  <2>4. Nobody \in Args(s[Len(s)])
    BY <2>2 DEF Args
  <2> QED
    BY <2>1, <2>2, <2>3, <2>4, HandlerIs
<1>15. JobIs(InitFileSenders, "initFileSenders", "initFileSenders", Nobody)
  <2> DEFINE s == <<"initFileSenders">>
  <2>1. s \in Plans
    BY DEF Plans
  <2>2. Head(s) = "initFileSenders" /\ s[Len(s)] = "initFileSenders"
    OBVIOUS
  <2>3. InitFileSenders = Task(s, Nobody)
    BY DEF InitFileSenders, Plain
  <2> HIDE DEF s
  <2>4. Nobody \in Args(s[Len(s)])
    BY <2>2 DEF Args
  <2> QED
    BY <2>1, <2>2, <2>3, <2>4, HandlerIs
<1> QED
  BY <1>1, <1>2, <1>3, <1>4, <1>5, <1>6, <1>7, <1>8, <1>9, <1>10, <1>11, <1>12, <1>13, <1>14, <1>15

\* A job has its steps.
LEMMA StepIn ==
    ASSUME NEW s \in Plans
    PROVE  /\ s[Len(s)] \in {"statusOn", "established", "started"} \/ (s[Len(s)] = "request" /\ Head(s) # "request")
              => \E i \in DOMAIN s : s[i] \in Begins
           /\ s[Len(s)] \in {"statusOff", "reset", "close", "unconnected", "again", "stop"}
              => \E i \in DOMAIN s : s[i] \in Ends
<1>1. CASE s = <<"dial", "exchange", "connect", "recvMsg", "request">>
  <2>1. Len(s) = 5 /\ s[5] = "request" /\ Head(s) = "dial" /\ DOMAIN s = 1..5
    BY <1>1
  <2>2. 1 \in DOMAIN s /\ s[1] = "dial"
    BY <1>1
  <2> QED
    BY <2>1, <2>2 DEF Begins, Ends
<1>2. CASE s = <<"exchange", "connect", "recvMsg", "request">>
  <2>1. Len(s) = 4 /\ s[4] = "request" /\ Head(s) = "exchange" /\ DOMAIN s = 1..4
    BY <1>2
  <2>2. 1 \in DOMAIN s /\ s[1] = "exchange"
    BY <1>2
  <2> QED
    BY <2>1, <2>2 DEF Begins, Ends
<1>3. CASE s = <<"connect", "recvMsg", "request">>
  <2>1. Len(s) = 3 /\ s[3] = "request" /\ Head(s) = "connect" /\ DOMAIN s = 1..3
    BY <1>3
  <2>2. 1 \in DOMAIN s /\ s[1] = "connect"
    BY <1>3
  <2> QED
    BY <2>1, <2>2 DEF Begins, Ends
<1>4. CASE s = <<"recvMsg", "request">>
  <2>1. Len(s) = 2 /\ s[2] = "request" /\ Head(s) = "recvMsg" /\ DOMAIN s = 1..2
    BY <1>4
  <2>2. 1 \in DOMAIN s /\ s[1] = "recvMsg"
    BY <1>4
  <2> QED
    BY <2>1, <2>2 DEF Begins, Ends
<1>5. CASE s = <<"request">>
  <2>1. Len(s) = 1 /\ s[1] = "request" /\ Head(s) = "request" /\ DOMAIN s = 1..1
    BY <1>5
  <2> QED
    BY <2>1 DEF Begins, Ends
<1>6. CASE s = <<"accept", "initHigh", "statusOn">>
  <2>1. Len(s) = 3 /\ s[3] = "statusOn" /\ Head(s) = "accept" /\ DOMAIN s = 1..3
    BY <1>6
  <2>2. 2 \in DOMAIN s /\ s[2] = "initHigh"
    BY <1>6
  <2> QED
    BY <2>1, <2>2 DEF Begins, Ends
<1>7. CASE s = <<"initHigh", "statusOn">>
  <2>1. Len(s) = 2 /\ s[2] = "statusOn" /\ Head(s) = "initHigh" /\ DOMAIN s = 1..2
    BY <1>7
  <2>2. 1 \in DOMAIN s /\ s[1] = "initHigh"
    BY <1>7
  <2> QED
    BY <2>1, <2>2 DEF Begins, Ends
<1>8. CASE s = <<"initLow", "statusOn">>
  <2>1. Len(s) = 2 /\ s[2] = "statusOn" /\ Head(s) = "initLow" /\ DOMAIN s = 1..2
    BY <1>8
  <2>2. 1 \in DOMAIN s /\ s[1] = "initLow"
    BY <1>8
  <2> QED
    BY <2>1, <2>2 DEF Begins, Ends
<1>9. CASE s = <<"statusOn">>
  <2>1. Len(s) = 1 /\ s[1] = "statusOn" /\ Head(s) = "statusOn" /\ DOMAIN s = 1..1
    BY <1>9
  <2>2. 1 \in DOMAIN s /\ s[1] = "statusOn"
    BY <1>9
  <2> QED
    BY <2>1, <2>2 DEF Begins, Ends
<1>10. CASE s = <<"reject", "reset", "statusOff">>
  <2>1. Len(s) = 3 /\ s[3] = "statusOff" /\ Head(s) = "reject" /\ DOMAIN s = 1..3
    BY <1>10
  <2>2. 2 \in DOMAIN s /\ s[2] = "reset"
    BY <1>10
  <2> QED
    BY <2>1, <2>2 DEF Begins, Ends
<1>11. CASE s = <<"reset", "statusOff">>
  <2>1. Len(s) = 2 /\ s[2] = "statusOff" /\ Head(s) = "reset" /\ DOMAIN s = 1..2
    BY <1>11
  <2>2. 1 \in DOMAIN s /\ s[1] = "reset"
    BY <1>11
  <2> QED
    BY <2>1, <2>2 DEF Begins, Ends
<1>12. CASE s = <<"statusOff">>
  <2>1. Len(s) = 1 /\ s[1] = "statusOff" /\ Head(s) = "statusOff" /\ DOMAIN s = 1..1
    BY <1>12
  <2>2. 1 \in DOMAIN s /\ s[1] = "statusOff"
    BY <1>12
  <2> QED
    BY <2>1, <2>2 DEF Begins, Ends
<1>13. CASE s = <<"cancel", "reset">>
  <2>1. Len(s) = 2 /\ s[2] = "reset" /\ Head(s) = "cancel" /\ DOMAIN s = 1..2
    BY <1>13
  <2>2. 2 \in DOMAIN s /\ s[2] = "reset"
    BY <1>13
  <2> QED
    BY <2>1, <2>2 DEF Begins, Ends
<1>14. CASE s = <<"reset">>
  <2>1. Len(s) = 1 /\ s[1] = "reset" /\ Head(s) = "reset" /\ DOMAIN s = 1..1
    BY <1>14
  <2>2. 1 \in DOMAIN s /\ s[1] = "reset"
    BY <1>14
  <2> QED
    BY <2>1, <2>2 DEF Begins, Ends
<1>15. CASE s = <<"reset", "close">>
  <2>1. Len(s) = 2 /\ s[2] = "close" /\ Head(s) = "reset" /\ DOMAIN s = 1..2
    BY <1>15
  <2>2. 1 \in DOMAIN s /\ s[1] = "reset"
    BY <1>15
  <2> QED
    BY <2>1, <2>2 DEF Begins, Ends
<1>16. CASE s = <<"close">>
  <2>1. Len(s) = 1 /\ s[1] = "close" /\ Head(s) = "close" /\ DOMAIN s = 1..1
    BY <1>16
  <2>2. 1 \in DOMAIN s /\ s[1] = "close"
    BY <1>16
  <2> QED
    BY <2>1, <2>2 DEF Begins, Ends
<1>17. CASE s = <<"reset", "lost", "unconnected">>
  <2>1. Len(s) = 3 /\ s[3] = "unconnected" /\ Head(s) = "reset" /\ DOMAIN s = 1..3
    BY <1>17
  <2>2. 1 \in DOMAIN s /\ s[1] = "reset"
    BY <1>17
  <2> QED
    BY <2>1, <2>2 DEF Begins, Ends
<1>18. CASE s = <<"lost", "unconnected">>
  <2>1. Len(s) = 2 /\ s[2] = "unconnected" /\ Head(s) = "lost" /\ DOMAIN s = 1..2
    BY <1>18
  <2>2. 1 \in DOMAIN s /\ s[1] = "lost"
    BY <1>18
  <2> QED
    BY <2>1, <2>2 DEF Begins, Ends
<1>19. CASE s = <<"unconnected">>
  <2>1. Len(s) = 1 /\ s[1] = "unconnected" /\ Head(s) = "unconnected" /\ DOMAIN s = 1..1
    BY <1>19
  <2>2. 1 \in DOMAIN s /\ s[1] = "unconnected"
    BY <1>19
  <2> QED
    BY <2>1, <2>2 DEF Begins, Ends
<1>20. CASE s = <<"reset", "lost", "again">>
  <2>1. Len(s) = 3 /\ s[3] = "again" /\ Head(s) = "reset" /\ DOMAIN s = 1..3
    BY <1>20
  <2>2. 1 \in DOMAIN s /\ s[1] = "reset"
    BY <1>20
  <2> QED
    BY <2>1, <2>2 DEF Begins, Ends
<1>21. CASE s = <<"lost", "again">>
  <2>1. Len(s) = 2 /\ s[2] = "again" /\ Head(s) = "lost" /\ DOMAIN s = 1..2
    BY <1>21
  <2>2. 1 \in DOMAIN s /\ s[1] = "lost"
    BY <1>21
  <2> QED
    BY <2>1, <2>2 DEF Begins, Ends
<1>22. CASE s = <<"again">>
  <2>1. Len(s) = 1 /\ s[1] = "again" /\ Head(s) = "again" /\ DOMAIN s = 1..1
    BY <1>22
  <2>2. 1 \in DOMAIN s /\ s[1] = "again"
    BY <1>22
  <2> QED
    BY <2>1, <2>2 DEF Begins, Ends
<1>23. CASE s = <<"ready">>
  <2>1. Len(s) = 1 /\ s[1] = "ready" /\ Head(s) = "ready" /\ DOMAIN s = 1..1
    BY <1>23
  <2> QED
    BY <2>1 DEF Begins, Ends
<1>24. CASE s = <<"recvMsg", "established">>
  <2>1. Len(s) = 2 /\ s[2] = "established" /\ Head(s) = "recvMsg" /\ DOMAIN s = 1..2
    BY <1>24
  <2>2. 1 \in DOMAIN s /\ s[1] = "recvMsg"
    BY <1>24
  <2> QED
    BY <2>1, <2>2 DEF Begins, Ends
<1>25. CASE s = <<"established">>
  <2>1. Len(s) = 1 /\ s[1] = "established" /\ Head(s) = "established" /\ DOMAIN s = 1..1
    BY <1>25
  <2>2. 1 \in DOMAIN s /\ s[1] = "established"
    BY <1>25
  <2> QED
    BY <2>1, <2>2 DEF Begins, Ends
<1>26. CASE s = <<"listen", "started">>
  <2>1. Len(s) = 2 /\ s[2] = "started" /\ Head(s) = "listen" /\ DOMAIN s = 1..2
    BY <1>26
  <2>2. 1 \in DOMAIN s /\ s[1] = "listen"
    BY <1>26
  <2> QED
    BY <2>1, <2>2 DEF Begins, Ends
<1>27. CASE s = <<"started">>
  <2>1. Len(s) = 1 /\ s[1] = "started" /\ Head(s) = "started" /\ DOMAIN s = 1..1
    BY <1>27
  <2>2. 1 \in DOMAIN s /\ s[1] = "started"
    BY <1>27
  <2> QED
    BY <2>1, <2>2 DEF Begins, Ends
<1>28. CASE s = <<"stop">>
  <2>1. Len(s) = 1 /\ s[1] = "stop" /\ Head(s) = "stop" /\ DOMAIN s = 1..1
    BY <1>28
  <2>2. 1 \in DOMAIN s /\ s[1] = "stop"
    BY <1>28
  <2> QED
    BY <2>1, <2>2 DEF Begins, Ends
<1>29. CASE s = <<"initFileSenders">>
  <2>1. Len(s) = 1 /\ s[1] = "initFileSenders" /\ Head(s) = "initFileSenders" /\ DOMAIN s = 1..1
    BY <1>29
  <2> QED
    BY <2>1 DEF Begins, Ends
<1> QED
  BY <1>1, <1>2, <1>3, <1>4, <1>5, <1>6, <1>7, <1>8, <1>9, <1>10, <1>11, <1>12, <1>13, <1>14, <1>15, <1>16, <1>17, <1>18, <1>19, <1>20, <1>21, <1>22, <1>23, <1>24, <1>25, <1>26, <1>27, <1>28, <1>29 DEF Plans

\* What Beginning, ...
LEMMA BeginningIs ==
    ASSUME TodoOK, NEW p \in Peers, ~Beginning(p)
    PROVE  /\ \A h, x : ~Doing(p, h, "statusOn", x) /\ ~Doing(p, h, "established", x)
                         /\ ~Doing(p, h, "started", x)
           /\ \A h, x : h # "request" => ~Doing(p, h, "request", x)
<1> SUFFICES ASSUME NEW h, NEW l, NEW x, Doing(p, h, l, x),
                    l \in {"statusOn", "established", "started"} \/ (l = "request" /\ h # "request")
             PROVE  FALSE
  OBVIOUS
<1>1. PICK t \in BagToSet(todo[p]) : <<h, l, x>> = JobOf(t)
  BY DEF Doing, Jobs
<1>2. Head(t.steps) = h /\ t.steps[Len(t.steps)] = l /\ t.steps \in Plans
  BY <1>1 DEF JobOf, Aim, TodoOK, Tasks
<1>3. \E i \in DOMAIN t.steps : t.steps[i] \in Begins
  BY <1>2, StepIn
<1> QED
  BY <1>3 DEF Beginning

\* ... Ending ...
LEMMA EndingIs ==
    ASSUME TodoOK, NEW p \in Peers, ~Ending(p)
    PROVE  /\ sock[p] = Nobody => Reads(p) = {}
           /\ \A h, x : /\ ~Doing(p, h, "statusOff", x) /\ ~Doing(p, h, "reset", x)
                         /\ ~Doing(p, h, "close", x) /\ ~Doing(p, h, "unconnected", x)
                         /\ ~Doing(p, h, "again", x) /\ ~Doing(p, h, "stop", x)
<1>1. sock[p] = Nobody => Reads(p) = {}
  BY DEF Ending, EmptyBag, Reads, SetToBag, BagToSet
<1>2. ASSUME NEW h, NEW l, NEW x, Doing(p, h, l, x),
             l \in {"statusOff", "reset", "close", "unconnected", "again", "stop"}
      PROVE  FALSE
  <2>1. PICK t \in BagToSet(todo[p]) : <<h, l, x>> = JobOf(t)
    BY <1>2 DEF Doing, Jobs
  <2>2. Head(t.steps) = h /\ t.steps[Len(t.steps)] = l /\ t.steps \in Plans
    BY <2>1 DEF JobOf, Aim, TodoOK, Tasks
  <2>3. \E i \in DOMAIN t.steps : t.steps[i] \in Ends
    BY <1>2, <2>2, StepIn
  <2> QED
    BY <2>3 DEF Ending
<1> QED
  BY <1>1, <1>2

\* ... and Requesting say of the jobs.
LEMMA RequestingIs ==
    ASSUME TodoOK, NEW p \in Peers, ~Requesting(p)
    PROVE  \A h, x : ~Doing(p, h, "request", x)
<1> SUFFICES ASSUME NEW h, NEW x, Doing(p, h, "request", x)
             PROVE  FALSE
  OBVIOUS
<1>1. PICK t \in BagToSet(todo[p]) : <<h, "request", x>> = JobOf(t)
  BY DEF Doing, Jobs
<1> QED
  BY <1>1 DEF JobOf, Aim, Requesting

-----------------------------------------------------------------------------
(* What a step of another peer keeps                                       *)

\* A step of another peer leaves alone what r keeps, but for keys.
Untouched(r) ==
    /\ Same(r) /\ (Once(r) => Once(r)')
    /\ status'[r] = status[r] /\ sock'[r] = sock[r] /\ online'[r] = online[r]
    /\ dialing'[r] = dialing[r] /\ target'[r] = target[r]
    /\ reading'[r] = reading[r] /\ Reads(r)' = Reads(r)
    /\ connected'[r] = connected[r] /\ ids'[r] = ids[r] /\ partner'[r] = partner[r]
    /\ engine'[r] = engine[r]
    /\ ui'[r] = ui[r] /\ asked'[r] = asked[r]
SameKey(r) == key'[r] = key[r] /\ candidate'[r] = candidate[r]
LinksKept == \A c \in DOMAIN links : c \in DOMAIN links' /\ Kept(c)

\* The jobs of a peer whose tasks stay.
LEMMA JobsSame ==
    ASSUME NEW r, Same(r)
    PROVE  /\ \A s, l : Runs(r, s, l)' <=> Runs(r, s, l)
           /\ \A q : Asks(r, q)' <=> Asks(r, q)
           /\ \A q : Starts(r, q)' <=> Starts(r, q)
           /\ \A c : Adopts(r, c)' <=> Adopts(r, c)
           /\ Begun(r)' <=> Begun(r)
           /\ ToDial(r)' <=> ToDial(r)
           /\ Starting(r)' <=> Starting(r)
           /\ Agrees(r)' <=> Agrees(r)
           /\ TakesBack(r)' <=> TakesBack(r)
           /\ Leaves(r)' <=> Leaves(r)
           /\ Resets(r)' <=> Resets(r)
           /\ Closes(r)' <=> Closes(r)
           /\ Ended(r)' <=> Ended(r)
<1>1. \A s, l : Runs(r, s, l)' <=> Runs(r, s, l)
  BY DEF Same, Runs
<1>2. \A q : Asks(r, q)' <=> Asks(r, q)
  BY DEF Same, Asks
<1>3. \A q : Starts(r, q)' <=> Starts(r, q)
  BY DEF Same, Starts
<1>4. \A c : Adopts(r, c)' <=> Adopts(r, c)
  BY DEF Same, Adopts
<1>5. ToDial(r)' <=> ToDial(r)
  BY DEF Same, ToDial
<1>6. /\ Begun(r)' <=> Begun(r)
      /\ Starting(r)' <=> Starting(r)
      /\ Agrees(r)' <=> Agrees(r)
      /\ TakesBack(r)' <=> TakesBack(r)
      /\ Leaves(r)' <=> Leaves(r)
      /\ Closes(r)' <=> Closes(r)
  BY <1>1, <1>2, <1>3 DEF Begun, Starting, Agrees, TakesBack, Leaves, Closes
<1>7. (Resets(r)' <=> Resets(r)) /\ (Ended(r)' <=> Ended(r))
  BY <1>1, <1>6 DEF Resets, Ended
<1> QED
  BY <1>1, <1>2, <1>3, <1>4, <1>5, <1>6, <1>7

\* The links after a step.
LEMMA LinksNext ==
    ASSUME LinksOK'
    PROVE  /\ DOMAIN links' \subseteq Nat
           /\ Fresh \notin DOMAIN links' /\ Nobody \notin DOMAIN links'
<1>1. DOMAIN links' = 1..Len(links') /\ Len(links') \in Nat
  BY DEF LinksOK
<1> QED
  BY <1>1, SessionAssumption

\* The socket that r uses.
LEMMA SocketSame ==
    ASSUME TypeOK, TypeOK', LinksKept, NEW r \in Peers, sock'[r] = sock[r]
    PROVE  /\ Uses(r)' <=> Uses(r)
           /\ Calls(r)' <=> Calls(r)
           /\ Takes(r)' <=> Takes(r)
           /\ Uses(r) => /\ From(sock[r])' = From(sock[r]) /\ To(sock[r])' = To(sock[r])
                         /\ Other(sock[r], r)' = Other(sock[r], r)
<1>1. /\ Fresh \notin DOMAIN links /\ Nobody \notin DOMAIN links
      /\ Fresh \notin DOMAIN links' /\ Nobody \notin DOMAIN links'
  BY LinkIs, LinksNext DEF TypeOK
<1>2. sock[r] \in DOMAIN links \cup {Fresh, Nobody}
  BY DEF TypeOK
<1>3. Uses(r)' <=> Uses(r)
  BY <1>1, <1>2 DEF Uses, LinksKept
<1>4. Uses(r) => /\ From(sock[r])' = From(sock[r]) /\ To(sock[r])' = To(sock[r])
                 /\ Other(sock[r], r)' = Other(sock[r], r)
  BY DEF Uses, LinksKept, Kept, From, To, Other
<1> QED
  BY <1>3, <1>4 DEF Calls, Takes

\* A step of another peer keeps what a peer has, ...
LEMMA LocalFrame ==
    ASSUME TypeOK, TypeOK', LinksKept, NEW r \in Peers, Untouched(r)
    PROVE  /\ SockInv(r) => SockInv(r)'
           /\ ReadInv(r) => ReadInv(r)'
           /\ AskInv(r) => AskInv(r)'
           /\ PlaceInv(r) => PlaceInv(r)'
           /\ ConnInv(r) => ConnInv(r)'
           /\ EngineInv(r) => EngineInv(r)'
           /\ WindowInv(r) => WindowInv(r)'
<1>1. Same(r) /\ sock'[r] = sock[r]
  BY DEF Untouched
<1>2. /\ \A s, l : Runs(r, s, l)' <=> Runs(r, s, l)
      /\ \A s, l, x : Doing(r, s, l, x)' <=> Doing(r, s, l, x)
      /\ \A q : Asks(r, q)' <=> Asks(r, q)
      /\ \A q : Starts(r, q)' <=> Starts(r, q)
      /\ \A c : Adopts(r, c)' <=> Adopts(r, c)
      /\ Begun(r)' <=> Begun(r)
      /\ ToDial(r)' <=> ToDial(r)
      /\ Starting(r)' <=> Starting(r)
      /\ Agrees(r)' <=> Agrees(r)
      /\ TakesBack(r)' <=> TakesBack(r)
      /\ Leaves(r)' <=> Leaves(r)
      /\ Resets(r)' <=> Resets(r)
      /\ Closes(r)' <=> Closes(r)
      /\ Ended(r)' <=> Ended(r)
  BY <1>1, JobsSame DEF Same
<1>3. /\ Uses(r)' <=> Uses(r)
      /\ Calls(r)' <=> Calls(r)
      /\ Takes(r)' <=> Takes(r)
      /\ Uses(r) => /\ From(sock[r])' = From(sock[r]) /\ To(sock[r])' = To(sock[r])
                    /\ Other(sock[r], r)' = Other(sock[r], r)
  BY <1>1, SocketSame
<1>4. \A c \in DOMAIN links : c \in DOMAIN links'
  BY DEF LinksKept
<1>5. SockInv(r) => SockInv(r)'
  BY <1>1, <1>2, <1>3 DEF SockInv, Untouched
<1>6. ReadInv(r) => ReadInv(r)'
  BY <1>1, <1>2, <1>3 DEF ReadInv, Untouched
<1>7. AskInv(r) => AskInv(r)'
  <2>1. Calls(r) => Uses(r)
    BY DEF Calls
  <2> QED
    BY <1>1, <1>2, <1>3, <2>1 DEF AskInv, Untouched
<1>8. PlaceInv(r) => PlaceInv(r)'
  <2> SUFFICES ASSUME PlaceInv(r)
               PROVE  PlaceInv(r)'
    OBVIOUS
  <2>1. (\A c \in DOMAIN links : Adopts(r, c) => sock[r] = c /\ Takes(r) /\ status[r] = "tls")'
    <3>1. DOMAIN links' \subseteq Nat
      BY LinksNext DEF TypeOK
    <3> QED
      BY <1>1, <1>2, <1>3, <3>1 DEF PlaceInv, Untouched
  <2>2. (\A c \in Nat : Adopts(r, c) => c \in DOMAIN links)'
    BY <1>2, <1>4 DEF PlaceInv
  <2> QED
    BY <1>1, <1>2, <1>3, <2>1, <2>2 DEF PlaceInv, Untouched
<1>9. ConnInv(r) => ConnInv(r)'
  BY <1>1, <1>2, <1>3 DEF ConnInv, Untouched
<1>10. EngineInv(r) => EngineInv(r)'
  <2>1. (Calls(r) => Uses(r)) /\ (Takes(r) => Uses(r))
    BY DEF Calls, Takes
  <2> QED
    <3> SUFFICES ASSUME EngineInv(r)
                 PROVE  EngineInv(r)'
      OBVIOUS
    <3>1. /\ engine'[r] = engine[r] /\ connected'[r] = connected[r] /\ ids'[r] = ids[r]
          /\ partner'[r] = partner[r] /\ asked'[r] = asked[r]
      BY DEF Untouched
    <3>2. (Calls(r) => To(sock[r])' = To(sock[r])) /\ (Takes(r) => From(sock[r])' = From(sock[r]))
      BY <1>3, <2>1
    <3>3. (/\ connected[r] \/ Runs(r, "statusOn", "statusOn") => engine[r].started \/ Starting(r)
           /\ engine[r].started \/ Starting(r) =>
                 connected[r] \/ Runs(r, "statusOn", "statusOn") \/ Closes(r) \/ Runs(r, "stop", "stop")
           /\ engine[r].listening =>
                 engine[r].started \/ \E q \in Peers \cup {Nobody} : Doing(r, "started", "started", q)
           /\ engine[r].started \/ (\E q \in Peers \cup {Nobody} : Doing(r, "started", "started", q)) =>
                 engine[r].listening
           /\ connected[r] \/ Runs(r, "statusOn", "statusOn") =>
                 (Takes(r) => ids[r] = "high") /\ (Calls(r) => ids[r] = "low"))'
      BY <1>2, <1>3, <3>1 DEF EngineInv
    <3>4. (Calls(r) /\ ~Begun(r) => partner[r] = To(sock[r]))'
      BY <1>1, <1>2, <1>3, <3>1, <3>2 DEF EngineInv
    <3>5. (/\ Takes(r)
           /\ asked[r] \/ Runs(r, "accept", "statusOn") \/ Runs(r, "initHigh", "statusOn")
           => partner[r] = From(sock[r]))'
      BY <1>1, <1>2, <1>3, <3>1, <3>2 DEF EngineInv
    <3>6. (\A q \in Peers \cup {Nobody} :
              Doing(r, "listen", "started", q) => Uses(r) /\ q = Other(sock[r], r))'
      BY <1>1, <1>2, <1>3, <3>1 DEF EngineInv
    <3>7. (engine[r].listening /\ Uses(r) => engine[r].addr = Other(sock[r], r))'
      BY <1>1, <1>2, <1>3, <3>1 DEF EngineInv
    <3> QED
      BY <3>3, <3>4, <3>5, <3>6, <3>7 DEF EngineInv
<1>11. WindowInv(r) => WindowInv(r)'
  BY <1>1, <1>2, <1>3 DEF WindowInv, Untouched
<1> QED
  BY <1>5, <1>6, <1>7, <1>8, <1>9, <1>10, <1>11

\* ... what a link has, if it keeps both its ends, ...
LEMMA LinkFrame ==
    ASSUME TypeOK, TypeOK', NEW c \in DOMAIN links, c \in DOMAIN links',
           Kept(c), Unmoved(c), Open(c)' = Open(c), Taken(c)' = Taken(c),
           early' = {} => early = {},
           \A r \in {From(c), To(c)} : Untouched(r) /\ SameKey(r)
    PROVE  /\ LinkInv(c) => LinkInv(c)'
           /\ KeyInv(c) => KeyInv(c)'
           /\ PhaseInv(c) => PhaseInv(c)'
           /\ EndInv(c) => EndInv(c)'
           /\ ReadyInv(c) => ReadyInv(c)'
<1> DEFINE f == From(c)
           t == To(c)
<1>1. /\ f \in Peers /\ t \in Peers /\ From(c)' = f /\ To(c)' = t
      /\ Untouched(f) /\ Untouched(t) /\ SameKey(f) /\ SameKey(t)
      /\ In(c, f)' = In(c, f) /\ In(c, t)' = In(c, t) /\ Open(c) \subseteq {f, t}
  BY LinkIs DEF TypeOK, Kept, Unmoved
<1>2. \A r \in {f, t} :
         /\ \A s, l : Runs(r, s, l)' <=> Runs(r, s, l)
         /\ Begun(r)' <=> Begun(r)
         /\ Resets(r)' <=> Resets(r)
  BY <1>1, JobsSame DEF Untouched
<1>3. \A r \in {f, t} : /\ sock'[r] = sock[r] /\ key'[r] = key[r] /\ asked'[r] = asked[r]
                        /\ connected'[r] = connected[r] /\ ui'[r] = ui[r] /\ engine'[r] = engine[r]
  BY <1>1 DEF Untouched, SameKey
<1>4. \A r : Other(c, r)' = Other(c, r)
  BY DEF Other, Kept, From, To
<1>5. LinkInv(c) => LinkInv(c)'
  BY <1>1, <1>3 DEF LinkInv
<1>6. KeyInv(c) => KeyInv(c)'
  BY <1>1, <1>3 DEF KeyInv
<1>7. /\ Unsent(c)' <=> Unsent(c)
      /\ Underway(c)' <=> Underway(c)
      /\ Shown(c)' <=> Shown(c)
      /\ Accepting(c)' <=> Accepting(c)
      /\ Rejecting(c)' <=> Rejecting(c)
      /\ Refusal(c)' <=> Refusal(c)
      /\ AcceptSent(c)' <=> AcceptSent(c)
      /\ AcceptHeld(c)' <=> AcceptHeld(c)
      /\ Agreeing(c)' <=> Agreeing(c)
  BY <1>1, <1>2, <1>3 DEF Unsent, Underway, Shown, Accepting, Rejecting, Refusal, AcceptSent,
                          AcceptHeld, Agreeing
<1>8. PhaseInv(c) => PhaseInv(c)'
  BY <1>1, <1>7 DEF PhaseInv
<1>9. EndInv(c) => EndInv(c)'
  <2>1. BothInv(c) => BothInv(c)'
    BY <1>1, <1>2, <1>3, <1>7 DEF BothInv
  <2>2. AnswerInv(c) => AnswerInv(c)'
    BY <1>1, <1>2, <1>3, <1>7 DEF AnswerInv
  <2>3. CancelInv(c) => CancelInv(c)'
    BY <1>1, <1>2, <1>3, <1>7 DEF CancelInv
  <2>4. RejectInv(c) => RejectInv(c)'
    BY <1>1, <1>2, <1>3, <1>7 DEF RejectInv
  <2>5. UntakenInv(c) => UntakenInv(c)'
    BY <1>1, <1>2, <1>3, <1>7 DEF UntakenInv
  <2>6. LastInv(c) => LastInv(c)'
    BY <1>1, <1>2, <1>3, <1>4, <1>7 DEF LastInv
  <2> QED
    BY <2>1, <2>2, <2>3, <2>4, <2>5, <2>6 DEF EndInv
<1>10. ReadyInv(c) => ReadyInv(c)'
  BY <1>1, <1>2, <1>3, <1>4 DEF ReadyInv, Other, From, To
<1> QED
  BY <1>5, <1>6, <1>8, <1>9, <1>10

\* ... and what an exchange has come to.
LEMMA TlsFrame ==
    ASSUME TypeOK, TypeOK', NEW q \in Peers, Untouched(q), SameKey(q), LinksKept,
           \A c \in DOMAIN links : To(c) = q => Taken(c)' = Taken(c),
           \A c \in DOMAIN links' : To(c)' = q => c \in DOMAIN links,
           \A p \in Peers : Doing(p, "connect", "request", q)' =>
               Doing(p, "connect", "request", q) /\ key'[p] = key[p],
           \A p \in Peers : p # q => (Doing(p, "connect", "request", q) => Doing(p, "connect", "request", q)')
    PROVE  TlsInv(q) => TlsInv(q)'
<1> SUFFICES ASSUME TlsInv(q)
             PROVE  TlsInv(q)'
  OBVIOUS
<1>1. Same(q) /\ sock'[q] = sock[q] /\ status'[q] = status[q] /\ ui'[q] = ui[q]
      /\ key'[q] = key[q] /\ candidate'[q] = candidate[q]
  BY DEF Untouched, SameKey
<1>2. /\ \A s, l, x : Doing(q, s, l, x)' <=> Doing(q, s, l, x)
      /\ \A c : Adopts(q, c)' <=> Adopts(q, c)
      /\ Begun(q)' <=> Begun(q)
      /\ Resets(q)' <=> Resets(q)
  BY <1>1, JobsSame DEF Same
<1>3. Uses(q)' <=> Uses(q)
  BY <1>1, SocketSame
<1>4. \A p \in Peers : Doing(p, "connect", "request", q)' <=> Doing(p, "connect", "request", q)
  BY <1>2
<1>5. \A c \in DOMAIN links : To(c)' = To(c) /\ From(c)' = From(c) /\ c \in DOMAIN links'
  BY DEF LinksKept, Kept
<1>6. (\A p \in Peers : Doing(p, "connect", "request", q) =>
          /\ status[q] = "tls" /\ sock[q] = Nobody /\ candidate[q] = p /\ key[p] = key[q]
          /\ \A c \in DOMAIN links : To(c) = q => Taken(c))'
  BY <1>1, <1>4, <1>5 DEF TlsInv
<1>7. (\A c \in DOMAIN links : To(c) = q /\ ~Taken(c) =>
          /\ status[q] = "tls" /\ sock[q] = Nobody /\ candidate[q] = From(c)
          /\ \A d \in DOMAIN links : To(d) = q /\ ~Taken(d) => d = c)'
  BY <1>1, <1>5 DEF TlsInv
<1>8. (status[q] = "tls" /\ Uses(q) => Adopts(q, sock[q]))'
  BY <1>1, <1>2, <1>3 DEF TlsInv
<1>9. (status[q] = "tls" /\ ~Uses(q) =>
          /\ sock[q] = Nobody /\ candidate[q] \in Peers
          /\ \/ Doing(candidate[q], "connect", "request", q)
             \/ \E c \in DOMAIN links : To(c) = q /\ ~Taken(c)
          /\ ~Begun(q) /\ ~Resets(q) /\ ui[q] = "idle")'
  <2> SUFFICES ASSUME status'[q] = "tls", ~Uses(q)'
               PROVE  (/\ sock[q] = Nobody /\ candidate[q] \in Peers
                       /\ \/ Doing(candidate[q], "connect", "request", q)
                          \/ \E c \in DOMAIN links : To(c) = q /\ ~Taken(c)
                       /\ ~Begun(q) /\ ~Resets(q) /\ ui[q] = "idle")'
    OBVIOUS
  <2>1. /\ sock[q] = Nobody /\ candidate[q] \in Peers
        /\ \/ Doing(candidate[q], "connect", "request", q)
           \/ \E c \in DOMAIN links : To(c) = q /\ ~Taken(c)
        /\ ~Begun(q) /\ ~Resets(q) /\ ui[q] = "idle"
    BY <1>1, <1>3 DEF TlsInv
  <2>2. Doing(candidate[q], "connect", "request", q) => Doing(candidate[q], "connect", "request", q)'
    BY <1>1, <1>4, <2>1
  <2>3. (\E c \in DOMAIN links : To(c) = q /\ ~Taken(c)) => (\E c \in DOMAIN links : To(c) = q /\ ~Taken(c))'
    BY <1>5
  <2> QED
    BY <1>1, <1>2, <2>1, <2>2, <2>3
<1> QED
  BY <1>6, <1>7, <1>8, <1>9 DEF TlsInv

-----------------------------------------------------------------------------
(* Types                                                                   *)

\* Bags stay within a set.
LEMMA BagsWithin ==
    ASSUME NEW S, NEW B, BagOK(B), DOMAIN B \subseteq S
    PROVE  /\ \A x \in DOMAIN B : BagOK(BagRemove(B, x)) /\ DOMAIN BagRemove(B, x) \subseteq S
           /\ \A x \in S : BagOK(BagAdd(B, x)) /\ DOMAIN BagAdd(B, x) \subseteq S
           /\ \A T \in SUBSET S : BagOK(B (+) SetToBag(T)) /\ DOMAIN (B (+) SetToBag(T)) \subseteq S
<1>1. ASSUME NEW x \in DOMAIN B
      PROVE  BagOK(BagRemove(B, x)) /\ DOMAIN BagRemove(B, x) \subseteq S
  BY BagRemoveIs
<1>2. ASSUME NEW x \in S
      PROVE  BagOK(BagAdd(B, x)) /\ DOMAIN BagAdd(B, x) \subseteq S
  <2>1. BagOK(BagAdd(B, x)) /\ DOMAIN BagAdd(B, x) = DOMAIN B \cup {x}
    BY BagAddIs
  <2> HIDE DEF BagOK
  <2> QED
    BY <2>1
<1>3. ASSUME NEW T \in SUBSET S
      PROVE  BagOK(B (+) SetToBag(T)) /\ DOMAIN (B (+) SetToBag(T)) \subseteq S
  BY BagPlusIs
<1> QED
  BY <1>1, <1>2, <1>3

\* The tasks after a step, ...
LEMMA TodoAfter ==
    ASSUME TodoOK, SelfOK, NEW p \in Peers, NEW t \in BagToSet(todo[p]), NEW new \in SUBSET TasksOf(p),
           todo' = After(p, t, new)
    PROVE  TodoOK' /\ SelfOK'
<1>1. t \in Tasks /\ t \in TasksOf(p) /\ BagOK(todo[p]) /\ t \in DOMAIN todo[p] /\ DOMAIN todo[p] \subseteq TasksOf(p)
      /\ DOMAIN todo = Peers
  BY DEF TodoOK, SelfOK, TasksOf, BagToSet
<1> DEFINE C == BagRemove(todo[p], t)
<1>2. BagOK(C) /\ DOMAIN C \subseteq TasksOf(p)
  BY <1>1, BagsWithin
<1> HIDE DEF C
<1> DEFINE D == IF Len(t.steps) = 1 THEN C ELSE BagAdd(C, Rest(t))
<1>3. BagOK(D) /\ DOMAIN D \subseteq TasksOf(p)
  <2>1. Len(t.steps) # 1 => Rest(t) \in TasksOf(p)
    BY <1>1, TaskIs DEF TasksOf
  <2> QED
    BY <1>1, <1>2, <2>1, BagsWithin
<1>4. todo' = [todo EXCEPT ![p] = D (+) SetToBag(new)]
  BY DEF After, C, Rest
<1> HIDE DEF D
<1>5. BagOK(D (+) SetToBag(new)) /\ DOMAIN (D (+) SetToBag(new)) \subseteq TasksOf(p)
  BY <1>3, BagsWithin
<1> HIDE DEF (+)
<1>6. /\ DOMAIN todo' = Peers /\ BagOK(todo'[p]) /\ DOMAIN todo'[p] \subseteq TasksOf(p)
      /\ \A q \in Peers : q # p => todo'[q] = todo[q]
  BY <1>1, <1>4, <1>5
<1> QED
  BY <1>6 DEF TodoOK, SelfOK, TasksOf, BagToSet

\* ... one that drops a task, ...
LEMMA TodoDrops ==
    ASSUME TodoOK, SelfOK, NEW p \in Peers, NEW t \in BagToSet(todo[p]), NEW u \in TasksOf(p),
           todo' = Drop(p, t) \/ todo' = [todo EXCEPT ![p] = BagAdd(BagRemove(@, t), u)]
    PROVE  TodoOK' /\ SelfOK'
<1>1. BagOK(todo[p]) /\ t \in DOMAIN todo[p] /\ DOMAIN todo[p] \subseteq TasksOf(p) /\ DOMAIN todo = Peers
  BY DEF TodoOK, SelfOK, TasksOf, BagToSet
<1> DEFINE C == BagRemove(todo[p], t)
<1>2. BagOK(C) /\ DOMAIN C \subseteq TasksOf(p)
  BY <1>1, BagsWithin
<1> HIDE DEF C
<1>3. BagOK(BagAdd(C, u)) /\ DOMAIN BagAdd(C, u) \subseteq TasksOf(p)
  BY <1>2, BagsWithin
<1>4. todo' = [todo EXCEPT ![p] = C] \/ todo' = [todo EXCEPT ![p] = BagAdd(C, u)]
  BY <1>1 DEF Drop, C
<1>5. /\ DOMAIN todo' = Peers /\ BagOK(todo'[p]) /\ DOMAIN todo'[p] \subseteq TasksOf(p)
      /\ \A q \in Peers : q # p => todo'[q] = todo[q]
  BY <1>1, <1>2, <1>3, <1>4
<1> QED
  BY <1>5 DEF TodoOK, SelfOK, TasksOf, BagToSet

\* ... and one that publishes some.
LEMMA TodoPublished ==
    ASSUME TodoOK, SelfOK, NEW p \in Peers, NEW new \in SUBSET TasksOf(p), Publish(p, new)
    PROVE  TodoOK' /\ SelfOK'
<1>1. BagOK(todo[p]) /\ DOMAIN todo[p] \subseteq TasksOf(p) /\ DOMAIN todo = Peers
  BY DEF TodoOK, SelfOK, TasksOf, BagToSet
<1> DEFINE C == todo[p] (+) SetToBag(new)
<1>2. BagOK(C) /\ DOMAIN C \subseteq TasksOf(p)
  BY <1>1, BagsWithin
<1>3. todo' = [todo EXCEPT ![p] = C]
  BY <1>1 DEF Publish
<1> HIDE DEF C
<1>4. /\ DOMAIN todo' = Peers /\ BagOK(todo'[p]) /\ DOMAIN todo'[p] \subseteq TasksOf(p)
      /\ \A q \in Peers : q # p => todo'[q] = todo[q]
  BY <1>1, <1>2, <1>3
<1> QED
  BY <1>4 DEF TodoOK, SelfOK, TasksOf, BagToSet

\* What is published is a task.
LEMMA HandlersAreTasks ==
    ASSUME NEW p \in Peers
    PROVE  /\ \A q \in Peers : q # p => SendConnectRequest(q) \in TasksOf(p)
           /\ \A c \in Nat : Accepted(c) \in TasksOf(p)
           /\ \A q \in Peers \cup {Nobody} : Start(q) \in TasksOf(p)
           /\ {SendAccept, SendReject, HaveAccept, HaveReject, ResetConnection, CancelConnRequest,
               Disconnect, ConnectError, ConnClosed, SendInitFileReceiverDone, Stop,
               InitFileSenders} \subseteq TasksOf(p)
           /\ \A type : Handlers(type) \subseteq TasksOf(p)
<1>1. /\ \A q \in Peers : q # p => SendConnectRequest(q) \in TasksOf(p)
      /\ \A c \in Nat : Accepted(c) \in TasksOf(p)
      /\ \A q \in Peers \cup {Nobody} : Start(q) \in TasksOf(p)
      /\ SendAccept \in TasksOf(p) /\ SendReject \in TasksOf(p) /\ HaveAccept \in TasksOf(p)
      /\ HaveReject \in TasksOf(p) /\ ResetConnection \in TasksOf(p)
      /\ CancelConnRequest \in TasksOf(p) /\ Disconnect \in TasksOf(p)
      /\ ConnectError \in TasksOf(p) /\ ConnClosed \in TasksOf(p)
      /\ SendInitFileReceiverDone \in TasksOf(p)
      /\ Stop \in TasksOf(p) /\ InitFileSenders \in TasksOf(p)
  BY HandlerJobs DEF JobIs, TasksOf
<1>2. \A type : Handlers(type) \subseteq TasksOf(p)
  BY <1>1 DEF Handlers
<1> QED
  BY <1>1, <1>2

\* Bags are functions, ...
LEMMA BagsAreFcns ==
    ASSUME NEW B, NEW x
    PROVE  IsFcn(BagAdd(B, x)) /\ (IsFcn(B) => IsFcn(BagRemove(B, x)))
<1>1. IsFcn(BagAdd(B, x))
  BY DEF BagAdd, IsFcn
<1>2. ASSUME IsFcn(B)
      PROVE  IsFcn(BagRemove(B, x))
  BY <1>2 DEF BagRemove, IsFcn
<1> QED
  BY <1>1, <1>2

\* ... so that there is one with no elements.
LEMMA NoBag ==
    ASSUME NEW B, IsFcn(B), BagToSet(B) = {}
    PROVE  B = EmptyBag
BY DEF IsFcn, BagToSet, EmptyBag, SetToBag

\* No receiving thread starts or ends.
LEMMA ReadersStay ==
    ASSUME ReadersOK, UNCHANGED readers, DOMAIN links \subseteq DOMAIN links'
    PROVE  ReadersOK'
<1>1. \A p \in Peers : BagToSet(readers[p])' = BagToSet(readers[p])
  BY DEF BagToSet
<1> QED
  BY <1>1 DEF ReadersOK

LEMMA ReadersChange ==
    ASSUME ReadersOK, NEW p \in Peers, DOMAIN links' = DOMAIN links,
           NEW c, NEW d \in DOMAIN links \cup {Fresh, Nobody},
           \/ readers' = [readers EXCEPT ![p] = BagAdd(@, d)]
           \/ c \in BagToSet(readers[p]) /\ readers' = [readers EXCEPT ![p] = BagRemove(@, c)]
           \/ c \in BagToSet(readers[p]) /\ readers' = [readers EXCEPT ![p] = BagAdd(BagRemove(@, c), d)]
    PROVE  ReadersOK'
<1> DEFINE B == readers[p]
           S == DOMAIN links \cup {Fresh, Nobody}
           Fine(C) == BagOK(C) /\ IsFcn(C) /\ DOMAIN C \subseteq S
<1>1. Fine(B) /\ DOMAIN readers = Peers
  BY DEF ReadersOK, BagToSet
<1>2. ASSUME NEW C, Fine(C)
      PROVE  Fine(BagAdd(C, d))
  BY <1>2, BagsWithin, BagsAreFcns
<1>3. ASSUME c \in DOMAIN B
      PROVE  Fine(BagRemove(B, c))
  BY <1>1, <1>3, BagsWithin, BagsAreFcns
<1>4. /\ DOMAIN readers' = Peers /\ \A q \in Peers : q # p => readers'[q] = readers[q]
      /\ readers'[p] \in {BagAdd(B, d), BagRemove(B, c), BagAdd(BagRemove(B, c), d)}
      /\ readers'[p] # BagAdd(B, d) => c \in DOMAIN B
  BY <1>1 DEF BagToSet
<1> HIDE DEF B, S, Fine
<1>5. Fine(readers'[p])
  BY <1>1, <1>2, <1>3, <1>4
<1>6. \A q \in Peers : q # p => Fine(readers'[q])
  BY <1>4 DEF ReadersOK, BagToSet, Fine, S
<1> QED
  BY <1>4, <1>5, <1>6 DEF ReadersOK, BagToSet, Fine, S

\* Every action keeps the types.
LEMMA UserConnectsTypes ==
    ASSUME TypeOK, NEW p \in Peers, NEW q \in Peers, UserConnects(p, q)
    PROVE  TypeOK'
<1>1. /\ UNCHANGED <<status, candidate, sock, online, dialing, target, key, reading, readers, links, connected, ids, partner, engine, asked, exchanges, early>>
      /\ requests' = requests + 1
      /\ ui' = [ui EXCEPT ![p] = "asking"]
  BY DEF UserConnects, driverVars, threadVars, stateVars, windowVars, bounds
<1>2. LinksOK' /\ DOMAIN links' = DOMAIN links
  BY <1>1, LinksStay DEF TypeOK
<1>3. ReadersOK'
  BY <1>1, <1>2, ReadersStay DEF TypeOK
<1>4. TodoOK' /\ SelfOK'
  <2>1. Publish(p, {SendConnectRequest(q)}) /\ {SendConnectRequest(q)} \in SUBSET TasksOf(p)
    BY HandlersAreTasks, SessionAssumption DEF UserConnects
  <2> QED
    BY <2>1, TodoPublished DEF TypeOK
<1> QED
  BY <1>1, <1>2, <1>3, <1>4 DEF TypeOK, Engine

LEMMA UserCancelsTypes ==
    ASSUME TypeOK, NEW p \in Peers, UserCancels(p)
    PROVE  TypeOK'
<1>1. /\ UNCHANGED <<status, candidate, sock, online, dialing, target, key, reading, readers, links, connected, ids, partner, engine, asked, exchanges, early>>
      /\ requests' = requests + 1
      /\ ui' = [ui EXCEPT ![p] = "idle"]
  BY DEF UserCancels, driverVars, threadVars, stateVars, windowVars, bounds
<1>2. LinksOK' /\ DOMAIN links' = DOMAIN links
  BY <1>1, LinksStay DEF TypeOK
<1>3. ReadersOK'
  BY <1>1, <1>2, ReadersStay DEF TypeOK
<1>4. TodoOK' /\ SelfOK'
  <2>1. Publish(p, {ResetConnection}) /\ {ResetConnection} \in SUBSET TasksOf(p)
    BY HandlersAreTasks DEF UserCancels
  <2> QED
    BY <2>1, TodoPublished DEF TypeOK
<1> QED
  BY <1>1, <1>2, <1>3, <1>4 DEF TypeOK, Engine

LEMMA UserAnswersTypes ==
    ASSUME TypeOK, NEW p \in Peers, UserAnswers(p)
    PROVE  TypeOK'
<1>1. /\ UNCHANGED <<status, candidate, sock, online, dialing, target, key, reading, readers, links, connected, ids, partner, engine, exchanges, requests, early>>
      /\ asked' = [asked EXCEPT ![p] = FALSE]
  BY DEF UserAnswers, driverVars, threadVars, stateVars, windowVars, bounds
<1>2. LinksOK' /\ DOMAIN links' = DOMAIN links
  BY <1>1, LinksStay DEF TypeOK
<1>3. ReadersOK'
  BY <1>1, <1>2, ReadersStay DEF TypeOK
<1>4. TodoOK' /\ SelfOK'
  <2>1. Publish(p, {SendAccept}) \/ Publish(p, {SendReject})
    BY DEF UserAnswers
  <2>2. {SendAccept} \in SUBSET TasksOf(p) /\ {SendReject} \in SUBSET TasksOf(p)
    BY HandlersAreTasks
  <2> QED
    BY <2>1, <2>2, TodoPublished DEF TypeOK
<1>5. ui' \in [Peers -> {"idle", "asking", "connected"}]
  BY DEF UserAnswers, TypeOK
<1> QED
  BY <1>1, <1>2, <1>3, <1>4, <1>5 DEF TypeOK, Engine

LEMMA UserDisconnectsTypes ==
    ASSUME TypeOK, NEW p \in Peers, UserDisconnects(p)
    PROVE  TypeOK'
<1>1. /\ UNCHANGED <<status, candidate, sock, online, dialing, target, key, reading, readers, links, connected, ids, partner, engine, asked, exchanges, requests, early>>
      /\ ui' = [ui EXCEPT ![p] = "idle"]
  BY DEF UserDisconnects, driverVars, threadVars, stateVars, windowVars, bounds
<1>2. LinksOK' /\ DOMAIN links' = DOMAIN links
  BY <1>1, LinksStay DEF TypeOK
<1>3. ReadersOK'
  BY <1>1, <1>2, ReadersStay DEF TypeOK
<1>4. TodoOK' /\ SelfOK'
  <2>1. Publish(p, {Disconnect}) /\ {Disconnect} \in SUBSET TasksOf(p)
    BY HandlersAreTasks DEF UserDisconnects
  <2> QED
    BY <2>1, TodoPublished DEF TypeOK
<1> QED
  BY <1>1, <1>2, <1>3, <1>4 DEF TypeOK, Engine

LEMMA DialTypes ==
    ASSUME TypeOK, NEW p \in Peers, NEW t \in BagToSet(todo[p]), Dial(p, t)
    PROVE  TypeOK'
<1>1. /\ UNCHANGED <<status, candidate, online, key, reading, readers, links, connected, ids, partner, engine, ui, asked, exchanges, requests, early>>
      /\ sock' = [sock EXCEPT ![p] = Fresh]
      /\ dialing' = [dialing EXCEPT ![p] = TRUE]
      /\ target' = [target EXCEPT ![p] = t.arg]
  BY DEF Dial, driverVars, threadVars, stateVars, windowVars, bounds
<1>2. LinksOK' /\ DOMAIN links' = DOMAIN links
  BY <1>1, LinksStay DEF TypeOK
<1>3. ReadersOK'
  BY <1>1, <1>2, ReadersStay DEF TypeOK
<1>4. TodoOK' /\ SelfOK'
  <2>1. todo' = After(p, t, {}) /\ {} \in SUBSET TasksOf(p)
    BY DEF Dial
  <2> QED
    BY <2>1, TodoAfter DEF TypeOK
<1>5. t.arg \in Peers
  <2>1. Head(t.steps) = "dial"
    BY DEF Dial, At
  <2> QED
    BY <2>1, JobDone DEF TypeOK, Kinds, Args
<1> QED
  BY <1>1, <1>2, <1>3, <1>4, <1>5 DEF TypeOK, Engine

LEMMA ExchangeTypes ==
    ASSUME TypeOK, NEW p \in Peers, NEW t \in BagToSet(todo[p]), Exchange(p, t)
    PROVE  TypeOK'
<1>1. /\ UNCHANGED <<sock, online, dialing, target, reading, readers, links, connected, ids, partner, engine, ui, asked, requests, early>>
      /\ exchanges' = exchanges + 1
      /\ key' = [key EXCEPT ![p] = exchanges + 1, ![t.arg] = exchanges + 1]
      /\ status' = [status EXCEPT ![t.arg] = "tls"]
      /\ candidate' = [candidate EXCEPT ![t.arg] = p]
  BY DEF Exchange, driverVars, threadVars, stateVars, windowVars, bounds
<1>2. LinksOK' /\ DOMAIN links' = DOMAIN links
  BY <1>1, LinksStay DEF TypeOK
<1>3. ReadersOK'
  BY <1>1, <1>2, ReadersStay DEF TypeOK
<1>4. TodoOK' /\ SelfOK'
  <2>1. todo' = After(p, t, {}) /\ {} \in SUBSET TasksOf(p)
    BY DEF Exchange
  <2> QED
    BY <2>1, TodoAfter DEF TypeOK
<1>5. t.arg \in Peers
  <2>1. Head(t.steps) = "exchange"
    BY DEF Exchange, At
  <2> QED
    BY <2>1, JobDone DEF TypeOK, Kinds, Args
<1>6. /\ exchanges' \in Nat /\ key' \in [Peers -> Nat]
      /\ status' \in [Peers -> {"waiting", "tls", "tcp"}] /\ candidate' \in [Peers -> Peers \cup {Nobody}]
  BY <1>1, <1>5 DEF TypeOK
<1> QED
  BY <1>1, <1>2, <1>3, <1>4, <1>6 DEF TypeOK, Engine

LEMMA ExchangeAbortedTypes ==
    ASSUME TypeOK, NEW p \in Peers, NEW t \in BagToSet(todo[p]), ExchangeAborted(p, t)
    PROVE  TypeOK'
<1>1. /\ UNCHANGED <<status, candidate, sock, target, key, reading, readers, links, connected, ids, partner, engine, ui, asked, exchanges, requests, early>>
      /\ dialing' = [dialing EXCEPT ![p] = FALSE]
  BY DEF ExchangeAborted, driverVars, threadVars, stateVars, windowVars, bounds
<1>2. LinksOK' /\ DOMAIN links' = DOMAIN links
  BY <1>1, LinksStay DEF TypeOK
<1>3. ReadersOK'
  BY <1>1, <1>2, ReadersStay DEF TypeOK
<1>4. TodoOK' /\ SelfOK'
  <2>1. todo' = Drop(p, t) /\ Stop \in TasksOf(p)
    BY HandlersAreTasks DEF ExchangeAborted
  <2> QED
    BY <2>1, TodoDrops DEF TypeOK
<1>5. online' \in [Peers -> BOOLEAN]
  BY DEF ExchangeAborted, TypeOK
<1> QED
  BY <1>1, <1>2, <1>3, <1>4, <1>5 DEF TypeOK, Engine

LEMMA ExchangeBreaksTypes ==
    ASSUME TypeOK, NEW p \in Peers, NEW t \in BagToSet(todo[p]), ExchangeBreaks(p, t)
    PROVE  TypeOK'
<1>1. /\ UNCHANGED <<sock, online, dialing, target, reading, readers, links, connected, ids, partner, engine, ui, asked, requests, early>>
  BY DEF ExchangeBreaks, driverVars, threadVars, stateVars, windowVars, bounds
<1>2. LinksOK' /\ DOMAIN links' = DOMAIN links
  BY <1>1, LinksStay DEF TypeOK
<1>3. ReadersOK'
  BY <1>1, <1>2, ReadersStay DEF TypeOK
<1>4. TodoOK' /\ SelfOK'
  <2>1. todo' = Drop(p, t) /\ Stop \in TasksOf(p)
    BY HandlersAreTasks DEF ExchangeBreaks
  <2> QED
    BY <2>1, TodoDrops DEF TypeOK
<1>5. /\ exchanges' \in Nat /\ key' \in [Peers -> Nat]
      /\ status' \in [Peers -> {"waiting", "tls", "tcp"}] /\ candidate' \in [Peers -> Peers \cup {Nobody}]
  BY DEF ExchangeBreaks, TypeOK
<1> QED
  BY <1>1, <1>2, <1>3, <1>4, <1>5 DEF TypeOK, Engine

LEMMA RefusedTypes ==
    ASSUME TypeOK, NEW p \in Peers, NEW t \in BagToSet(todo[p]), Refused(p, t)
    PROVE  TypeOK'
<1>1. /\ UNCHANGED <<status, candidate, sock, online, dialing, target, key, reading, readers, links, connected, ids, partner, engine, asked, exchanges, requests, early>>
      /\ ui' = [ui EXCEPT ![p] = "idle"]
  BY DEF Refused, driverVars, threadVars, stateVars, windowVars, bounds
<1>2. LinksOK' /\ DOMAIN links' = DOMAIN links
  BY <1>1, LinksStay DEF TypeOK
<1>3. ReadersOK'
  BY <1>1, <1>2, ReadersStay DEF TypeOK
<1>4. TodoOK' /\ SelfOK'
  <2>1. todo' = [todo EXCEPT ![p] = BagAdd(BagRemove(@, t), ConnectError)] /\ ConnectError \in TasksOf(p)
    BY HandlersAreTasks DEF Refused
  <2> QED
    BY <2>1, TodoDrops DEF TypeOK
<1> QED
  BY <1>1, <1>2, <1>3, <1>4 DEF TypeOK, Engine

LEMMA ConnectTypes ==
    ASSUME TypeOK, NEW p \in Peers, NEW t \in BagToSet(todo[p]), Connect(p, t)
    PROVE  TypeOK'
<1>1. /\ UNCHANGED <<status, candidate, target, key, reading, readers, connected, ids, partner, engine, ui, asked, exchanges, requests, early>>
      /\ dialing' = [dialing EXCEPT ![p] = FALSE]
  BY DEF Connect, driverVars, threadVars, stateVars, windowVars, bounds
<1>0. t.arg \in Peers /\ t.arg # p
  <2>1. Head(t.steps) = "connect"
    BY DEF Connect, At
  <2> QED
    BY <2>1, JobDone DEF TypeOK, SelfOK, TasksOf, Kinds, Args
<1>2. LinksOK' /\ DOMAIN links \subseteq DOMAIN links' /\ sock' \in [Peers -> DOMAIN links' \cup {Fresh, Nobody}]
  <2> DEFINE old == Closed(sock[p], p)
             n == Len(links) + 1
  <2>1. LinksOK /\ sock \in [Peers -> DOMAIN links \cup {Fresh, Nobody}]
    BY DEF TypeOK
  <2>2. CASE target[p] # Nobody
    <3>1. links' = Append(old, NewLink(p, t.arg)) /\ sock' = [sock EXCEPT ![p] = n]
      BY <2>2 DEF Connect, NewLink
    <3>2. LinksOK' /\ DOMAIN links' = DOMAIN links \cup {n}
      BY <1>0, <2>1, <3>1, LinkAdded
    <3>3. sock' \in [Peers -> DOMAIN links' \cup {Fresh, Nobody}]
      BY <2>1, <3>1, <3>2
    <3> QED
      BY <3>2, <3>3
  <2>3. CASE target[p] = Nobody
    <3>1. links' = old /\ sock' = [sock EXCEPT ![p] = Fresh]
      BY <2>3 DEF Connect
    <3>2. LinksOK' /\ DOMAIN links' = DOMAIN links
      BY <2>1, <3>1, LinkClosed
    <3> QED
      BY <2>1, <3>1, <3>2
  <2> QED
    BY <2>2, <2>3
<1>3. ReadersOK'
  BY <1>1, <1>2, ReadersStay DEF TypeOK
<1>4. TodoOK' /\ SelfOK'
  <2>1. (todo' = After(p, t, {}) \/ todo' = Drop(p, t)) /\ {} \in SUBSET TasksOf(p) /\ Stop \in TasksOf(p)
    BY HandlersAreTasks DEF Connect
  <2> QED
    BY <2>1, TodoAfter, TodoDrops DEF TypeOK
<1>5. online' \in [Peers -> BOOLEAN]
  BY DEF Connect, TypeOK
<1> QED
  BY <1>1, <1>2, <1>3, <1>4, <1>5 DEF TypeOK, Engine

LEMMA UnconnectedTypes ==
    ASSUME TypeOK, NEW p \in Peers, NEW t \in BagToSet(todo[p]), Unconnected(p, t)
    PROVE  TypeOK'
<1>1. /\ UNCHANGED <<status, candidate, sock, target, key, reading, readers, links, connected, ids, partner, engine, ui, asked, exchanges, requests, early>>
      /\ online' = [online EXCEPT ![p] = FALSE]
      /\ dialing' = [dialing EXCEPT ![p] = FALSE]
  BY DEF Unconnected, driverVars, threadVars, stateVars, windowVars, bounds
<1>2. LinksOK' /\ DOMAIN links' = DOMAIN links
  BY <1>1, LinksStay DEF TypeOK
<1>3. ReadersOK'
  BY <1>1, <1>2, ReadersStay DEF TypeOK
<1>4. TodoOK' /\ SelfOK'
  <2>1. todo' = After(p, t, {}) /\ {} \in SUBSET TasksOf(p)
    BY DEF Unconnected
  <2> QED
    BY <2>1, TodoAfter DEF TypeOK
<1> QED
  BY <1>1, <1>2, <1>3, <1>4 DEF TypeOK, Engine

LEMMA AcceptTypes ==
    ASSUME TypeOK, NEW p \in Peers, NEW c \in DOMAIN links, Accept(p, c)
    PROVE  TypeOK'
<1>1. /\ UNCHANGED <<status, candidate, dialing, target, key, reading, readers, connected, ids, partner, engine, ui, asked, exchanges, requests, early>>
  BY DEF Accept, driverVars, threadVars, stateVars, windowVars, bounds
<1>2. /\ LinksOK' /\ DOMAIN links' = DOMAIN links
      /\ sock' \in [Peers -> DOMAIN links \cup {Fresh, Nobody}] /\ online' \in [Peers -> BOOLEAN]
  <2>1. LinksOK /\ sock \in [Peers -> DOMAIN links \cup {Fresh, Nobody}] /\ online \in [Peers -> BOOLEAN]
    BY DEF TypeOK
  <2>2. \/ links' = [links EXCEPT ![c].taken = TRUE]
        \/ links' = [Closed(c, p) EXCEPT ![c].taken = TRUE]
    BY DEF Accept
  <2>3. LinksOK' /\ DOMAIN links' = DOMAIN links
    <3> DEFINE other == Closed(c, p)
    <3>1. \/ links' = [links EXCEPT ![c].taken = TRUE]
          \/ links' = [other EXCEPT ![c].taken = TRUE]
      BY <2>2
    <3> HIDE DEF other
    <3> QED
      BY <2>1, <3>1, LinkIsTaken DEF other
  <2> QED
    BY <2>1, <2>3 DEF Accept
<1>3. ReadersOK'
  BY <1>1, <1>2, ReadersStay DEF TypeOK
<1>4. TodoOK' /\ SelfOK'
  <2>1. Publish(p, {Accepted(c)}) \/ UNCHANGED todo
    BY DEF Accept
  <2>2. {Accepted(c)} \in SUBSET TasksOf(p)
    BY HandlersAreTasks, LinkIs DEF TypeOK
  <2>3. UNCHANGED todo => TodoOK' /\ SelfOK'
    BY DEF TypeOK, TodoOK, SelfOK
  <2> QED
    BY <2>1, <2>2, <2>3, TodoPublished DEF TypeOK
<1> QED
  BY <1>1, <1>2, <1>3, <1>4 DEF TypeOK, Engine

LEMMA EstablishTypes ==
    ASSUME TypeOK, NEW p \in Peers, NEW t \in BagToSet(todo[p]), Establish(p, t)
    PROVE  TypeOK'
<1>1. /\ UNCHANGED <<candidate, sock, online, dialing, target, key, reading, readers, links, connected, ids, partner, engine, ui, asked, exchanges, requests, early>>
      /\ status' = [status EXCEPT ![p] = "tcp"]
  BY DEF Establish, driverVars, threadVars, stateVars, windowVars, bounds
<1>2. LinksOK' /\ DOMAIN links' = DOMAIN links
  BY <1>1, LinksStay DEF TypeOK
<1>3. ReadersOK'
  BY <1>1, <1>2, ReadersStay DEF TypeOK
<1>4. TodoOK' /\ SelfOK'
  <2>1. todo' = After(p, t, {}) /\ {} \in SUBSET TasksOf(p)
    BY DEF Establish
  <2> QED
    BY <2>1, TodoAfter DEF TypeOK
<1> QED
  BY <1>1, <1>2, <1>3, <1>4 DEF TypeOK, Engine

LEMMA RecvMsgTypes ==
    ASSUME TypeOK, NEW p \in Peers, NEW t \in BagToSet(todo[p]), RecvMsg(p, t)
    PROVE  TypeOK'
<1>1. /\ UNCHANGED <<status, candidate, sock, online, dialing, target, key, links, connected, ids, partner, engine, ui, asked, exchanges, requests, early>>
  BY DEF RecvMsg, driverVars, threadVars, stateVars, windowVars, bounds
<1>2. LinksOK' /\ DOMAIN links' = DOMAIN links
  BY <1>1, LinksStay DEF TypeOK
<1>3. ReadersOK'
  <2>1. readers' = [readers EXCEPT ![p] = BagAdd(@, sock[p])] \/ UNCHANGED readers
    BY DEF RecvMsg
  <2>2. sock[p] \in DOMAIN links \cup {Fresh, Nobody} /\ ReadersOK
    BY DEF TypeOK
  <2> QED
    BY <1>2, <2>1, <2>2, ReadersChange, ReadersStay
<1>4. TodoOK' /\ SelfOK'
  <2>1. (todo' = After(p, t, {}) \/ todo' = Drop(p, t)) /\ {} \in SUBSET TasksOf(p) /\ Stop \in TasksOf(p)
    BY HandlersAreTasks DEF RecvMsg
  <2> QED
    BY <2>1, TodoAfter, TodoDrops DEF TypeOK
<1>5. reading' \in [Peers -> BOOLEAN]
  BY DEF RecvMsg, TypeOK
<1> QED
  BY <1>1, <1>2, <1>3, <1>4, <1>5 DEF TypeOK, Engine

LEMMA ResetTypes ==
    ASSUME TypeOK, NEW p \in Peers, NEW t \in BagToSet(todo[p]), Reset(p, t)
    PROVE  TypeOK'
<1>1. /\ UNCHANGED <<online, key, readers, connected, ids, partner, engine, ui, asked, exchanges, requests, early>>
      /\ sock' = [sock EXCEPT ![p] = Nobody]
      /\ dialing' = [dialing EXCEPT ![p] = @ /\ ~online[p]]
      /\ reading' = [reading EXCEPT ![p] = FALSE]
      /\ candidate' = [candidate EXCEPT ![p] = Nobody]
      /\ target' = [target EXCEPT ![p] = Nobody]
      /\ status' = [status EXCEPT ![p] = "waiting"]
  BY DEF Reset, driverVars, threadVars, stateVars, windowVars, bounds
<1>2. LinksOK' /\ DOMAIN links' = DOMAIN links
  <2>1. links' = Closed(sock[p], p) \/ UNCHANGED links
    BY DEF Reset
  <2> QED
    BY <2>1, LinkClosed, LinksStay DEF TypeOK
<1>3. ReadersOK'
  BY <1>1, <1>2, ReadersStay DEF TypeOK
<1>4. TodoOK' /\ SelfOK'
  <2>1. todo' = After(p, t, {}) /\ {} \in SUBSET TasksOf(p)
    BY DEF Reset
  <2> QED
    BY <2>1, TodoAfter DEF TypeOK
<1> QED
  BY <1>1, <1>2, <1>3, <1>4 DEF TypeOK, Engine

LEMMA SendTypes ==
    ASSUME TypeOK, NEW p \in Peers, NEW t \in BagToSet(todo[p]), NEW type \in Types, Send(p, t, type)
    PROVE  TypeOK'
<1>1. /\ UNCHANGED <<status, candidate, sock, online, dialing, target, key, reading, readers, connected, ids, engine, ui, asked, exchanges, requests, early>>
  BY DEF Send, driverVars, threadVars, stateVars, windowVars, bounds
<1>2. LinksOK' /\ DOMAIN links' = DOMAIN links
  <2> DEFINE c == sock[p]
             o == Other(c, p)
             m == [type |-> type, key |-> key[p]]
  <2>1. LinksOK
    BY DEF TypeOK
  <2>2. CASE UNCHANGED links
    BY <2>1, <2>2, LinksStay
  <2>3. CASE links' # links
    <3>1. IsLink(c) /\ links' = [links EXCEPT ![c].in[o] = Append(@, m)]
      BY <2>3 DEF Send
    <3>2. c \in DOMAIN links /\ o \in {From(c), To(c)}
      BY <3>1 DEF IsLink, Other, From, To
    <3>3. In(c, o) \in Seq(Message) /\ m \in Message
      BY <2>1, <3>2, LinkIs DEF TypeOK, Message
    <3>4. Append(In(c, o), m) \in Seq(Message)
      BY <3>3
    <3>5. links' = [links EXCEPT ![c].in[o] = Append(In(c, o), m)]
      BY <3>1 DEF In
    <3> HIDE DEF c, o, m
    <3> QED
      BY <2>1, <3>2, <3>4, <3>5, LinkCarries
  <2> QED
    BY <2>2, <2>3
<1>3. ReadersOK'
  BY <1>1, <1>2, ReadersStay DEF TypeOK
<1>4. TodoOK' /\ SelfOK'
  <2>1. todo' = After(p, t, {}) /\ {} \in SUBSET TasksOf(p)
    BY DEF Send
  <2> QED
    BY <2>1, TodoAfter DEF TypeOK
<1>5. partner' \in [Peers -> Peers \cup {Nobody}]
  <2>1. CASE type # "request"
    BY <2>1 DEF Send, TypeOK
  <2>2. CASE type = "request"
    <3>1. Head(t.steps) = "request" /\ partner' = [partner EXCEPT ![p] = t.arg]
      BY <2>2 DEF Send, At
    <3>2. t.arg \in Peers
      BY <3>1, JobDone DEF TypeOK, Kinds, Args
    <3> QED
      BY <3>1, <3>2 DEF TypeOK
  <2> QED
    BY <2>1, <2>2
<1> QED
  BY <1>1, <1>2, <1>3, <1>4, <1>5 DEF TypeOK, Engine

LEMMA ParseTypes ==
    ASSUME TypeOK, NEW p \in Peers, NEW c \in DOMAIN links, Parse(p, c)
    PROVE  TypeOK'
<1>1. /\ UNCHANGED <<status, candidate, sock, online, dialing, target, key, reading, readers, connected, ids, engine, exchanges, requests, early>>
  BY DEF Parse, driverVars, threadVars, stateVars, windowVars, bounds
<1>2. LinksOK' /\ DOMAIN links' = DOMAIN links
  <2>1. LinksOK /\ Open(c) \subseteq {From(c), To(c)} /\ p \in Open(c)
    BY DEF TypeOK, LinksOK, Parse, Open
  <2>2. p \in {From(c), To(c)} /\ In(c, p) \in Seq(Message) /\ In(c, p) # << >>
    BY <2>1, LinkIs DEF Parse, In
  <2>3. Tail(In(c, p)) \in Seq(Message)
    BY <2>2
  <2>4. links' = [links EXCEPT ![c].in[p] = Tail(In(c, p))]
    BY DEF Parse, In
  <2> QED
    BY <2>1, <2>2, <2>3, <2>4, LinkCarries
<1>3. ReadersOK'
  BY <1>1, <1>2, ReadersStay DEF TypeOK
<1>4. TodoOK' /\ SelfOK'
  <2> DEFINE m == Head(links[c].in[p])
  <2>1. UNCHANGED todo \/ Publish(p, Handlers(m.type))
    BY DEF Parse
  <2>2. Handlers(m.type) \in SUBSET TasksOf(p)
    BY HandlersAreTasks
  <2>3. UNCHANGED todo => TodoOK' /\ SelfOK'
    BY DEF TypeOK, TodoOK, SelfOK
  <2> QED
    BY <2>1, <2>2, <2>3, TodoPublished DEF TypeOK
<1>5. /\ ui' \in [Peers -> {"idle", "asking", "connected"}] /\ asked' \in [Peers -> BOOLEAN]
      /\ partner' \in [Peers -> Peers \cup {Nobody}]
  <2>1. Other(c, p) \in Peers
    BY LinkIs DEF TypeOK, Other, From, To
  <2> DEFINE type == Head(links[c].in[p]).type
  <2>2. UNCHANGED <<ui, asked, partner>> \/ Show(p, c, type)
    BY DEF Parse
  <2> HIDE DEF type
  <2>3. CASE UNCHANGED <<ui, asked, partner>>
    BY <2>3 DEF TypeOK
  <2>4. CASE Show(p, c, type)
    <3>1. ui' \in [Peers -> {"idle", "asking", "connected"}]
      BY <2>4 DEF TypeOK, Show
    <3>2. asked' \in [Peers -> BOOLEAN]
      <4> DEFINE y == CASE type = "request" -> TRUE
                        [] type = "cancel" -> FALSE
                        [] OTHER -> asked[p]
      <4>1. asked' = [asked EXCEPT ![p] = y]
        BY <2>4 DEF Show
      <4>2. asked[p] \in BOOLEAN /\ asked \in [Peers -> BOOLEAN]
        BY DEF TypeOK
      <4>3. y \in BOOLEAN
        BY <4>2
      <4> HIDE DEF y
      <4> QED
        BY <4>1, <4>2, <4>3
    <3>3. partner' \in [Peers -> Peers \cup {Nobody}]
      BY <2>1, <2>4 DEF TypeOK, Show
    <3> QED
      BY <3>1, <3>2, <3>3
  <2> QED
    BY <2>2, <2>3, <2>4
<1> QED
  BY <1>1, <1>2, <1>3, <1>4, <1>5 DEF TypeOK, Engine

LEMMA SeesEndTypes ==
    ASSUME TypeOK, NEW p \in Peers, NEW c \in DOMAIN links, SeesEnd(p, c)
    PROVE  TypeOK'
<1>1. /\ UNCHANGED <<status, candidate, sock, online, dialing, target, key, reading, links, connected, ids, partner, engine, asked, exchanges, requests, early>>
      /\ ui' = [ui EXCEPT ![p] = IF @ = "connected" THEN "idle" ELSE @]
  BY DEF SeesEnd, driverVars, threadVars, stateVars, windowVars, bounds
<1>2. LinksOK' /\ DOMAIN links' = DOMAIN links
  BY <1>1, LinksStay DEF TypeOK
<1>3. ReadersOK'
  <2>1. readers' = [readers EXCEPT ![p] = BagRemove(@, c)] /\ c \in BagToSet(readers[p])
    BY DEF SeesEnd
  <2>2. sock[p] \in DOMAIN links \cup {Fresh, Nobody} /\ ReadersOK
    BY DEF TypeOK
  <2> QED
    BY <1>2, <2>1, <2>2, ReadersChange
<1>4. TodoOK' /\ SelfOK'
  <2>1. Publish(p, {ConnClosed}) /\ {ConnClosed} \in SUBSET TasksOf(p)
    BY HandlersAreTasks DEF SeesEnd
  <2> QED
    BY <2>1, TodoPublished DEF TypeOK
<1> QED
  BY <1>1, <1>2, <1>3, <1>4 DEF TypeOK, Engine

LEMMA ReaderStopsTypes ==
    ASSUME TypeOK, NEW p \in Peers, NEW c \in BagToSet(readers[p]), ReaderStops(p, c)
    PROVE  TypeOK'
<1>1. /\ UNCHANGED <<status, candidate, sock, online, dialing, target, key, reading, links, connected, ids, partner, engine, ui, asked, exchanges, requests, early>>
  BY DEF ReaderStops, driverVars, threadVars, stateVars, windowVars, bounds
<1>2. LinksOK' /\ DOMAIN links' = DOMAIN links
  BY <1>1, LinksStay DEF TypeOK
<1>3. ReadersOK'
  <2>1. readers' = [readers EXCEPT ![p] = BagRemove(@, c)] /\ c \in BagToSet(readers[p])
    BY DEF ReaderStops
  <2>2. sock[p] \in DOMAIN links \cup {Fresh, Nobody} /\ ReadersOK
    BY DEF TypeOK
  <2> QED
    BY <1>2, <2>1, <2>2, ReadersChange
<1>4. TodoOK' /\ SelfOK'
  BY DEF TypeOK, TodoOK, SelfOK, ReaderStops
<1> QED
  BY <1>1, <1>2, <1>3, <1>4 DEF TypeOK, Engine

LEMMA ReaderTurnsTypes ==
    ASSUME TypeOK, NEW p \in Peers, NEW c \in BagToSet(readers[p]), ReaderTurns(p, c)
    PROVE  TypeOK'
<1>1. /\ UNCHANGED <<status, candidate, sock, online, dialing, target, key, reading, links, connected, ids, partner, engine, ui, asked, exchanges, requests, early>>
  BY DEF ReaderTurns, driverVars, threadVars, stateVars, windowVars, bounds
<1>2. LinksOK' /\ DOMAIN links' = DOMAIN links
  BY <1>1, LinksStay DEF TypeOK
<1>3. ReadersOK'
  <2>1. readers' = [readers EXCEPT ![p] = BagAdd(BagRemove(@, c), sock[p])] /\ c \in BagToSet(readers[p])
    BY DEF ReaderTurns
  <2>2. sock[p] \in DOMAIN links \cup {Fresh, Nobody} /\ ReadersOK
    BY DEF TypeOK
  <2> QED
    BY <1>2, <2>1, <2>2, ReadersChange
<1>4. TodoOK' /\ SelfOK'
  BY DEF TypeOK, TodoOK, SelfOK, ReaderTurns
<1> QED
  BY <1>1, <1>2, <1>3, <1>4 DEF TypeOK, Engine

LEMMA AgainTypes ==
    ASSUME TypeOK, NEW p \in Peers, NEW t \in BagToSet(todo[p]), Again(p, t)
    PROVE  TypeOK'
<1>1. /\ UNCHANGED <<status, candidate, sock, online, dialing, target, key, reading, links, connected, ids, partner, engine, ui, asked, exchanges, requests, early>>
  BY DEF Again, driverVars, threadVars, stateVars, windowVars, bounds
<1>2. LinksOK' /\ DOMAIN links' = DOMAIN links
  BY <1>1, LinksStay DEF TypeOK
<1>3. ReadersOK'
  <2>1. readers' = [readers EXCEPT ![p] = BagAdd(@, sock[p])] \/ UNCHANGED readers
    BY DEF Again
  <2>2. sock[p] \in DOMAIN links \cup {Fresh, Nobody} /\ ReadersOK
    BY DEF TypeOK
  <2> QED
    BY <1>2, <2>1, <2>2, ReadersChange, ReadersStay
<1>4. TodoOK' /\ SelfOK'
  <2>1. todo' = After(p, t, {}) /\ {} \in SUBSET TasksOf(p)
    BY DEF Again
  <2> QED
    BY <2>1, TodoAfter DEF TypeOK
<1> QED
  BY <1>1, <1>2, <1>3, <1>4 DEF TypeOK, Engine

LEMMA SetStatusTypes ==
    ASSUME TypeOK, NEW p \in Peers, NEW t \in BagToSet(todo[p]), SetStatus(p, t)
    PROVE  TypeOK'
<1>1. /\ UNCHANGED <<status, candidate, sock, online, dialing, target, key, reading, readers, links, partner, engine, ui, asked, exchanges, requests, early>>
  BY DEF SetStatus, driverVars, threadVars, stateVars, windowVars, bounds
<1>2. LinksOK' /\ DOMAIN links' = DOMAIN links
  BY <1>1, LinksStay DEF TypeOK
<1>3. ReadersOK'
  BY <1>1, <1>2, ReadersStay DEF TypeOK
<1>4. TodoOK' /\ SelfOK'
  <2>1. todo' = After(p, t, {Stop}) \/ todo' = After(p, t, {})
    BY DEF SetStatus
  <2>2. {Stop} \in SUBSET TasksOf(p) /\ {} \in SUBSET TasksOf(p)
    BY HandlersAreTasks
  <2> QED
    BY <2>1, <2>2, TodoAfter DEF TypeOK
<1>5. connected' \in [Peers -> BOOLEAN] /\ ids' \in [Peers -> {"low", "high"}]
  BY DEF SetStatus, TypeOK
<1> QED
  BY <1>1, <1>2, <1>3, <1>4, <1>5 DEF TypeOK, Engine

LEMMA PublishEngineTypes ==
    ASSUME TypeOK, NEW p \in Peers, NEW t \in BagToSet(todo[p]), PublishEngine(p, t)
    PROVE  TypeOK'
<1>1. /\ UNCHANGED <<status, candidate, sock, online, dialing, target, key, reading, readers, links, connected, partner, engine, ui, asked, exchanges, requests, early>>
  BY DEF PublishEngine, driverVars, threadVars, stateVars, windowVars, bounds
<1>2. LinksOK' /\ DOMAIN links' = DOMAIN links
  BY <1>1, LinksStay DEF TypeOK
<1>3. ReadersOK'
  BY <1>1, <1>2, ReadersStay DEF TypeOK
<1>4. TodoOK' /\ SelfOK'
  <2>1. todo' = After(p, t, {Start(partner[p])}) /\ {Start(partner[p])} \in SUBSET TasksOf(p)
    BY HandlersAreTasks DEF PublishEngine, TypeOK
  <2> QED
    BY <2>1, TodoAfter DEF TypeOK
<1>5. ids' \in [Peers -> {"low", "high"}]
  BY DEF PublishEngine, TypeOK
<1> QED
  BY <1>1, <1>2, <1>3, <1>4, <1>5 DEF TypeOK, Engine

LEMMA StartEngineTypes ==
    ASSUME TypeOK, NEW p \in Peers, NEW t \in BagToSet(todo[p]), StartEngine(p, t)
    PROVE  TypeOK'
<1>1. /\ UNCHANGED <<status, candidate, sock, online, dialing, target, key, reading, readers, links, connected, ids, partner, ui, asked, exchanges, requests, early>>
  BY DEF StartEngine, driverVars, threadVars, stateVars, windowVars, bounds
<1>2. LinksOK' /\ DOMAIN links' = DOMAIN links
  BY <1>1, LinksStay DEF TypeOK
<1>3. ReadersOK'
  BY <1>1, <1>2, ReadersStay DEF TypeOK
<1>4. TodoOK' /\ SelfOK'
  <2>1. todo' = After(p, t, {SendInitFileReceiverDone}) \/ todo' = After(p, t, {})
    BY DEF StartEngine
  <2>2. {SendInitFileReceiverDone} \in SUBSET TasksOf(p) /\ {} \in SUBSET TasksOf(p)
    BY HandlersAreTasks
  <2> QED
    BY <2>1, <2>2, TodoAfter DEF TypeOK
<1>5. engine' \in [Peers -> Engine]
  <2>1. engine \in [Peers -> Engine]
    BY DEF TypeOK
  <2>2. CASE At(p, t, "listen") /\ engine' = [engine EXCEPT ![p].addr = t.arg, ![p].listening = TRUE]
    <3>1. t.arg \in Peers \cup {Nobody}
      BY <2>2, JobDone DEF TypeOK, Kinds, Args, At
    <3> QED
      BY <2>1, <2>2, <3>1 DEF Engine
  <2>3. CASE engine' = [engine EXCEPT ![p].started = TRUE]
    BY <2>1, <2>3 DEF Engine
  <2> QED
    BY <2>2, <2>3 DEF StartEngine
<1> QED
  BY <1>1, <1>2, <1>3, <1>4, <1>5 DEF TypeOK

LEMMA StartSendersTypes ==
    ASSUME TypeOK, NEW p \in Peers, NEW t \in BagToSet(todo[p]), StartSenders(p, t)
    PROVE  TypeOK'
<1>1. /\ UNCHANGED <<status, candidate, sock, online, dialing, target, key, reading, readers, links, connected, ids, partner, ui, asked, exchanges, requests>>
  BY DEF StartSenders, driverVars, threadVars, stateVars, windowVars, bounds
<1>2. LinksOK' /\ DOMAIN links' = DOMAIN links
  BY <1>1, LinksStay DEF TypeOK
<1>3. ReadersOK'
  BY <1>1, <1>2, ReadersStay DEF TypeOK
<1>4. TodoOK' /\ SelfOK'
  <2>1. todo' = After(p, t, {}) /\ {} \in SUBSET TasksOf(p)
    BY DEF StartSenders
  <2> QED
    BY <2>1, TodoAfter DEF TypeOK
<1>5. engine' \in [Peers -> Engine] /\ early' \subseteq Peers
  <2>1. engine \in [Peers -> Engine] /\ early \subseteq Peers
    BY DEF TypeOK
  <2> DEFINE q == engine[p].addr
             s == engine[p].senders \/ (q # Nobody /\ engine[q].listening)
  <2>2. engine' = [engine EXCEPT ![p].senders = s]
    BY DEF StartSenders
  <2>3. s \in BOOLEAN
    BY <2>1 DEF Engine
  <2>4. early' \subseteq Peers
    BY <2>1 DEF StartSenders
  <2> HIDE DEF q, s
  <2> QED
    BY <2>1, <2>2, <2>3, <2>4 DEF Engine
<1> QED
  BY <1>1, <1>2, <1>3, <1>4, <1>5 DEF TypeOK

LEMMA StopEngineTypes ==
    ASSUME TypeOK, NEW p \in Peers, NEW t \in BagToSet(todo[p]), StopEngine(p, t)
    PROVE  TypeOK'
<1>1. /\ UNCHANGED <<status, candidate, sock, online, dialing, target, key, reading, readers, links, connected, ids, partner, ui, asked, exchanges, requests, early>>
  BY DEF StopEngine, driverVars, threadVars, stateVars, windowVars, bounds
<1>2. LinksOK' /\ DOMAIN links' = DOMAIN links
  BY <1>1, LinksStay DEF TypeOK
<1>3. ReadersOK'
  BY <1>1, <1>2, ReadersStay DEF TypeOK
<1>4. TodoOK' /\ SelfOK'
  <2>1. todo' = After(p, t, {}) /\ {} \in SUBSET TasksOf(p)
    BY DEF StopEngine
  <2> QED
    BY <2>1, TodoAfter DEF TypeOK
<1>5. engine' \in [Peers -> Engine]
  <2>1. engine \in [Peers -> Engine]
    BY DEF TypeOK
  <2>2. [Off EXCEPT !.addr = engine[p].addr] \in Engine
    BY <2>1 DEF Engine, Off
  <2> QED
    BY <2>1, <2>2 DEF StopEngine
<1> QED
  BY <1>1, <1>2, <1>3, <1>4, <1>5 DEF TypeOK

\* The types, at first and after every step.
LEMMA InitTypes == Init => TypeOK
<1> SUFFICES ASSUME Init
             PROVE  TypeOK
  OBVIOUS
<1>1. BagOK(EmptyBag) /\ IsFcn(EmptyBag) /\ BagToSet(EmptyBag) = {}
  BY DEF BagOK, IsFcn, EmptyBag, SetToBag, BagToSet
<1>2. links = << >> /\ DOMAIN links = {} /\ links \in Seq(Link)
  BY DEF Init
<1>3. LinksOK
  BY <1>2 DEF LinksOK
<1>4. ReadersOK /\ TodoOK /\ SelfOK
  BY <1>1 DEF Init, ReadersOK, TodoOK, SelfOK
<1>5. engine \in [Peers -> Engine]
  BY DEF Init, Engine, Off
<1> QED
  BY <1>2, <1>3, <1>4, <1>5 DEF Init, TypeOK

LEMMA StepTypes ==
    ASSUME TypeOK, [Next]_vars
    PROVE  TypeOK'
<1>1. ASSUME UNCHANGED vars
      PROVE  TypeOK'
  <2>1. UNCHANGED <<status, candidate, sock, online, dialing, target, key, reading, readers, links, todo,
                    connected, ids, partner, engine, ui, asked, exchanges, requests, mishaps, early>>
    BY <1>1 DEF vars, driverVars, threadVars, stateVars, windowVars, bounds
  <2>2. LinksOK' /\ ReadersOK' /\ TodoOK' /\ SelfOK'
    BY <2>1, LinksStay, ReadersStay DEF TypeOK, TodoOK, SelfOK
  <2> QED
    BY <2>1, <2>2 DEF TypeOK
<1>2. ASSUME NEW p \in Peers, User(p)
      PROVE  TypeOK'
  BY <1>2, UserConnectsTypes, UserCancelsTypes, UserAnswersTypes, UserDisconnectsTypes DEF User
<1>3. ASSUME NEW p \in Peers, NEW t \in BagToSet(todo[p]), Step(p, t)
      PROVE  TypeOK'
  BY <1>3, DialTypes, ExchangeTypes, ExchangeAbortedTypes, RefusedTypes, ExchangeBreaksTypes,
     ConnectTypes, UnconnectedTypes, EstablishTypes, RecvMsgTypes, ResetTypes, SendTypes, AgainTypes,
     SetStatusTypes, PublishEngineTypes, StartEngineTypes, StartSendersTypes, StopEngineTypes DEF Step
<1>4. ASSUME NEW p \in Peers, NEW c \in DOMAIN links, Accept(p, c) \/ Parse(p, c) \/ SeesEnd(p, c)
      PROVE  TypeOK'
  BY <1>4, AcceptTypes, ParseTypes, SeesEndTypes
<1>5. ASSUME NEW p \in Peers, NEW c \in BagToSet(readers[p]), ReaderStops(p, c) \/ ReaderTurns(p, c)
      PROVE  TypeOK'
  BY <1>5, ReaderStopsTypes, ReaderTurnsTypes
<1> QED
  BY <1>1, <1>2, <1>3, <1>4, <1>5 DEF Next, Thread

THEOREM SessionTypeCorrect == Spec => []TypeOK
<1>1. Init => TypeOK
  BY InitTypes
<1>2. TypeOK /\ [Next]_vars => TypeOK'
  BY StepTypes
<1> QED
  BY <1>1, <1>2, PTL DEF Spec

-----------------------------------------------------------------------------
(* What the actions do.  For action X, or each of its cases, XDoes says    *)
(* what it does to the jobs and the variables of p and to the links; lemma *)
(* XEffect shows that it does.                                             *)

\* One job is replaced by another.
Swaps(p, h, l, x, h1, l1) ==
    /\ Others(p) /\ Doing(p, h, l, x) /\ Doing(p, h1, l1, Nobody)'
    /\ \A s, a, y : Doing(p, s, a, y)' => Doing(p, s, a, y) \/ (s = h1 /\ a = l1 /\ y = Nobody)
    /\ \A s, a, y : Doing(p, s, a, y) => Doing(p, s, a, y)' \/ (s = h /\ a = l /\ y = x)

LEMMA SwapBecomes ==
    ASSUME NEW B, BagOK(B), NEW t \in BagToSet(B), NEW r, r # t
    PROVE  Becomes(B, BagAdd(BagRemove(B, t), r), t, {r})
<1>1. PICK new : new = {}
  OBVIOUS
<1> QED
  BY <1>1, AfterBecomes

LEMMA JobSwaps ==
    ASSUME TodoOK, NEW p \in Peers, NEW t \in BagToSet(todo[p]), NEW u \in Tasks,
           ~Alone(Head(u.steps), Aim(u)), Aim(u) # Aim(t), u.arg = Nobody,
           todo' = [todo EXCEPT ![p] = BagAdd(BagRemove(@, t), u)]
    PROVE  LET h == Head(t.steps)
               l == Aim(t)
           IN  /\ Swaps(p, h, l, t.arg, Head(u.steps), Aim(u))
               /\ Once(p) => Once(p)'
               /\ Once(p) /\ Alone(h, l) => ~Doing(p, h, l, t.arg)'
<1> DEFINE h == Head(t.steps)
           l == Aim(t)
           x == t.arg
           h1 == Head(u.steps)
           l1 == Aim(u)
<1>1. t \in Tasks /\ Doing(p, h, l, x) /\ (Single(t) <=> Alone(h, l))
  BY JobDone
<1>2. {JobOf(v) : v \in {u}} = {<<h1, l1, Nobody>>}
  BY DEF JobOf
<1>3. ~Single(u) /\ u # t
  BY DEF Single, Alone
<1>4. BagOK(todo[p]) /\ DOMAIN todo = Peers
  BY DEF TodoOK
<1>5. Becomes(todo[p], BagAdd(BagRemove(todo[p], t), u), t, {u})
  BY <1>3, <1>4, SwapBecomes
<1>6. DOMAIN todo' = Peers /\ (\A q \in Peers : q # p => todo'[q] = todo[q])
      /\ todo'[p] = BagAdd(BagRemove(todo[p], t), u)
  BY <1>4
<1>7. {u} \in SUBSET Tasks /\ t \notin {u} /\ \A v \in {u} : Single(v) => v \notin BagToSet(todo[p])
  BY <1>3
<1>8. /\ Turns(p, h, l, x, {<<h1, l1, Nobody>>})
      /\ Once(p) /\ Single(t) => ~Doing(p, h, l, x)'
      /\ Once(p) => Once(p)'
  BY <1>2, <1>5, <1>6, <1>7, JobsBecome
<1>9. \A s, a, y : <<s, a, y>> \in {<<h1, l1, Nobody>>} <=> (s = h1 /\ a = l1 /\ y = Nobody)
  OBVIOUS
<1> HIDE DEF h, l, x, h1, l1
<1>10. Swaps(p, h, l, x, h1, l1)
  BY <1>1, <1>8, <1>9 DEF Turns, Swaps, Others
<1> QED
  BY <1>1, <1>8, <1>10 DEF h, l, x, h1, l1

UserConnectsDoes(p, q) ==
    /\ Gets(p, "dial", "request", q)
    /\ Once(p) => Once(p)'
    /\ ui[p] = "idle"
    /\ p # q
    /\ mishaps' = mishaps
    /\ \A r \in Peers : r # p => Untouched(r) /\ SameKey(r)
    /\ UNCHANGED <<status[p], sock[p], online[p], dialing[p], target[p], reading[p], connected[p], ids[p], partner[p], engine[p], asked[p], key[p], candidate[p], Reads(p)>>
    /\ ui'[p] = "asking"
    /\ UNCHANGED links
    /\ UNCHANGED early

LEMMA UserConnectsEffect ==
    ASSUME TypeOK, TypeOK', NEW p \in Peers, NEW q \in Peers,
           UserConnects(p, q)
    PROVE  UserConnectsDoes(p, q)
<1>1. /\ UNCHANGED <<status, candidate, sock, online, dialing, target, key, reading, readers, links, connected, ids, partner, engine, asked, exchanges, early>>
      /\ requests' = requests + 1
      /\ ui' = [ui EXCEPT ![p] = "asking"]
  BY DEF UserConnects, driverVars, threadVars, stateVars, windowVars, bounds
<1>2. /\ Gets(p, "dial", "request", q)
      /\ Once(p) => Once(p)'
  <2>1. Publish(p, {SendConnectRequest(q)})
    BY DEF UserConnects
  <2>2. JobIs(SendConnectRequest(q), "dial", "request", q)
    BY HandlerJobs DEF TypeOK
  <2>3. Alone("dial", "request") <=> FALSE
    BY DEF Alone
  <2> QED
    BY <2>1, <2>2, <2>3, JobGets DEF TypeOK, JobIs
<1>3. \A r \in Peers : r # p => Untouched(r) /\ SameKey(r)
  BY <1>1, <1>2 DEF TypeOK, ReadersOK, Untouched, SameKey, Gets, Others, Reads
<1>6. /\ ui[p] = "idle"
      /\ p # q
      /\ mishaps' = mishaps
  BY <1>1, <1>2, SessionAssumption DEF UserConnects, At, Noting, TypeOK
<1> QED
  BY <1>1, <1>2, <1>3, <1>6 DEF UserConnectsDoes, TypeOK, Reads

UserCancelsDoes(p) ==
    /\ Gets(p, "cancel", "reset", Nobody)
    /\ Once(p) => Once(p)'
    /\ ui[p] = "asking"
    /\ mishaps' = mishaps
    /\ \A r \in Peers : r # p => Untouched(r) /\ SameKey(r)
    /\ UNCHANGED <<status[p], sock[p], online[p], dialing[p], target[p], reading[p], connected[p], ids[p], partner[p], engine[p], asked[p], key[p], candidate[p], Reads(p)>>
    /\ ui'[p] = "idle"
    /\ UNCHANGED links
    /\ UNCHANGED early

LEMMA UserCancelsEffect ==
    ASSUME TypeOK, TypeOK', NEW p \in Peers,
           UserCancels(p)
    PROVE  UserCancelsDoes(p)
<1>1. /\ UNCHANGED <<status, candidate, sock, online, dialing, target, key, reading, readers, links, connected, ids, partner, engine, asked, exchanges, early>>
      /\ requests' = requests + 1
      /\ ui' = [ui EXCEPT ![p] = "idle"]
  BY DEF UserCancels, driverVars, threadVars, stateVars, windowVars, bounds
<1>2. /\ Gets(p, "cancel", "reset", Nobody)
      /\ Once(p) => Once(p)'
  <2>1. Publish(p, {ResetConnection})
    BY DEF UserCancels
  <2>2. JobIs(ResetConnection, "cancel", "reset", Nobody)
    BY HandlerJobs DEF TypeOK
  <2>3. Alone("cancel", "reset") <=> FALSE
    BY DEF Alone
  <2> QED
    BY <2>1, <2>2, <2>3, JobGets DEF TypeOK, JobIs
<1>3. \A r \in Peers : r # p => Untouched(r) /\ SameKey(r)
  BY <1>1, <1>2 DEF TypeOK, ReadersOK, Untouched, SameKey, Gets, Others, Reads
<1>6. /\ ui[p] = "asking"
      /\ mishaps' = mishaps
  BY <1>1, <1>2, SessionAssumption DEF UserCancels, At, Noting, TypeOK
<1> QED
  BY <1>1, <1>2, <1>3, <1>6 DEF UserCancelsDoes, TypeOK, Reads

UserAcceptsDoes(p) ==
    /\ Gets(p, "accept", "statusOn", Nobody)
    /\ Once(p) /\ ~Doing(p, "accept", "statusOn", Nobody) => Once(p)'
    /\ asked[p]
    /\ mishaps' = mishaps
    /\ \A r \in Peers : r # p => Untouched(r) /\ SameKey(r)
    /\ UNCHANGED <<status[p], sock[p], online[p], dialing[p], target[p], reading[p], connected[p], ids[p], partner[p], engine[p], key[p], candidate[p], Reads(p)>>
    /\ asked'[p] = FALSE
    /\ ui'[p] = "connected"
    /\ UNCHANGED links
    /\ UNCHANGED early

LEMMA UserAcceptsEffect ==
    ASSUME TypeOK, TypeOK', NEW p \in Peers,
           UserAnswers(p),
           ui' = [ui EXCEPT ![p] = "connected"],
           Publish(p, {SendAccept})
    PROVE  UserAcceptsDoes(p)
<1>1. /\ UNCHANGED <<status, candidate, sock, online, dialing, target, key, reading, readers, links, connected, ids, partner, engine, exchanges, requests, early>>
      /\ asked' = [asked EXCEPT ![p] = FALSE]
      /\ ui' = [ui EXCEPT ![p] = "connected"]
  BY DEF UserAnswers, driverVars, threadVars, stateVars, windowVars, bounds
<1>2. /\ Gets(p, "accept", "statusOn", Nobody)
      /\ Once(p) /\ ~Doing(p, "accept", "statusOn", Nobody) => Once(p)'
  <2>1. Publish(p, {SendAccept})
    BY DEF UserAnswers
  <2>2. JobIs(SendAccept, "accept", "statusOn", Nobody)
    BY HandlerJobs DEF TypeOK
  <2>3. Alone("accept", "statusOn") <=> TRUE
    BY DEF Alone
  <2> QED
    BY <2>1, <2>2, <2>3, JobGets DEF TypeOK, JobIs
<1>3. \A r \in Peers : r # p => Untouched(r) /\ SameKey(r)
  BY <1>1, <1>2 DEF TypeOK, ReadersOK, Untouched, SameKey, Gets, Others, Reads
<1>6. /\ asked[p]
      /\ mishaps' = mishaps
  BY <1>1, <1>2, SessionAssumption DEF UserAnswers, At, Noting, TypeOK
<1> QED
  BY <1>1, <1>2, <1>3, <1>6 DEF UserAcceptsDoes, TypeOK, Reads

UserRejectsDoes(p) ==
    /\ Gets(p, "reject", "statusOff", Nobody)
    /\ Once(p) /\ ~Doing(p, "reject", "statusOff", Nobody) => Once(p)'
    /\ asked[p]
    /\ mishaps' = mishaps
    /\ \A r \in Peers : r # p => Untouched(r) /\ SameKey(r)
    /\ UNCHANGED <<status[p], sock[p], online[p], dialing[p], target[p], reading[p], connected[p], ids[p], partner[p], engine[p], ui[p], key[p], candidate[p], Reads(p)>>
    /\ asked'[p] = FALSE
    /\ UNCHANGED links
    /\ UNCHANGED early

LEMMA UserRejectsEffect ==
    ASSUME TypeOK, TypeOK', NEW p \in Peers,
           UserAnswers(p),
           Publish(p, {SendReject}),
           UNCHANGED ui
    PROVE  UserRejectsDoes(p)
<1>1. /\ UNCHANGED <<status, candidate, sock, online, dialing, target, key, reading, readers, links, connected, ids, partner, engine, ui, exchanges, requests, early>>
      /\ asked' = [asked EXCEPT ![p] = FALSE]
  BY DEF UserAnswers, driverVars, threadVars, stateVars, windowVars, bounds
<1>2. /\ Gets(p, "reject", "statusOff", Nobody)
      /\ Once(p) /\ ~Doing(p, "reject", "statusOff", Nobody) => Once(p)'
  <2>1. Publish(p, {SendReject})
    BY DEF UserAnswers
  <2>2. JobIs(SendReject, "reject", "statusOff", Nobody)
    BY HandlerJobs DEF TypeOK
  <2>3. Alone("reject", "statusOff") <=> TRUE
    BY DEF Alone
  <2> QED
    BY <2>1, <2>2, <2>3, JobGets DEF TypeOK, JobIs
<1>3. \A r \in Peers : r # p => Untouched(r) /\ SameKey(r)
  BY <1>1, <1>2 DEF TypeOK, ReadersOK, Untouched, SameKey, Gets, Others, Reads
<1>6. /\ asked[p]
      /\ mishaps' = mishaps
  BY <1>1, <1>2, SessionAssumption DEF UserAnswers, At, Noting, TypeOK
<1> QED
  BY <1>1, <1>2, <1>3, <1>6 DEF UserRejectsDoes, TypeOK, Reads

UserDisconnectsDoes(p) ==
    /\ Gets(p, "reset", "close", Nobody)
    /\ Once(p) => Once(p)'
    /\ ui[p] = "connected"
    /\ mishaps' = mishaps
    /\ \A r \in Peers : r # p => Untouched(r) /\ SameKey(r)
    /\ UNCHANGED <<status[p], sock[p], online[p], dialing[p], target[p], reading[p], connected[p], ids[p], partner[p], engine[p], asked[p], key[p], candidate[p], Reads(p)>>
    /\ ui'[p] = "idle"
    /\ UNCHANGED links
    /\ UNCHANGED early

LEMMA UserDisconnectsEffect ==
    ASSUME TypeOK, TypeOK', NEW p \in Peers,
           UserDisconnects(p)
    PROVE  UserDisconnectsDoes(p)
<1>1. /\ UNCHANGED <<status, candidate, sock, online, dialing, target, key, reading, readers, links, connected, ids, partner, engine, asked, exchanges, requests, early>>
      /\ ui' = [ui EXCEPT ![p] = "idle"]
  BY DEF UserDisconnects, driverVars, threadVars, stateVars, windowVars, bounds
<1>2. /\ Gets(p, "reset", "close", Nobody)
      /\ Once(p) => Once(p)'
  <2>1. Publish(p, {Disconnect})
    BY DEF UserDisconnects
  <2>2. JobIs(Disconnect, "reset", "close", Nobody)
    BY HandlerJobs DEF TypeOK
  <2>3. Alone("reset", "close") <=> FALSE
    BY DEF Alone
  <2> QED
    BY <2>1, <2>2, <2>3, JobGets DEF TypeOK, JobIs
<1>3. \A r \in Peers : r # p => Untouched(r) /\ SameKey(r)
  BY <1>1, <1>2 DEF TypeOK, ReadersOK, Untouched, SameKey, Gets, Others, Reads
<1>6. /\ ui[p] = "connected"
      /\ mishaps' = mishaps
  BY <1>1, <1>2, SessionAssumption DEF UserDisconnects, At, Noting, TypeOK
<1> QED
  BY <1>1, <1>2, <1>3, <1>6 DEF UserDisconnectsDoes, TypeOK, Reads

DialDoes(p, x) ==
    /\ Advances(p, "dial", "request", x, "exchange")
    /\ Once(p) /\ ~Doing(p, "exchange", "request", x) => Once(p)'
    /\ x \in Peers /\ x # p
    /\ mishaps \subseteq mishaps'
    /\ mishaps' = {} => ~Ending(p) /\ ~Busy(p)
    /\ \A r \in Peers : r # p => Untouched(r) /\ SameKey(r)
    /\ UNCHANGED <<status[p], online[p], reading[p], connected[p], ids[p], partner[p], engine[p], ui[p], asked[p], key[p], candidate[p], Reads(p)>>
    /\ sock'[p] = Fresh
    /\ dialing'[p] = TRUE
    /\ target'[p] = x
    /\ UNCHANGED links
    /\ UNCHANGED early

LEMMA DialEffect ==
    ASSUME TypeOK, TypeOK', NEW p \in Peers, NEW t \in BagToSet(todo[p]),
           Dial(p, t)
    PROVE  DialDoes(p, t.arg)
<1>1. /\ UNCHANGED <<status, candidate, online, key, reading, readers, links, connected, ids, partner, engine, ui, asked, exchanges, requests, early>>
      /\ sock' = [sock EXCEPT ![p] = Fresh]
      /\ dialing' = [dialing EXCEPT ![p] = TRUE]
      /\ target' = [target EXCEPT ![p] = t.arg]
  BY DEF Dial, driverVars, threadVars, stateVars, windowVars, bounds
<1>2. /\ Advances(p, "dial", "request", t.arg, "exchange")
      /\ Once(p) /\ ~Doing(p, "exchange", "request", t.arg) => Once(p)'
      /\ t.arg \in Peers /\ t.arg # p
  <2>1. Head(t.steps) = "dial"
    BY DEF Dial, At
  <2>2. Aim(t) = "request" /\ t.arg = t.arg /\ t.arg \in Peers /\ t.arg # p
    BY <2>1, JobDone DEF TypeOK, SelfOK, TasksOf, Kinds, Args
  <2>3. todo' = After(p, t, {}) /\ StepAfter("dial", "request") = "exchange"
    BY DEF Dial, StepAfter
  <2>4. (Alone("dial", "request") <=> FALSE) /\ (Alone("exchange", "request") <=> TRUE)
    BY DEF Alone
  <2> QED
    BY <2>1, <2>2, <2>3, <2>4, JobAdvances DEF TypeOK
<1>3. \A r \in Peers : r # p => Untouched(r) /\ SameKey(r)
  BY <1>1, <1>2 DEF TypeOK, ReadersOK, Untouched, SameKey, Advances, Others, Reads
<1>6. /\ mishaps \subseteq mishaps'
      /\ mishaps' = {} => ~Ending(p) /\ ~Busy(p)
  BY <1>1, <1>2, SessionAssumption DEF Dial, At, Noting, TypeOK
<1> QED
  BY <1>1, <1>2, <1>3, <1>6 DEF DialDoes, TypeOK, Reads

ExchangeDoes(p, x) ==
    /\ Advances(p, "exchange", "request", x, "connect")
    /\ Once(p) => ~Doing(p, "exchange", "request", x)'
    /\ Once(p) /\ ~Doing(p, "connect", "request", x) => Once(p)'
    /\ x \in Peers /\ x # p
    /\ status[x] = "waiting"
    /\ mishaps \subseteq mishaps'
    /\ mishaps' = {} => ~Ending(x) /\ ~Busy(x) /\ ~Beginning(x)
    /\ LET q == x
       IN  /\ q \in Peers /\ q # p
           /\ \A r \in Peers : r # p /\ r # q => Untouched(r) /\ SameKey(r)
           /\ Same(q) /\ (Once(q) => Once(q)') /\ UNCHANGED Reads(q)
           /\ UNCHANGED <<sock[q], online[q], dialing[q], target[q], reading[q], connected[q],
                          ids[q], partner[q], engine[q], ui[q], asked[q]>>
           /\ status'[q] = "tls" /\ candidate'[q] = p /\ key'[q] = exchanges + 1
    /\ UNCHANGED <<sock[p], online[p], dialing[p], target[p], reading[p], connected[p], ids[p], partner[p], engine[p], ui[p], asked[p], Reads(p)>>
    /\ key'[p] = exchanges + 1
    /\ status'[p] = status[p]
    /\ candidate'[p] = candidate[p]
    /\ UNCHANGED links
    /\ UNCHANGED early

LEMMA ExchangeEffect ==
    ASSUME TypeOK, TypeOK', NEW p \in Peers, NEW t \in BagToSet(todo[p]),
           Exchange(p, t)
    PROVE  ExchangeDoes(p, t.arg)
<1>1. /\ UNCHANGED <<sock, online, dialing, target, reading, readers, links, connected, ids, partner, engine, ui, asked, requests, early>>
      /\ exchanges' = exchanges + 1
      /\ key' = [key EXCEPT ![p] = exchanges + 1, ![t.arg] = exchanges + 1]
      /\ status' = [status EXCEPT ![t.arg] = "tls"]
      /\ candidate' = [candidate EXCEPT ![t.arg] = p]
  BY DEF Exchange, driverVars, threadVars, stateVars, windowVars, bounds
<1>2. /\ Advances(p, "exchange", "request", t.arg, "connect")
      /\ Once(p) => ~Doing(p, "exchange", "request", t.arg)'
      /\ Once(p) /\ ~Doing(p, "connect", "request", t.arg) => Once(p)'
      /\ t.arg \in Peers /\ t.arg # p
  <2>1. Head(t.steps) = "exchange"
    BY DEF Exchange, At
  <2>2. Aim(t) = "request" /\ t.arg = t.arg /\ t.arg \in Peers /\ t.arg # p
    BY <2>1, JobDone DEF TypeOK, SelfOK, TasksOf, Kinds, Args
  <2>3. todo' = After(p, t, {}) /\ StepAfter("exchange", "request") = "connect"
    BY DEF Exchange, StepAfter
  <2>4. (Alone("exchange", "request") <=> TRUE) /\ (Alone("connect", "request") <=> TRUE)
    BY DEF Alone
  <2> QED
    BY <2>1, <2>2, <2>3, <2>4, JobAdvances DEF TypeOK
<1>3. LET q == t.arg
              IN  /\ q \in Peers /\ q # p
                  /\ \A r \in Peers : r # p /\ r # q => Untouched(r) /\ SameKey(r)
                  /\ Same(q) /\ (Once(q) => Once(q)') /\ UNCHANGED Reads(q)
                  /\ UNCHANGED <<sock[q], online[q], dialing[q], target[q], reading[q], connected[q],
                                 ids[q], partner[q], engine[q], ui[q], asked[q]>>
                  /\ status'[q] = "tls" /\ candidate'[q] = p /\ key'[q] = exchanges + 1
  BY <1>1, <1>2 DEF TypeOK, ReadersOK, Untouched, SameKey, Advances, Others, Reads
<1>6. /\ status[t.arg] = "waiting"
      /\ mishaps \subseteq mishaps'
      /\ mishaps' = {} => ~Ending(t.arg) /\ ~Busy(t.arg) /\ ~Beginning(t.arg)
  BY <1>1, <1>2, SessionAssumption DEF Exchange, At, Noting, TypeOK
<1> QED
  BY <1>1, <1>2, <1>3, <1>6 DEF ExchangeDoes, TypeOK, Reads

RefusedDoes(p, x) ==
    /\ Swaps(p, "exchange", "request", x, "reset", "unconnected")
    /\ Once(p) => ~Doing(p, "exchange", "request", x)'
    /\ Once(p) => Once(p)'
    /\ x \in Peers /\ x # p
    /\ mishaps' = mishaps
    /\ \A r \in Peers : r # p => Untouched(r) /\ SameKey(r)
    /\ UNCHANGED <<status[p], sock[p], online[p], dialing[p], target[p], reading[p], connected[p], ids[p], partner[p], engine[p], asked[p], key[p], candidate[p], Reads(p)>>
    /\ ui'[p] = "idle"
    /\ UNCHANGED links
    /\ UNCHANGED early

LEMMA RefusedEffect ==
    ASSUME TypeOK, TypeOK', NEW p \in Peers, NEW t \in BagToSet(todo[p]),
           Refused(p, t)
    PROVE  RefusedDoes(p, t.arg)
<1>1. /\ UNCHANGED <<status, candidate, sock, online, dialing, target, key, reading, readers, links, connected, ids, partner, engine, asked, exchanges, requests, early>>
      /\ ui' = [ui EXCEPT ![p] = "idle"]
  BY DEF Refused, driverVars, threadVars, stateVars, windowVars, bounds
<1>2. /\ Swaps(p, "exchange", "request", t.arg, "reset", "unconnected")
      /\ Once(p) => ~Doing(p, "exchange", "request", t.arg)'
      /\ Once(p) => Once(p)'
      /\ t.arg \in Peers /\ t.arg # p
  <2>1. Head(t.steps) = "exchange"
    BY DEF Refused, At
  <2>2. Aim(t) = "request" /\ t.arg = t.arg /\ t.arg \in Peers /\ t.arg # p
    BY <2>1, JobDone DEF TypeOK, SelfOK, TasksOf, Kinds, Args
  <2>3. todo' = [todo EXCEPT ![p] = BagAdd(BagRemove(@, t), ConnectError)]
    BY DEF Refused
  <2>4. Alone("exchange", "request") /\ ~Alone("reset", "unconnected")
    BY DEF Alone
  <2>5. JobIs(ConnectError, "reset", "unconnected", Nobody)
    BY HandlerJobs
  <2> QED
    BY <2>1, <2>2, <2>3, <2>4, <2>5, JobSwaps DEF TypeOK, JobIs
<1>3. \A r \in Peers : r # p => Untouched(r) /\ SameKey(r)
  BY <1>1, <1>2 DEF TypeOK, ReadersOK, Untouched, SameKey, Swaps, Others, Reads
<1>6. /\ mishaps' = mishaps
  BY <1>1, <1>2, SessionAssumption DEF Refused, At, Noting, TypeOK
<1> QED
  BY <1>1, <1>2, <1>3, <1>6 DEF RefusedDoes, TypeOK, Reads

ConnectDoes(p, x) ==
    /\ Advances(p, "connect", "request", x, "recvMsg")
    /\ Once(p) => ~Doing(p, "connect", "request", x)'
    /\ Once(p) /\ ~Doing(p, "recvMsg", "request", x) => Once(p)'
    /\ x \in Peers /\ x # p
    /\ mishaps' = mishaps
    /\ \A r \in Peers : r # p => Untouched(r) /\ SameKey(r)
    /\ UNCHANGED <<status[p], target[p], reading[p], connected[p], ids[p], partner[p], engine[p], ui[p], asked[p], key[p], candidate[p], Reads(p)>>
    /\ dialing'[p] = FALSE
    /\ sock'[p] = Len(links) + 1
    /\ online'[p] = TRUE
    /\ links' = Append(links, NewLink(p, x))
    /\ UNCHANGED early

LEMMA ConnectEffect ==
    ASSUME TypeOK, TypeOK', NEW p \in Peers, NEW t \in BagToSet(todo[p]),
           Connect(p, t),
           target[p] # Nobody,
           sock[p] \notin DOMAIN links
    PROVE  ConnectDoes(p, t.arg)
<1>1. /\ UNCHANGED <<status, candidate, target, key, reading, readers, connected, ids, partner, engine, ui, asked, exchanges, requests, early>>
      /\ dialing' = [dialing EXCEPT ![p] = FALSE]
      /\ sock' = [sock EXCEPT ![p] = Len(links) + 1]
      /\ online' = [online EXCEPT ![p] = TRUE]
  BY DEF Connect, driverVars, threadVars, stateVars, windowVars, bounds
<1>2. /\ Advances(p, "connect", "request", t.arg, "recvMsg")
      /\ Once(p) => ~Doing(p, "connect", "request", t.arg)'
      /\ Once(p) /\ ~Doing(p, "recvMsg", "request", t.arg) => Once(p)'
      /\ t.arg \in Peers /\ t.arg # p
  <2>1. Head(t.steps) = "connect"
    BY DEF Connect, At
  <2>2. Aim(t) = "request" /\ t.arg = t.arg /\ t.arg \in Peers /\ t.arg # p
    BY <2>1, JobDone DEF TypeOK, SelfOK, TasksOf, Kinds, Args
  <2>3. todo' = After(p, t, {}) /\ StepAfter("connect", "request") = "recvMsg"
    BY DEF Connect, StepAfter
  <2>4. (Alone("connect", "request") <=> TRUE) /\ (Alone("recvMsg", "request") <=> TRUE)
    BY DEF Alone
  <2> QED
    BY <2>1, <2>2, <2>3, <2>4, JobAdvances DEF TypeOK
<1>3. \A r \in Peers : r # p => Untouched(r) /\ SameKey(r)
  BY <1>1, <1>2 DEF TypeOK, ReadersOK, Untouched, SameKey, Advances, Others, Reads
<1>4. links' = Append(links, NewLink(p, t.arg))
  BY DEF Connect, NewLink, Closed, IsLink
<1>6. /\ mishaps' = mishaps
  BY <1>1, <1>2, SessionAssumption DEF Connect, At, Noting, TypeOK
<1> QED
  BY <1>1, <1>2, <1>3, <1>4, <1>6 DEF ConnectDoes, TypeOK, Reads

UnconnectedDoes(p) ==
    /\ Finishes(p, "unconnected", Nobody)
    /\ Once(p) => Once(p)'
    /\ mishaps' = mishaps
    /\ \A r \in Peers : r # p => Untouched(r) /\ SameKey(r)
    /\ UNCHANGED <<status[p], sock[p], target[p], reading[p], connected[p], ids[p], partner[p], engine[p], ui[p], asked[p], key[p], candidate[p], Reads(p)>>
    /\ online'[p] = FALSE
    /\ dialing'[p] = FALSE
    /\ UNCHANGED links
    /\ UNCHANGED early

LEMMA UnconnectedEffect ==
    ASSUME TypeOK, TypeOK', NEW p \in Peers, NEW t \in BagToSet(todo[p]),
           Unconnected(p, t)
    PROVE  UnconnectedDoes(p)
<1>1. /\ UNCHANGED <<status, candidate, sock, target, key, reading, readers, links, connected, ids, partner, engine, ui, asked, exchanges, requests, early>>
      /\ online' = [online EXCEPT ![p] = FALSE]
      /\ dialing' = [dialing EXCEPT ![p] = FALSE]
  BY DEF Unconnected, driverVars, threadVars, stateVars, windowVars, bounds
<1>2. /\ Finishes(p, "unconnected", Nobody)
      /\ Once(p) => Once(p)'
  <2>1. Head(t.steps) = "unconnected"
    BY DEF Unconnected, At
  <2>2. Aim(t) = "unconnected" /\ t.arg = Nobody
    BY <2>1, JobDone DEF TypeOK, SelfOK, TasksOf, Kinds, Args
  <2>3. todo' = After(p, t, {})
    BY DEF Unconnected
  <2>4. Alone("unconnected", "unconnected") <=> FALSE
    BY DEF Alone
  <2> QED
    BY <2>1, <2>2, <2>3, <2>4, JobFinishes DEF TypeOK
<1>3. \A r \in Peers : r # p => Untouched(r) /\ SameKey(r)
  BY <1>1, <1>2 DEF TypeOK, ReadersOK, Untouched, SameKey, Finishes, Others, Reads
<1>6. /\ mishaps' = mishaps
  BY <1>1, <1>2, SessionAssumption DEF Unconnected, At, Noting, TypeOK
<1> QED
  BY <1>1, <1>2, <1>3, <1>6 DEF UnconnectedDoes, TypeOK, Reads

AcceptDoes(p, c) ==
    /\ Gets(p, "recvMsg", "established", c)
    /\ Once(p) /\ ~Doing(p, "recvMsg", "established", c) => Once(p)'
    /\ status[p] = "tls" /\ To(c) = p /\ ~Taken(c)
    /\ \A h, y : ~Doing(p, h, "established", y)
    /\ mishaps' = mishaps
    /\ \A r \in Peers : r # p => Untouched(r) /\ SameKey(r)
    /\ UNCHANGED <<status[p], dialing[p], target[p], reading[p], connected[p], ids[p], partner[p], engine[p], ui[p], asked[p], key[p], candidate[p], Reads(p)>>
    /\ sock'[p] = c
    /\ online'[p] = TRUE
    /\ DOMAIN links' = DOMAIN links
    /\ \A d \in DOMAIN links : Kept(d) /\ Unmoved(d) /\ Open(d)' = Open(d) /\ Taken(d)' = (Taken(d) \/ d = c)
    /\ UNCHANGED early

LEMMA AcceptEffect ==
    ASSUME TypeOK, TypeOK', NEW p \in Peers, NEW c \in DOMAIN links,
           Accept(p, c),
           From(c) = candidate[p]
    PROVE  AcceptDoes(p, c)
<1>1. /\ UNCHANGED <<status, candidate, dialing, target, key, reading, readers, connected, ids, partner, engine, ui, asked, exchanges, requests, early>>
      /\ sock' = [sock EXCEPT ![p] = c]
      /\ online' = [online EXCEPT ![p] = TRUE]
  BY DEF Accept, From, To, Taken, driverVars, threadVars, stateVars, windowVars, bounds
<1>2. /\ Gets(p, "recvMsg", "established", c)
      /\ Once(p) /\ ~Doing(p, "recvMsg", "established", c) => Once(p)'
  <2>1. Publish(p, {Accepted(c)})
    BY DEF Accept, From
  <2>2. JobIs(Accepted(c), "recvMsg", "established", c)
    BY LinkIs, HandlerJobs DEF TypeOK
  <2>3. Alone("recvMsg", "established") <=> TRUE
    BY DEF Alone
  <2> QED
    BY <2>1, <2>2, <2>3, JobGets DEF TypeOK, JobIs
<1>3. \A r \in Peers : r # p => Untouched(r) /\ SameKey(r)
  BY <1>1, <1>2 DEF TypeOK, ReadersOK, Untouched, SameKey, Gets, Others, Reads
<1>4. /\ DOMAIN links' = DOMAIN links
      /\ \A d \in DOMAIN links : Kept(d) /\ Unmoved(d) /\ Open(d)' = Open(d) /\ Taken(d)' = (Taken(d) \/ d = c)
  <2>1. LinksOK /\ links' = [links EXCEPT ![c].taken = TRUE]
    BY DEF TypeOK, Accept, From
  <2> QED
    BY <2>1, LinkIsTaken
<1>6. /\ status[p] = "tls" /\ To(c) = p /\ ~Taken(c)
      /\ \A h, y : ~Doing(p, h, "established", y)
      /\ mishaps' = mishaps
  <2>1. status[p] = "tls" /\ To(c) = p /\ ~Taken(c) /\ mishaps' = mishaps
    BY DEF Accept, To, Taken
  <2>2. \A t \in BagToSet(todo[p]) : Aim(t) # "established"
    BY DEF Accept, Aim
  <2> QED
    BY <2>1, <2>2 DEF Doing, Jobs, JobOf
<1> QED
  BY <1>1, <1>2, <1>3, <1>4, <1>6 DEF AcceptDoes, TypeOK, Reads

EstablishDoes(p, x) ==
    /\ Finishes(p, "established", x)
    /\ Once(p) => ~Doing(p, "established", "established", x)'
    /\ Once(p) => Once(p)'
    /\ x \in Nat
    /\ mishaps' = mishaps
    /\ \A r \in Peers : r # p => Untouched(r) /\ SameKey(r)
    /\ UNCHANGED <<sock[p], online[p], dialing[p], target[p], reading[p], connected[p], ids[p], partner[p], engine[p], ui[p], asked[p], key[p], candidate[p], Reads(p)>>
    /\ status'[p] = "tcp"
    /\ UNCHANGED links
    /\ UNCHANGED early

LEMMA EstablishEffect ==
    ASSUME TypeOK, TypeOK', NEW p \in Peers, NEW t \in BagToSet(todo[p]),
           Establish(p, t)
    PROVE  EstablishDoes(p, t.arg)
<1>1. /\ UNCHANGED <<candidate, sock, online, dialing, target, key, reading, readers, links, connected, ids, partner, engine, ui, asked, exchanges, requests, early>>
      /\ status' = [status EXCEPT ![p] = "tcp"]
  BY DEF Establish, driverVars, threadVars, stateVars, windowVars, bounds
<1>2. /\ Finishes(p, "established", t.arg)
      /\ Once(p) => ~Doing(p, "established", "established", t.arg)'
      /\ Once(p) => Once(p)'
      /\ t.arg \in Nat
  <2>1. Head(t.steps) = "established"
    BY DEF Establish, At
  <2>2. Aim(t) = "established" /\ t.arg = t.arg /\ t.arg \in Nat
    BY <2>1, JobDone DEF TypeOK, SelfOK, TasksOf, Kinds, Args
  <2>3. todo' = After(p, t, {})
    BY DEF Establish
  <2>4. Alone("established", "established") <=> TRUE
    BY DEF Alone
  <2> QED
    BY <2>1, <2>2, <2>3, <2>4, JobFinishes DEF TypeOK
<1>3. \A r \in Peers : r # p => Untouched(r) /\ SameKey(r)
  BY <1>1, <1>2 DEF TypeOK, ReadersOK, Untouched, SameKey, Finishes, Others, Reads
<1>6. /\ mishaps' = mishaps
  BY <1>1, <1>2, SessionAssumption DEF Establish, At, Noting, TypeOK
<1> QED
  BY <1>1, <1>2, <1>3, <1>6 DEF EstablishDoes, TypeOK, Reads

RecvMsgRequestDoes(p, x) ==
    /\ Advances(p, "recvMsg", "request", x, "request")
    /\ Once(p) => ~Doing(p, "recvMsg", "request", x)'
    /\ Once(p) /\ ~Doing(p, "request", "request", x) => Once(p)'
    /\ x \in Peers /\ x # p
    /\ mishaps' = mishaps
    /\ \A r \in Peers : r # p => Untouched(r) /\ SameKey(r)
    /\ UNCHANGED <<status[p], sock[p], online[p], dialing[p], target[p], connected[p], ids[p], partner[p], engine[p], ui[p], asked[p], key[p], candidate[p]>>
    /\ reading'[p] = TRUE
    /\ Reads(p)' = Reads(p) \cup {sock[p]}
    /\ UNCHANGED links
    /\ UNCHANGED early

LEMMA RecvMsgRequestEffect ==
    ASSUME TypeOK, TypeOK', NEW p \in Peers, NEW t \in BagToSet(todo[p]),
           RecvMsg(p, t),
           online[p],
           Aim(t) = "request"
    PROVE  RecvMsgRequestDoes(p, t.arg)
<1>1. /\ UNCHANGED <<status, candidate, sock, online, dialing, target, key, links, connected, ids, partner, engine, ui, asked, exchanges, requests, early>>
      /\ reading' = [reading EXCEPT ![p] = TRUE]
      /\ readers' = [readers EXCEPT ![p] = BagAdd(@, sock[p])]
  BY DEF RecvMsg, driverVars, threadVars, stateVars, windowVars, bounds
<1>2. /\ Advances(p, "recvMsg", "request", t.arg, "request")
      /\ Once(p) => ~Doing(p, "recvMsg", "request", t.arg)'
      /\ Once(p) /\ ~Doing(p, "request", "request", t.arg) => Once(p)'
      /\ t.arg \in Peers /\ t.arg # p
  <2>1. Head(t.steps) = "recvMsg"
    BY DEF RecvMsg, At
  <2>2. Aim(t) = "request" /\ t.arg = t.arg /\ t.arg \in Peers /\ t.arg # p
    BY <2>1, JobDone DEF TypeOK, SelfOK, TasksOf, Kinds, Args
  <2>3. todo' = After(p, t, {}) /\ StepAfter("recvMsg", "request") = "request"
    BY DEF RecvMsg, StepAfter
  <2>4. (Alone("recvMsg", "request") <=> TRUE) /\ (Alone("request", "request") <=> TRUE)
    BY DEF Alone
  <2> QED
    BY <2>1, <2>2, <2>3, <2>4, JobAdvances DEF TypeOK
<1>3. \A r \in Peers : r # p => Untouched(r) /\ SameKey(r)
  BY <1>1, <1>2 DEF TypeOK, ReadersOK, Untouched, SameKey, Advances, Others, Reads
<1>5. Reads(p)' = Reads(p) \cup {sock[p]}
  <2>1. readers' = [readers EXCEPT ![p] = BagAdd(@, sock[p])] /\ p \in DOMAIN readers /\ BagOK(readers[p])
    BY DEF RecvMsg, TypeOK, ReadersOK
  <2> QED
    BY <2>1, BagAddIs DEF Reads, BagToSet
<1>6. /\ mishaps' = mishaps
  BY <1>1, <1>2, SessionAssumption DEF RecvMsg, At, Noting, TypeOK
<1> QED
  BY <1>1, <1>2, <1>3, <1>5, <1>6 DEF RecvMsgRequestDoes, TypeOK, Reads

RecvMsgAcceptedDoes(p, x) ==
    /\ Advances(p, "recvMsg", "established", x, "established")
    /\ Once(p) => ~Doing(p, "recvMsg", "established", x)'
    /\ Once(p) /\ ~Doing(p, "established", "established", x) => Once(p)'
    /\ x \in Nat
    /\ mishaps' = mishaps
    /\ \A r \in Peers : r # p => Untouched(r) /\ SameKey(r)
    /\ UNCHANGED <<status[p], sock[p], online[p], dialing[p], target[p], connected[p], ids[p], partner[p], engine[p], ui[p], asked[p], key[p], candidate[p]>>
    /\ reading'[p] = TRUE
    /\ Reads(p)' = Reads(p) \cup {sock[p]}
    /\ UNCHANGED links
    /\ UNCHANGED early

LEMMA RecvMsgAcceptedEffect ==
    ASSUME TypeOK, TypeOK', NEW p \in Peers, NEW t \in BagToSet(todo[p]),
           RecvMsg(p, t),
           online[p],
           Aim(t) = "established"
    PROVE  RecvMsgAcceptedDoes(p, t.arg)
<1>1. /\ UNCHANGED <<status, candidate, sock, online, dialing, target, key, links, connected, ids, partner, engine, ui, asked, exchanges, requests, early>>
      /\ reading' = [reading EXCEPT ![p] = TRUE]
      /\ readers' = [readers EXCEPT ![p] = BagAdd(@, sock[p])]
  BY DEF RecvMsg, driverVars, threadVars, stateVars, windowVars, bounds
<1>2. /\ Advances(p, "recvMsg", "established", t.arg, "established")
      /\ Once(p) => ~Doing(p, "recvMsg", "established", t.arg)'
      /\ Once(p) /\ ~Doing(p, "established", "established", t.arg) => Once(p)'
      /\ t.arg \in Nat
  <2>1. Head(t.steps) = "recvMsg"
    BY DEF RecvMsg, At
  <2>2. Aim(t) = "established" /\ t.arg = t.arg /\ t.arg \in Nat
    BY <2>1, JobDone DEF TypeOK, SelfOK, TasksOf, Kinds, Args
  <2>3. todo' = After(p, t, {}) /\ StepAfter("recvMsg", "established") = "established"
    BY DEF RecvMsg, StepAfter
  <2>4. (Alone("recvMsg", "established") <=> TRUE) /\ (Alone("established", "established") <=> TRUE)
    BY DEF Alone
  <2> QED
    BY <2>1, <2>2, <2>3, <2>4, JobAdvances DEF TypeOK
<1>3. \A r \in Peers : r # p => Untouched(r) /\ SameKey(r)
  BY <1>1, <1>2 DEF TypeOK, ReadersOK, Untouched, SameKey, Advances, Others, Reads
<1>5. Reads(p)' = Reads(p) \cup {sock[p]}
  <2>1. readers' = [readers EXCEPT ![p] = BagAdd(@, sock[p])] /\ p \in DOMAIN readers /\ BagOK(readers[p])
    BY DEF RecvMsg, TypeOK, ReadersOK
  <2> QED
    BY <2>1, BagAddIs DEF Reads, BagToSet
<1>6. /\ mishaps' = mishaps
  BY <1>1, <1>2, SessionAssumption DEF RecvMsg, At, Noting, TypeOK
<1> QED
  BY <1>1, <1>2, <1>3, <1>5, <1>6 DEF RecvMsgAcceptedDoes, TypeOK, Reads

ResetCloseDoes(p) ==
    /\ Advances(p, "reset", "close", Nobody, "close")
    /\ Once(p) => Once(p)'
    /\ mishaps \subseteq mishaps'
    /\ mishaps' = {} => ~Beginning(p)
    /\ \A r \in Peers : r # p => Untouched(r) /\ SameKey(r)
    /\ UNCHANGED <<online[p], connected[p], ids[p], partner[p], engine[p], ui[p], asked[p], key[p], Reads(p)>>
    /\ sock'[p] = Nobody
    /\ reading'[p] = FALSE
    /\ candidate'[p] = Nobody
    /\ target'[p] = Nobody
    /\ status'[p] = "waiting"
    /\ DOMAIN links' = DOMAIN links
    /\ \A d \in DOMAIN links : Kept(d) /\ Unmoved(d) /\ Taken(d)' = Taken(d)
    /\ \A d \in DOMAIN links : Open(d)' = IF d = sock[p] THEN Open(d) \ {p} ELSE Open(d)
    /\ UNCHANGED early

LEMMA ResetCloseEffect ==
    ASSUME TypeOK, TypeOK', NEW p \in Peers, NEW t \in BagToSet(todo[p]),
           Reset(p, t),
           Aim(t) = "close",
           Uses(p) => online[p]
    PROVE  ResetCloseDoes(p)
<1>1. /\ UNCHANGED <<online, key, readers, connected, ids, partner, engine, ui, asked, exchanges, requests, early>>
      /\ sock' = [sock EXCEPT ![p] = Nobody]
      /\ dialing' = [dialing EXCEPT ![p] = @ /\ ~online[p]]
      /\ reading' = [reading EXCEPT ![p] = FALSE]
      /\ candidate' = [candidate EXCEPT ![p] = Nobody]
      /\ target' = [target EXCEPT ![p] = Nobody]
      /\ status' = [status EXCEPT ![p] = "waiting"]
  BY DEF Reset, driverVars, threadVars, stateVars, windowVars, bounds
<1>2. /\ Advances(p, "reset", "close", Nobody, "close")
      /\ Once(p) => Once(p)'
  <2>1. Head(t.steps) = "reset"
    BY DEF Reset, At
  <2>2. Aim(t) = "close" /\ t.arg = Nobody
    BY <2>1, JobDone DEF TypeOK, SelfOK, TasksOf, Kinds, Args
  <2>3. todo' = After(p, t, {}) /\ StepAfter("reset", "close") = "close"
    BY DEF Reset, StepAfter
  <2>4. (Alone("reset", "close") <=> FALSE) /\ (Alone("close", "close") <=> FALSE)
    BY DEF Alone
  <2> QED
    BY <2>1, <2>2, <2>3, <2>4, JobAdvances DEF TypeOK
<1>3. \A r \in Peers : r # p => Untouched(r) /\ SameKey(r)
  BY <1>1, <1>2 DEF TypeOK, ReadersOK, Untouched, SameKey, Advances, Others, Reads
<1>4. /\ DOMAIN links' = DOMAIN links
      /\ \A d \in DOMAIN links : Kept(d) /\ Unmoved(d) /\ Taken(d)' = Taken(d)
      /\ \A d \in DOMAIN links : Open(d)' = IF d = sock[p] THEN Open(d) \ {p} ELSE Open(d)
  <2>1. LinksOK /\ links' = Closed(sock[p], p)
    BY DEF TypeOK, Reset, Uses, Closed, IsLink
  <2> QED
    BY <2>1, LinkClosed
<1>6. /\ mishaps \subseteq mishaps'
      /\ mishaps' = {} => ~Beginning(p)
  BY <1>1, <1>2, SessionAssumption DEF Reset, At, Noting, TypeOK
<1> QED
  BY <1>1, <1>2, <1>3, <1>4, <1>6 DEF ResetCloseDoes, TypeOK, Reads

ResetUnconnectedDoes(p) ==
    /\ Advances(p, "reset", "unconnected", Nobody, "lost")
    /\ Once(p) => Once(p)'
    /\ mishaps \subseteq mishaps'
    /\ mishaps' = {} => ~Beginning(p)
    /\ \A r \in Peers : r # p => Untouched(r) /\ SameKey(r)
    /\ UNCHANGED <<online[p], connected[p], ids[p], partner[p], engine[p], ui[p], asked[p], key[p], Reads(p)>>
    /\ sock'[p] = Nobody
    /\ reading'[p] = FALSE
    /\ candidate'[p] = Nobody
    /\ target'[p] = Nobody
    /\ status'[p] = "waiting"
    /\ DOMAIN links' = DOMAIN links
    /\ \A d \in DOMAIN links : Kept(d) /\ Unmoved(d) /\ Taken(d)' = Taken(d)
    /\ \A d \in DOMAIN links : Open(d)' = IF d = sock[p] THEN Open(d) \ {p} ELSE Open(d)
    /\ UNCHANGED early

LEMMA ResetUnconnectedEffect ==
    ASSUME TypeOK, TypeOK', NEW p \in Peers, NEW t \in BagToSet(todo[p]),
           Reset(p, t),
           Aim(t) = "unconnected",
           Uses(p) => online[p]
    PROVE  ResetUnconnectedDoes(p)
<1>1. /\ UNCHANGED <<online, key, readers, connected, ids, partner, engine, ui, asked, exchanges, requests, early>>
      /\ sock' = [sock EXCEPT ![p] = Nobody]
      /\ dialing' = [dialing EXCEPT ![p] = @ /\ ~online[p]]
      /\ reading' = [reading EXCEPT ![p] = FALSE]
      /\ candidate' = [candidate EXCEPT ![p] = Nobody]
      /\ target' = [target EXCEPT ![p] = Nobody]
      /\ status' = [status EXCEPT ![p] = "waiting"]
  BY DEF Reset, driverVars, threadVars, stateVars, windowVars, bounds
<1>2. /\ Advances(p, "reset", "unconnected", Nobody, "lost")
      /\ Once(p) => Once(p)'
  <2>1. Head(t.steps) = "reset"
    BY DEF Reset, At
  <2>2. Aim(t) = "unconnected" /\ t.arg = Nobody
    BY <2>1, JobDone DEF TypeOK, SelfOK, TasksOf, Kinds, Args
  <2>3. todo' = After(p, t, {}) /\ StepAfter("reset", "unconnected") = "lost"
    BY DEF Reset, StepAfter
  <2>4. (Alone("reset", "unconnected") <=> FALSE) /\ (Alone("lost", "unconnected") <=> FALSE)
    BY DEF Alone
  <2> QED
    BY <2>1, <2>2, <2>3, <2>4, JobAdvances DEF TypeOK
<1>3. \A r \in Peers : r # p => Untouched(r) /\ SameKey(r)
  BY <1>1, <1>2 DEF TypeOK, ReadersOK, Untouched, SameKey, Advances, Others, Reads
<1>4. /\ DOMAIN links' = DOMAIN links
      /\ \A d \in DOMAIN links : Kept(d) /\ Unmoved(d) /\ Taken(d)' = Taken(d)
      /\ \A d \in DOMAIN links : Open(d)' = IF d = sock[p] THEN Open(d) \ {p} ELSE Open(d)
  <2>1. LinksOK /\ links' = Closed(sock[p], p)
    BY DEF TypeOK, Reset, Uses, Closed, IsLink
  <2> QED
    BY <2>1, LinkClosed
<1>6. /\ mishaps \subseteq mishaps'
      /\ mishaps' = {} => ~Beginning(p)
  BY <1>1, <1>2, SessionAssumption DEF Reset, At, Noting, TypeOK
<1> QED
  BY <1>1, <1>2, <1>3, <1>4, <1>6 DEF ResetUnconnectedDoes, TypeOK, Reads

ResetAgainDoes(p) ==
    /\ Advances(p, "reset", "again", Nobody, "lost")
    /\ Once(p) => Once(p)'
    /\ mishaps \subseteq mishaps'
    /\ mishaps' = {} => ~Beginning(p)
    /\ \A r \in Peers : r # p => Untouched(r) /\ SameKey(r)
    /\ UNCHANGED <<online[p], connected[p], ids[p], partner[p], engine[p], ui[p], asked[p], key[p], Reads(p)>>
    /\ sock'[p] = Nobody
    /\ reading'[p] = FALSE
    /\ candidate'[p] = Nobody
    /\ target'[p] = Nobody
    /\ status'[p] = "waiting"
    /\ DOMAIN links' = DOMAIN links
    /\ \A d \in DOMAIN links : Kept(d) /\ Unmoved(d) /\ Taken(d)' = Taken(d)
    /\ \A d \in DOMAIN links : Open(d)' = IF d = sock[p] THEN Open(d) \ {p} ELSE Open(d)
    /\ UNCHANGED early

LEMMA ResetAgainEffect ==
    ASSUME TypeOK, TypeOK', NEW p \in Peers, NEW t \in BagToSet(todo[p]),
           Reset(p, t),
           Aim(t) = "again",
           Uses(p) => online[p]
    PROVE  ResetAgainDoes(p)
<1>1. /\ UNCHANGED <<online, key, readers, connected, ids, partner, engine, ui, asked, exchanges, requests, early>>
      /\ sock' = [sock EXCEPT ![p] = Nobody]
      /\ dialing' = [dialing EXCEPT ![p] = @ /\ ~online[p]]
      /\ reading' = [reading EXCEPT ![p] = FALSE]
      /\ candidate' = [candidate EXCEPT ![p] = Nobody]
      /\ target' = [target EXCEPT ![p] = Nobody]
      /\ status' = [status EXCEPT ![p] = "waiting"]
  BY DEF Reset, driverVars, threadVars, stateVars, windowVars, bounds
<1>2. /\ Advances(p, "reset", "again", Nobody, "lost")
      /\ Once(p) => Once(p)'
  <2>1. Head(t.steps) = "reset"
    BY DEF Reset, At
  <2>2. Aim(t) = "again" /\ t.arg = Nobody
    BY <2>1, JobDone DEF TypeOK, SelfOK, TasksOf, Kinds, Args
  <2>3. todo' = After(p, t, {}) /\ StepAfter("reset", "again") = "lost"
    BY DEF Reset, StepAfter
  <2>4. (Alone("reset", "again") <=> FALSE) /\ (Alone("lost", "again") <=> FALSE)
    BY DEF Alone
  <2> QED
    BY <2>1, <2>2, <2>3, <2>4, JobAdvances DEF TypeOK
<1>3. \A r \in Peers : r # p => Untouched(r) /\ SameKey(r)
  BY <1>1, <1>2 DEF TypeOK, ReadersOK, Untouched, SameKey, Advances, Others, Reads
<1>4. /\ DOMAIN links' = DOMAIN links
      /\ \A d \in DOMAIN links : Kept(d) /\ Unmoved(d) /\ Taken(d)' = Taken(d)
      /\ \A d \in DOMAIN links : Open(d)' = IF d = sock[p] THEN Open(d) \ {p} ELSE Open(d)
  <2>1. LinksOK /\ links' = Closed(sock[p], p)
    BY DEF TypeOK, Reset, Uses, Closed, IsLink
  <2> QED
    BY <2>1, LinkClosed
<1>6. /\ mishaps \subseteq mishaps'
      /\ mishaps' = {} => ~Beginning(p)
  BY <1>1, <1>2, SessionAssumption DEF Reset, At, Noting, TypeOK
<1> QED
  BY <1>1, <1>2, <1>3, <1>4, <1>6 DEF ResetAgainDoes, TypeOK, Reads

ResetStatusOffDoes(p) ==
    /\ Advances(p, "reset", "statusOff", Nobody, "statusOff")
    /\ Once(p) => Once(p)'
    /\ mishaps \subseteq mishaps'
    /\ mishaps' = {} => ~Beginning(p)
    /\ \A r \in Peers : r # p => Untouched(r) /\ SameKey(r)
    /\ UNCHANGED <<online[p], connected[p], ids[p], partner[p], engine[p], ui[p], asked[p], key[p], Reads(p)>>
    /\ sock'[p] = Nobody
    /\ reading'[p] = FALSE
    /\ candidate'[p] = Nobody
    /\ target'[p] = Nobody
    /\ status'[p] = "waiting"
    /\ DOMAIN links' = DOMAIN links
    /\ \A d \in DOMAIN links : Kept(d) /\ Unmoved(d) /\ Taken(d)' = Taken(d)
    /\ \A d \in DOMAIN links : Open(d)' = IF d = sock[p] THEN Open(d) \ {p} ELSE Open(d)
    /\ UNCHANGED early

LEMMA ResetStatusOffEffect ==
    ASSUME TypeOK, TypeOK', NEW p \in Peers, NEW t \in BagToSet(todo[p]),
           Reset(p, t),
           Aim(t) = "statusOff",
           Uses(p) => online[p]
    PROVE  ResetStatusOffDoes(p)
<1>1. /\ UNCHANGED <<online, key, readers, connected, ids, partner, engine, ui, asked, exchanges, requests, early>>
      /\ sock' = [sock EXCEPT ![p] = Nobody]
      /\ dialing' = [dialing EXCEPT ![p] = @ /\ ~online[p]]
      /\ reading' = [reading EXCEPT ![p] = FALSE]
      /\ candidate' = [candidate EXCEPT ![p] = Nobody]
      /\ target' = [target EXCEPT ![p] = Nobody]
      /\ status' = [status EXCEPT ![p] = "waiting"]
  BY DEF Reset, driverVars, threadVars, stateVars, windowVars, bounds
<1>2. /\ Advances(p, "reset", "statusOff", Nobody, "statusOff")
      /\ Once(p) => Once(p)'
  <2>1. Head(t.steps) = "reset"
    BY DEF Reset, At
  <2>2. Aim(t) = "statusOff" /\ t.arg = Nobody
    BY <2>1, JobDone DEF TypeOK, SelfOK, TasksOf, Kinds, Args
  <2>3. todo' = After(p, t, {}) /\ StepAfter("reset", "statusOff") = "statusOff"
    BY DEF Reset, StepAfter
  <2>4. (Alone("reset", "statusOff") <=> FALSE) /\ (Alone("statusOff", "statusOff") <=> FALSE)
    BY DEF Alone
  <2> QED
    BY <2>1, <2>2, <2>3, <2>4, JobAdvances DEF TypeOK
<1>3. \A r \in Peers : r # p => Untouched(r) /\ SameKey(r)
  BY <1>1, <1>2 DEF TypeOK, ReadersOK, Untouched, SameKey, Advances, Others, Reads
<1>4. /\ DOMAIN links' = DOMAIN links
      /\ \A d \in DOMAIN links : Kept(d) /\ Unmoved(d) /\ Taken(d)' = Taken(d)
      /\ \A d \in DOMAIN links : Open(d)' = IF d = sock[p] THEN Open(d) \ {p} ELSE Open(d)
  <2>1. LinksOK /\ links' = Closed(sock[p], p)
    BY DEF TypeOK, Reset, Uses, Closed, IsLink
  <2> QED
    BY <2>1, LinkClosed
<1>6. /\ mishaps \subseteq mishaps'
      /\ mishaps' = {} => ~Beginning(p)
  BY <1>1, <1>2, SessionAssumption DEF Reset, At, Noting, TypeOK
<1> QED
  BY <1>1, <1>2, <1>3, <1>4, <1>6 DEF ResetStatusOffDoes, TypeOK, Reads

ResetResetDoes(p) ==
    /\ Finishes(p, "reset", Nobody)
    /\ Once(p) => Once(p)'
    /\ mishaps \subseteq mishaps'
    /\ mishaps' = {} => ~Beginning(p) /\ ~connected[p]
    /\ \A r \in Peers : r # p => Untouched(r) /\ SameKey(r)
    /\ UNCHANGED <<online[p], connected[p], ids[p], partner[p], engine[p], ui[p], asked[p], key[p], Reads(p)>>
    /\ sock'[p] = Nobody
    /\ reading'[p] = FALSE
    /\ candidate'[p] = Nobody
    /\ target'[p] = Nobody
    /\ status'[p] = "waiting"
    /\ DOMAIN links' = DOMAIN links
    /\ \A d \in DOMAIN links : Kept(d) /\ Unmoved(d) /\ Taken(d)' = Taken(d)
    /\ \A d \in DOMAIN links : Open(d)' = IF d = sock[p] THEN Open(d) \ {p} ELSE Open(d)
    /\ UNCHANGED early

LEMMA ResetResetEffect ==
    ASSUME TypeOK, TypeOK', NEW p \in Peers, NEW t \in BagToSet(todo[p]),
           Reset(p, t),
           Aim(t) = "reset",
           Uses(p) => online[p]
    PROVE  ResetResetDoes(p)
<1>1. /\ UNCHANGED <<online, key, readers, connected, ids, partner, engine, ui, asked, exchanges, requests, early>>
      /\ sock' = [sock EXCEPT ![p] = Nobody]
      /\ dialing' = [dialing EXCEPT ![p] = @ /\ ~online[p]]
      /\ reading' = [reading EXCEPT ![p] = FALSE]
      /\ candidate' = [candidate EXCEPT ![p] = Nobody]
      /\ target' = [target EXCEPT ![p] = Nobody]
      /\ status' = [status EXCEPT ![p] = "waiting"]
  BY DEF Reset, driverVars, threadVars, stateVars, windowVars, bounds
<1>2. /\ Finishes(p, "reset", Nobody)
      /\ Once(p) => Once(p)'
  <2>1. Head(t.steps) = "reset"
    BY DEF Reset, At
  <2>2. Aim(t) = "reset" /\ t.arg = Nobody
    BY <2>1, JobDone DEF TypeOK, SelfOK, TasksOf, Kinds, Args
  <2>3. todo' = After(p, t, {})
    BY DEF Reset
  <2>4. Alone("reset", "reset") <=> FALSE
    BY DEF Alone
  <2> QED
    BY <2>1, <2>2, <2>3, <2>4, JobFinishes DEF TypeOK
<1>3. \A r \in Peers : r # p => Untouched(r) /\ SameKey(r)
  BY <1>1, <1>2 DEF TypeOK, ReadersOK, Untouched, SameKey, Finishes, Others, Reads
<1>4. /\ DOMAIN links' = DOMAIN links
      /\ \A d \in DOMAIN links : Kept(d) /\ Unmoved(d) /\ Taken(d)' = Taken(d)
      /\ \A d \in DOMAIN links : Open(d)' = IF d = sock[p] THEN Open(d) \ {p} ELSE Open(d)
  <2>1. LinksOK /\ links' = Closed(sock[p], p)
    BY DEF TypeOK, Reset, Uses, Closed, IsLink
  <2> QED
    BY <2>1, LinkClosed
<1>6. /\ mishaps \subseteq mishaps'
      /\ mishaps' = {} => ~Beginning(p) /\ ~connected[p]
  <2>1. JobIs(CancelConnRequest, "reset", "reset", Nobody)
    BY HandlerJobs
  <2>2. t \in Tasks /\ Head(t.steps) = "reset" /\ Aim(t) = "reset"
    BY JobDone DEF Reset, At, TypeOK
  <2>3. t.arg = Nobody
    BY <2>2, JobDone DEF TypeOK, Args
  <2>4. t = CancelConnRequest
    BY <2>1, <2>2, <2>3, TaskOfJob DEF JobIs, JobOf
  <2> QED
    BY <2>4 DEF Reset
<1> QED
  BY <1>1, <1>2, <1>3, <1>4, <1>6 DEF ResetResetDoes, TypeOK, Reads

\* A message is put on a link.
LEMMA Sent ==
    ASSUME LinksOK, NEW c \in DOMAIN links, NEW x \in {From(c), To(c)}, NEW m \in Message,
           links' = [links EXCEPT ![c].in[x] = Append(@, m)]
    PROVE  /\ DOMAIN links' = DOMAIN links
           /\ \A d \in DOMAIN links : /\ Kept(d) /\ Open(d)' = Open(d) /\ Taken(d)' = Taken(d)
                                      /\ d # c => Unmoved(d)
           /\ In(c, x)' = Append(In(c, x), m)
           /\ \A y \in {From(c), To(c)} : y # x => In(c, y)' = In(c, y)
<1>1. In(c, x) \in Seq(Message)
  BY LinkIs
<1> DEFINE s == Append(In(c, x), m)
<1>2. s \in Seq(Message)
  BY <1>1
<1>3. links' = [links EXCEPT ![c].in[x] = s]
  BY DEF In
<1> HIDE DEF s
<1> QED
  BY <1>2, <1>3, LinkCarries DEF s

Sends(p, type) ==
    /\ DOMAIN links' = DOMAIN links
    /\ \A d \in DOMAIN links : /\ Kept(d) /\ Open(d)' = Open(d) /\ Taken(d)' = Taken(d)
                               /\ d # sock[p] => Unmoved(d)
    /\ \A d \in DOMAIN links, x \in Peers :
          d = sock[p] /\ x = Other(d, p) =>
              IF online[p] /\ Open(d) = {p, x}
              THEN In(d, x)' = Append(In(d, x), [type |-> type, key |-> key[p]])
                   /\ In(d, p)' = In(d, p)
              ELSE Unmoved(d)

\* What is sent on the socket of p.
LEMMA SendsOn ==
    ASSUME TypeOK, NEW p \in Peers, NEW t, NEW type \in Types, Send(p, t, type)
    PROVE  Sends(p, type)
<1> DEFINE reaches == online[p] /\ IsLink(sock[p]) /\ Open(sock[p]) = {p, Other(sock[p], p)}
           m == [type |-> type, key |-> key[p]]
<1>1. LinksOK
  BY DEF TypeOK
<1>2. CASE ~reaches
  <2>1. UNCHANGED links
    BY <1>2 DEF Send, Open
  <2> QED
    BY <1>1, <1>2, <2>1, LinksStay DEF IsLink, Sends
<1>3. CASE reaches
  <2>1. PICK c \in DOMAIN links : c = sock[p]
    BY <1>3 DEF IsLink
  <2>2. Open(c) \subseteq {From(c), To(c)} /\ From(c) # To(c) /\ From(c) \in Peers /\ To(c) \in Peers
        /\ Open(c) = {p, Other(c, p)}
    BY <1>1, <1>3, <2>1, LinkIs
  <2>3. PICK x \in {From(c), To(c)} : x = Other(c, p)
    BY <2>2
  <2>4. links' = [links EXCEPT ![c].in[x] = Append(@, m)]
    BY <1>3, <2>1, <2>3 DEF Send, Open
  <2>5. PICK n \in Message : n = m
    BY DEF TypeOK, Message
  <2>6. p \in {From(c), To(c)} /\ p # x
    BY <2>2, <2>3 DEF Other, From, To
  <2>7. /\ DOMAIN links' = DOMAIN links
        /\ \A d \in DOMAIN links : /\ Kept(d) /\ Open(d)' = Open(d) /\ Taken(d)' = Taken(d)
                                   /\ d # c => Unmoved(d)
        /\ In(c, x)' = Append(In(c, x), n)
        /\ \A y \in {From(c), To(c)} : y # x => In(c, y)' = In(c, y)
    <3>1. links' = [links EXCEPT ![c].in[x] = Append(@, n)]
      BY <2>4, <2>5
    <3> HIDE DEF reaches, m
    <3> QED
      BY ONLY <1>1, <3>1, Sent
  <2>8. In(c, p)' = In(c, p)
    BY <2>6, <2>7
  <2>9. ASSUME NEW d \in DOMAIN links, NEW y \in Peers, d = sock[p], y = Other(d, p)
        PROVE  In(d, y)' = Append(In(d, y), m) /\ In(d, p)' = In(d, p)
    BY <2>1, <2>3, <2>5, <2>7, <2>8, <2>9
  <2> HIDE DEF m
  <2>10. \A d \in DOMAIN links, y \in Peers : d = sock[p] /\ y = Other(d, p) =>
            IF online[p] /\ Open(d) = {p, y} THEN In(d, y)' = Append(In(d, y), m) /\ In(d, p)' = In(d, p)
            ELSE Unmoved(d)
    BY <1>3, <2>9
  <2> QED
    BY <2>1, <2>7, <2>10 DEF m, Sends
<1> QED
  BY <1>2, <1>3

SendRequestDoes(p, x) ==
    /\ Finishes(p, "request", x)
    /\ Once(p) => ~Doing(p, "request", "request", x)'
    /\ Once(p) => Once(p)'
    /\ x \in Peers /\ x # p
    /\ mishaps \subseteq mishaps'
    /\ \A r \in Peers : r # p => Untouched(r) /\ SameKey(r)
    /\ UNCHANGED <<status[p], sock[p], online[p], dialing[p], target[p], reading[p], connected[p], ids[p], engine[p], ui[p], asked[p], key[p], candidate[p], Reads(p)>>
    /\ partner'[p] = x
    /\ Sends(p, "request")
    /\ UNCHANGED early

LEMMA SendRequestEffect ==
    ASSUME TypeOK, TypeOK', NEW p \in Peers, NEW t \in BagToSet(todo[p]),
           Send(p, t, "request")
    PROVE  SendRequestDoes(p, t.arg)
<1>1. /\ UNCHANGED <<status, candidate, sock, online, dialing, target, key, reading, readers, connected, ids, engine, ui, asked, exchanges, requests, early>>
      /\ partner' = [partner EXCEPT ![p] = t.arg]
  BY DEF Send, Open, Types, driverVars, threadVars, stateVars, windowVars, bounds
<1>2. /\ Finishes(p, "request", t.arg)
      /\ Once(p) => ~Doing(p, "request", "request", t.arg)'
      /\ Once(p) => Once(p)'
      /\ t.arg \in Peers /\ t.arg # p
  <2>1. Head(t.steps) = "request"
    BY DEF Send, Open, At
  <2>2. Aim(t) = "request" /\ t.arg = t.arg /\ t.arg \in Peers /\ t.arg # p
    BY <2>1, JobDone DEF TypeOK, SelfOK, TasksOf, Kinds, Args
  <2>3. todo' = After(p, t, {})
    BY DEF Send, Open
  <2>4. Alone("request", "request") <=> TRUE
    BY DEF Alone
  <2> QED
    BY <2>1, <2>2, <2>3, <2>4, JobFinishes DEF TypeOK
<1>3. \A r \in Peers : r # p => Untouched(r) /\ SameKey(r)
  BY <1>1, <1>2 DEF TypeOK, ReadersOK, Untouched, SameKey, Finishes, Others, Reads
<1>4. Sends(p, "request")
  BY SendsOn DEF Types
<1>6. /\ mishaps \subseteq mishaps'
  BY <1>1, <1>2, SessionAssumption DEF Send, Open, Types, At, Noting, TypeOK
<1> QED
  BY <1>1, <1>2, <1>3, <1>4, <1>6 DEF SendRequestDoes, TypeOK, Reads

SendAcceptDoes(p) ==
    /\ Advances(p, "accept", "statusOn", Nobody, "initHigh")
    /\ Once(p) => ~Doing(p, "accept", "statusOn", Nobody)'
    /\ Once(p) => Once(p)'
    /\ mishaps \subseteq mishaps'
    /\ mishaps' = {} => online[p] /\ IsLink(sock[p]) /\ Open(sock[p]) = {p, Other(sock[p], p)}
    /\ \A r \in Peers : r # p => Untouched(r) /\ SameKey(r)
    /\ UNCHANGED <<status[p], sock[p], online[p], dialing[p], target[p], reading[p], connected[p], ids[p], partner[p], engine[p], ui[p], asked[p], key[p], candidate[p], Reads(p)>>
    /\ Sends(p, "accept")
    /\ UNCHANGED early

LEMMA SendAcceptEffect ==
    ASSUME TypeOK, TypeOK', NEW p \in Peers, NEW t \in BagToSet(todo[p]),
           Send(p, t, "accept")
    PROVE  SendAcceptDoes(p)
<1>1. /\ UNCHANGED <<status, candidate, sock, online, dialing, target, key, reading, readers, connected, ids, partner, engine, ui, asked, exchanges, requests, early>>
  BY DEF Send, Open, Types, driverVars, threadVars, stateVars, windowVars, bounds
<1>2. /\ Advances(p, "accept", "statusOn", Nobody, "initHigh")
      /\ Once(p) => ~Doing(p, "accept", "statusOn", Nobody)'
      /\ Once(p) => Once(p)'
  <2>1. Head(t.steps) = "accept"
    BY DEF Send, Open, At
  <2>2. Aim(t) = "statusOn" /\ t.arg = Nobody
    BY <2>1, JobDone DEF TypeOK, SelfOK, TasksOf, Kinds, Args
  <2>3. todo' = After(p, t, {}) /\ StepAfter("accept", "statusOn") = "initHigh"
    BY DEF Send, Open, StepAfter
  <2>4. (Alone("accept", "statusOn") <=> TRUE) /\ (Alone("initHigh", "statusOn") <=> FALSE)
    BY DEF Alone
  <2> QED
    BY <2>1, <2>2, <2>3, <2>4, JobAdvances DEF TypeOK
<1>3. \A r \in Peers : r # p => Untouched(r) /\ SameKey(r)
  BY <1>1, <1>2 DEF TypeOK, ReadersOK, Untouched, SameKey, Advances, Others, Reads
<1>4. Sends(p, "accept")
  BY SendsOn DEF Types
<1>6. /\ mishaps \subseteq mishaps'
      /\ mishaps' = {} => online[p] /\ IsLink(sock[p]) /\ Open(sock[p]) = {p, Other(sock[p], p)}
  BY <1>1, <1>2, SessionAssumption DEF Send, Open, Types, At, Noting, TypeOK
<1> QED
  BY <1>1, <1>2, <1>3, <1>4, <1>6 DEF SendAcceptDoes, TypeOK, Reads

SendRejectDoes(p) ==
    /\ Advances(p, "reject", "statusOff", Nobody, "reset")
    /\ Once(p) => ~Doing(p, "reject", "statusOff", Nobody)'
    /\ Once(p) => Once(p)'
    /\ mishaps \subseteq mishaps'
    /\ \A r \in Peers : r # p => Untouched(r) /\ SameKey(r)
    /\ UNCHANGED <<status[p], sock[p], online[p], dialing[p], target[p], reading[p], connected[p], ids[p], partner[p], engine[p], ui[p], asked[p], key[p], candidate[p], Reads(p)>>
    /\ Sends(p, "reject")
    /\ UNCHANGED early

LEMMA SendRejectEffect ==
    ASSUME TypeOK, TypeOK', NEW p \in Peers, NEW t \in BagToSet(todo[p]),
           Send(p, t, "reject")
    PROVE  SendRejectDoes(p)
<1>1. /\ UNCHANGED <<status, candidate, sock, online, dialing, target, key, reading, readers, connected, ids, partner, engine, ui, asked, exchanges, requests, early>>
  BY DEF Send, Open, Types, driverVars, threadVars, stateVars, windowVars, bounds
<1>2. /\ Advances(p, "reject", "statusOff", Nobody, "reset")
      /\ Once(p) => ~Doing(p, "reject", "statusOff", Nobody)'
      /\ Once(p) => Once(p)'
  <2>1. Head(t.steps) = "reject"
    BY DEF Send, Open, At
  <2>2. Aim(t) = "statusOff" /\ t.arg = Nobody
    BY <2>1, JobDone DEF TypeOK, SelfOK, TasksOf, Kinds, Args
  <2>3. todo' = After(p, t, {}) /\ StepAfter("reject", "statusOff") = "reset"
    BY DEF Send, Open, StepAfter
  <2>4. (Alone("reject", "statusOff") <=> TRUE) /\ (Alone("reset", "statusOff") <=> FALSE)
    BY DEF Alone
  <2> QED
    BY <2>1, <2>2, <2>3, <2>4, JobAdvances DEF TypeOK
<1>3. \A r \in Peers : r # p => Untouched(r) /\ SameKey(r)
  BY <1>1, <1>2 DEF TypeOK, ReadersOK, Untouched, SameKey, Advances, Others, Reads
<1>4. Sends(p, "reject")
  BY SendsOn DEF Types
<1>6. /\ mishaps \subseteq mishaps'
  BY <1>1, <1>2, SessionAssumption DEF Send, Open, Types, At, Noting, TypeOK
<1> QED
  BY <1>1, <1>2, <1>3, <1>4, <1>6 DEF SendRejectDoes, TypeOK, Reads

SendCancelDoes(p) ==
    /\ Advances(p, "cancel", "reset", Nobody, "reset")
    /\ Once(p) => Once(p)'
    /\ mishaps \subseteq mishaps'
    /\ mishaps' = {} => ~Requesting(p)
    /\ \A r \in Peers : r # p => Untouched(r) /\ SameKey(r)
    /\ UNCHANGED <<status[p], sock[p], online[p], dialing[p], target[p], reading[p], connected[p], ids[p], partner[p], engine[p], ui[p], asked[p], key[p], candidate[p], Reads(p)>>
    /\ Sends(p, "cancel")
    /\ UNCHANGED early

LEMMA SendCancelEffect ==
    ASSUME TypeOK, TypeOK', NEW p \in Peers, NEW t \in BagToSet(todo[p]),
           Send(p, t, "cancel")
    PROVE  SendCancelDoes(p)
<1>1. /\ UNCHANGED <<status, candidate, sock, online, dialing, target, key, reading, readers, connected, ids, partner, engine, ui, asked, exchanges, requests, early>>
  BY DEF Send, Open, Types, driverVars, threadVars, stateVars, windowVars, bounds
<1>2. /\ Advances(p, "cancel", "reset", Nobody, "reset")
      /\ Once(p) => Once(p)'
  <2>1. Head(t.steps) = "cancel"
    BY DEF Send, Open, At
  <2>2. Aim(t) = "reset" /\ t.arg = Nobody
    BY <2>1, JobDone DEF TypeOK, SelfOK, TasksOf, Kinds, Args
  <2>3. todo' = After(p, t, {}) /\ StepAfter("cancel", "reset") = "reset"
    BY DEF Send, Open, StepAfter
  <2>4. (Alone("cancel", "reset") <=> FALSE) /\ (Alone("reset", "reset") <=> FALSE)
    BY DEF Alone
  <2> QED
    BY <2>1, <2>2, <2>3, <2>4, JobAdvances DEF TypeOK
<1>3. \A r \in Peers : r # p => Untouched(r) /\ SameKey(r)
  BY <1>1, <1>2 DEF TypeOK, ReadersOK, Untouched, SameKey, Advances, Others, Reads
<1>4. Sends(p, "cancel")
  BY SendsOn DEF Types
<1>6. /\ mishaps \subseteq mishaps'
      /\ mishaps' = {} => ~Requesting(p)
  BY <1>1, <1>2, SessionAssumption DEF Send, Open, Types, At, Noting, TypeOK
<1> QED
  BY <1>1, <1>2, <1>3, <1>4, <1>6 DEF SendCancelDoes, TypeOK, Reads

SendReadyDoes(p) ==
    /\ Finishes(p, "ready", Nobody)
    /\ Once(p) => Once(p)'
    /\ mishaps \subseteq mishaps'
    /\ \A r \in Peers : r # p => Untouched(r) /\ SameKey(r)
    /\ UNCHANGED <<status[p], sock[p], online[p], dialing[p], target[p], reading[p], connected[p], ids[p], partner[p], engine[p], ui[p], asked[p], key[p], candidate[p], Reads(p)>>
    /\ Sends(p, "ready")
    /\ UNCHANGED early

LEMMA SendReadyEffect ==
    ASSUME TypeOK, TypeOK', NEW p \in Peers, NEW t \in BagToSet(todo[p]),
           Send(p, t, "ready")
    PROVE  SendReadyDoes(p)
<1>1. /\ UNCHANGED <<status, candidate, sock, online, dialing, target, key, reading, readers, connected, ids, partner, engine, ui, asked, exchanges, requests, early>>
  BY DEF Send, Open, Types, driverVars, threadVars, stateVars, windowVars, bounds
<1>2. /\ Finishes(p, "ready", Nobody)
      /\ Once(p) => Once(p)'
  <2>1. Head(t.steps) = "ready"
    BY DEF Send, Open, At
  <2>2. Aim(t) = "ready" /\ t.arg = Nobody
    BY <2>1, JobDone DEF TypeOK, SelfOK, TasksOf, Kinds, Args
  <2>3. todo' = After(p, t, {})
    BY DEF Send, Open
  <2>4. Alone("ready", "ready") <=> FALSE
    BY DEF Alone
  <2> QED
    BY <2>1, <2>2, <2>3, <2>4, JobFinishes DEF TypeOK
<1>3. \A r \in Peers : r # p => Untouched(r) /\ SameKey(r)
  BY <1>1, <1>2 DEF TypeOK, ReadersOK, Untouched, SameKey, Finishes, Others, Reads
<1>4. Sends(p, "ready")
  BY SendsOn DEF Types
<1>6. /\ mishaps \subseteq mishaps'
  BY <1>1, <1>2, SessionAssumption DEF Send, Open, Types, At, Noting, TypeOK
<1> QED
  BY <1>1, <1>2, <1>3, <1>4, <1>6 DEF SendReadyDoes, TypeOK, Reads

\* What a receiving thread takes.
LEMMA ParseTakes ==
    ASSUME TypeOK, NEW p \in Peers, NEW c \in DOMAIN links, Parse(p, c)
    PROVE  /\ DOMAIN links' = DOMAIN links
           /\ \A d \in DOMAIN links : Kept(d) /\ Open(d)' = Open(d) /\ Taken(d)' = Taken(d) /\ (d # c => Unmoved(d))
           /\ c \in DOMAIN links /\ p \in {From(c), To(c)} /\ p \in Open(c) /\ Other(c, p) \in {From(c), To(c)} /\ Other(c, p) # p
           /\ In(c, p) # << >> /\ In(c, p)' = Tail(In(c, p)) /\ In(c, Other(c, p))' = In(c, Other(c, p))
<1>1. LinksOK /\ Open(c) \subseteq {From(c), To(c)} /\ p \in Open(c) /\ From(c) # To(c)
  BY DEF TypeOK, LinksOK, Parse, Open
<1>2. p \in {From(c), To(c)} /\ In(c, p) \in Seq(Message) /\ In(c, p) # << >>
  BY <1>1, LinkIs DEF Parse, In
<1>3. Tail(In(c, p)) \in Seq(Message)
  BY <1>2
<1>4. links' = [links EXCEPT ![c].in[p] = Tail(In(c, p))]
  BY DEF Parse, In
<1>5. Other(c, p) \in {From(c), To(c)} /\ Other(c, p) # p
  BY <1>1 DEF Other, From, To
<1>6. /\ DOMAIN links' = DOMAIN links
      /\ \A d \in DOMAIN links : /\ Kept(d) /\ Open(d)' = Open(d) /\ Taken(d)' = Taken(d)
                                 /\ d # c => Unmoved(d)
      /\ In(c, p)' = Tail(In(c, p))
      /\ \A x \in {From(c), To(c)} : x # p => In(c, x)' = In(c, x)
  BY <1>1, <1>2, <1>3, <1>4, LinkCarries
<1>7. links'[c].in[Other(c, p)] = links[c].in[Other(c, p)]
  BY <1>5, <1>6 DEF In
<1>8. In(c, Other(c, p))' = In(c, Other(c, p))
  <2>1. Other(c, p)' = Other(c, p)
    BY <1>6 DEF Other, Kept, From, To
  <2> QED
    BY <1>7, <2>1 DEF In
<1> QED
  BY <1>1, <1>2, <1>5, <1>6, <1>8

ParseRequestDoes(p, c) ==
    /\ (\A r \in Peers : Same(r) /\ (Once(r) => Once(r)'))
    /\ c \in Reads(p) /\ reading[p]
    /\ Head(In(c, p)).type = "request" /\ Head(In(c, p)).key = key[p]
    /\ mishaps' = mishaps
    /\ \A r \in Peers : r # p => Untouched(r) /\ SameKey(r)
    /\ UNCHANGED <<status[p], sock[p], online[p], dialing[p], target[p], reading[p], connected[p], ids[p], engine[p], ui[p], key[p], candidate[p], Reads(p)>>
    /\ asked'[p] = TRUE
    /\ partner'[p] = Other(c, p)
    /\ DOMAIN links' = DOMAIN links
    /\ \A d \in DOMAIN links : Kept(d) /\ Open(d)' = Open(d) /\ Taken(d)' = Taken(d) /\ (d # c => Unmoved(d))
    /\ c \in DOMAIN links /\ p \in {From(c), To(c)} /\ p \in Open(c) /\ Other(c, p) \in {From(c), To(c)} /\ Other(c, p) # p
    /\ In(c, p) # << >> /\ In(c, p)' = Tail(In(c, p)) /\ In(c, Other(c, p))' = In(c, Other(c, p))
    /\ UNCHANGED early

LEMMA ParseRequestEffect ==
    ASSUME TypeOK, TypeOK', NEW p \in Peers, NEW c \in DOMAIN links,
           Parse(p, c),
           Head(In(c, p)).type = "request",
           Head(In(c, p)).key = key[p]
    PROVE  ParseRequestDoes(p, c)
<1>1. /\ UNCHANGED <<status, candidate, sock, online, dialing, target, key, reading, readers, connected, ids, engine, ui, exchanges, requests, early>>
      /\ asked' = [asked EXCEPT ![p] = TRUE]
      /\ partner' = [partner EXCEPT ![p] = Other(c, p)]
  BY DEF Parse, Show, In, TypeOK, driverVars, threadVars, stateVars, windowVars, bounds
<1>2. \A r \in Peers : Same(r) /\ (Once(r) => Once(r)')
  <2>1. Publish(p, {})
    BY DEF Parse, Handlers, In
  <2> QED
    BY <2>1, NothingPublished DEF TypeOK
<1>3. \A r \in Peers : r # p => Untouched(r) /\ SameKey(r)
  BY <1>1, <1>2 DEF TypeOK, ReadersOK, Untouched, SameKey, Same, Others, Reads
<1>4. /\ DOMAIN links' = DOMAIN links
      /\ \A d \in DOMAIN links : Kept(d) /\ Open(d)' = Open(d) /\ Taken(d)' = Taken(d) /\ (d # c => Unmoved(d))
      /\ c \in DOMAIN links /\ p \in {From(c), To(c)} /\ p \in Open(c) /\ Other(c, p) \in {From(c), To(c)} /\ Other(c, p) # p
      /\ In(c, p) # << >> /\ In(c, p)' = Tail(In(c, p)) /\ In(c, Other(c, p))' = In(c, Other(c, p))
  BY ParseTakes
<1>6. /\ c \in Reads(p) /\ reading[p]
      /\ Head(In(c, p)).type = "request" /\ Head(In(c, p)).key = key[p]
      /\ mishaps' = mishaps
  BY DEF Parse, Reads
<1> QED
  BY <1>1, <1>2, <1>3, <1>4, <1>6 DEF ParseRequestDoes, TypeOK, Reads

ParseAcceptDoes(p, c) ==
    /\ Gets(p, "initLow", "statusOn", Nobody)
    /\ Once(p) => Once(p)'
    /\ c \in Reads(p) /\ reading[p]
    /\ Head(In(c, p)).type = "accept" /\ Head(In(c, p)).key = key[p]
    /\ mishaps' = mishaps
    /\ \A r \in Peers : r # p => Untouched(r) /\ SameKey(r)
    /\ UNCHANGED <<status[p], sock[p], online[p], dialing[p], target[p], reading[p], connected[p], ids[p], partner[p], engine[p], asked[p], key[p], candidate[p], Reads(p)>>
    /\ ui'[p] = "connected"
    /\ DOMAIN links' = DOMAIN links
    /\ \A d \in DOMAIN links : Kept(d) /\ Open(d)' = Open(d) /\ Taken(d)' = Taken(d) /\ (d # c => Unmoved(d))
    /\ c \in DOMAIN links /\ p \in {From(c), To(c)} /\ p \in Open(c) /\ Other(c, p) \in {From(c), To(c)} /\ Other(c, p) # p
    /\ In(c, p) # << >> /\ In(c, p)' = Tail(In(c, p)) /\ In(c, Other(c, p))' = In(c, Other(c, p))
    /\ UNCHANGED early

LEMMA ParseAcceptEffect ==
    ASSUME TypeOK, TypeOK', NEW p \in Peers, NEW c \in DOMAIN links,
           Parse(p, c),
           Head(In(c, p)).type = "accept",
           Head(In(c, p)).key = key[p]
    PROVE  ParseAcceptDoes(p, c)
<1>1. /\ UNCHANGED <<status, candidate, sock, online, dialing, target, key, reading, readers, connected, ids, partner, engine, asked, exchanges, requests, early>>
      /\ ui' = [ui EXCEPT ![p] = "connected"]
  BY DEF Parse, Show, In, TypeOK, driverVars, threadVars, stateVars, windowVars, bounds
<1>2. /\ Gets(p, "initLow", "statusOn", Nobody)
      /\ Once(p) => Once(p)'
  <2>1. Publish(p, {HaveAccept})
    BY DEF Parse, Handlers, In
  <2>2. JobIs(HaveAccept, "initLow", "statusOn", Nobody)
    BY HandlerJobs DEF TypeOK
  <2>3. Alone("initLow", "statusOn") <=> FALSE
    BY DEF Alone
  <2> QED
    BY <2>1, <2>2, <2>3, JobGets DEF TypeOK, JobIs
<1>3. \A r \in Peers : r # p => Untouched(r) /\ SameKey(r)
  BY <1>1, <1>2 DEF TypeOK, ReadersOK, Untouched, SameKey, Gets, Others, Reads
<1>4. /\ DOMAIN links' = DOMAIN links
      /\ \A d \in DOMAIN links : Kept(d) /\ Open(d)' = Open(d) /\ Taken(d)' = Taken(d) /\ (d # c => Unmoved(d))
      /\ c \in DOMAIN links /\ p \in {From(c), To(c)} /\ p \in Open(c) /\ Other(c, p) \in {From(c), To(c)} /\ Other(c, p) # p
      /\ In(c, p) # << >> /\ In(c, p)' = Tail(In(c, p)) /\ In(c, Other(c, p))' = In(c, Other(c, p))
  BY ParseTakes
<1>6. /\ c \in Reads(p) /\ reading[p]
      /\ Head(In(c, p)).type = "accept" /\ Head(In(c, p)).key = key[p]
      /\ mishaps' = mishaps
  BY DEF Parse, Reads
<1> QED
  BY <1>1, <1>2, <1>3, <1>4, <1>6 DEF ParseAcceptDoes, TypeOK, Reads

ParseRejectDoes(p, c) ==
    /\ Gets(p, "reset", "statusOff", Nobody)
    /\ Once(p) => Once(p)'
    /\ c \in Reads(p) /\ reading[p]
    /\ Head(In(c, p)).type = "reject" /\ Head(In(c, p)).key = key[p]
    /\ mishaps' = mishaps
    /\ \A r \in Peers : r # p => Untouched(r) /\ SameKey(r)
    /\ UNCHANGED <<status[p], sock[p], online[p], dialing[p], target[p], reading[p], connected[p], ids[p], partner[p], engine[p], asked[p], key[p], candidate[p], Reads(p)>>
    /\ ui'[p] = "idle"
    /\ DOMAIN links' = DOMAIN links
    /\ \A d \in DOMAIN links : Kept(d) /\ Open(d)' = Open(d) /\ Taken(d)' = Taken(d) /\ (d # c => Unmoved(d))
    /\ c \in DOMAIN links /\ p \in {From(c), To(c)} /\ p \in Open(c) /\ Other(c, p) \in {From(c), To(c)} /\ Other(c, p) # p
    /\ In(c, p) # << >> /\ In(c, p)' = Tail(In(c, p)) /\ In(c, Other(c, p))' = In(c, Other(c, p))
    /\ UNCHANGED early

LEMMA ParseRejectEffect ==
    ASSUME TypeOK, TypeOK', NEW p \in Peers, NEW c \in DOMAIN links,
           Parse(p, c),
           Head(In(c, p)).type = "reject",
           Head(In(c, p)).key = key[p]
    PROVE  ParseRejectDoes(p, c)
<1>1. /\ UNCHANGED <<status, candidate, sock, online, dialing, target, key, reading, readers, connected, ids, partner, engine, asked, exchanges, requests, early>>
      /\ ui' = [ui EXCEPT ![p] = "idle"]
  BY DEF Parse, Show, In, TypeOK, driverVars, threadVars, stateVars, windowVars, bounds
<1>2. /\ Gets(p, "reset", "statusOff", Nobody)
      /\ Once(p) => Once(p)'
  <2>1. Publish(p, {HaveReject})
    BY DEF Parse, Handlers, In
  <2>2. JobIs(HaveReject, "reset", "statusOff", Nobody)
    BY HandlerJobs DEF TypeOK
  <2>3. Alone("reset", "statusOff") <=> FALSE
    BY DEF Alone
  <2> QED
    BY <2>1, <2>2, <2>3, JobGets DEF TypeOK, JobIs
<1>3. \A r \in Peers : r # p => Untouched(r) /\ SameKey(r)
  BY <1>1, <1>2 DEF TypeOK, ReadersOK, Untouched, SameKey, Gets, Others, Reads
<1>4. /\ DOMAIN links' = DOMAIN links
      /\ \A d \in DOMAIN links : Kept(d) /\ Open(d)' = Open(d) /\ Taken(d)' = Taken(d) /\ (d # c => Unmoved(d))
      /\ c \in DOMAIN links /\ p \in {From(c), To(c)} /\ p \in Open(c) /\ Other(c, p) \in {From(c), To(c)} /\ Other(c, p) # p
      /\ In(c, p) # << >> /\ In(c, p)' = Tail(In(c, p)) /\ In(c, Other(c, p))' = In(c, Other(c, p))
  BY ParseTakes
<1>6. /\ c \in Reads(p) /\ reading[p]
      /\ Head(In(c, p)).type = "reject" /\ Head(In(c, p)).key = key[p]
      /\ mishaps' = mishaps
  BY DEF Parse, Reads
<1> QED
  BY <1>1, <1>2, <1>3, <1>4, <1>6 DEF ParseRejectDoes, TypeOK, Reads

ParseCancelDoes(p, c) ==
    /\ Gets(p, "reset", "reset", Nobody)
    /\ Once(p) => Once(p)'
    /\ c \in Reads(p) /\ reading[p]
    /\ Head(In(c, p)).type = "cancel" /\ Head(In(c, p)).key = key[p]
    /\ mishaps' = mishaps
    /\ \A r \in Peers : r # p => Untouched(r) /\ SameKey(r)
    /\ UNCHANGED <<status[p], sock[p], online[p], dialing[p], target[p], reading[p], connected[p], ids[p], partner[p], engine[p], ui[p], key[p], candidate[p], Reads(p)>>
    /\ asked'[p] = FALSE
    /\ DOMAIN links' = DOMAIN links
    /\ \A d \in DOMAIN links : Kept(d) /\ Open(d)' = Open(d) /\ Taken(d)' = Taken(d) /\ (d # c => Unmoved(d))
    /\ c \in DOMAIN links /\ p \in {From(c), To(c)} /\ p \in Open(c) /\ Other(c, p) \in {From(c), To(c)} /\ Other(c, p) # p
    /\ In(c, p) # << >> /\ In(c, p)' = Tail(In(c, p)) /\ In(c, Other(c, p))' = In(c, Other(c, p))
    /\ UNCHANGED early

LEMMA ParseCancelEffect ==
    ASSUME TypeOK, TypeOK', NEW p \in Peers, NEW c \in DOMAIN links,
           Parse(p, c),
           Head(In(c, p)).type = "cancel",
           Head(In(c, p)).key = key[p]
    PROVE  ParseCancelDoes(p, c)
<1>1. /\ UNCHANGED <<status, candidate, sock, online, dialing, target, key, reading, readers, connected, ids, partner, engine, ui, exchanges, requests, early>>
      /\ asked' = [asked EXCEPT ![p] = FALSE]
  BY DEF Parse, Show, In, TypeOK, driverVars, threadVars, stateVars, windowVars, bounds
<1>2. /\ Gets(p, "reset", "reset", Nobody)
      /\ Once(p) => Once(p)'
  <2>1. Publish(p, {CancelConnRequest})
    BY DEF Parse, Handlers, In
  <2>2. JobIs(CancelConnRequest, "reset", "reset", Nobody)
    BY HandlerJobs DEF TypeOK
  <2>3. Alone("reset", "reset") <=> FALSE
    BY DEF Alone
  <2> QED
    BY <2>1, <2>2, <2>3, JobGets DEF TypeOK, JobIs
<1>3. \A r \in Peers : r # p => Untouched(r) /\ SameKey(r)
  BY <1>1, <1>2 DEF TypeOK, ReadersOK, Untouched, SameKey, Gets, Others, Reads
<1>4. /\ DOMAIN links' = DOMAIN links
      /\ \A d \in DOMAIN links : Kept(d) /\ Open(d)' = Open(d) /\ Taken(d)' = Taken(d) /\ (d # c => Unmoved(d))
      /\ c \in DOMAIN links /\ p \in {From(c), To(c)} /\ p \in Open(c) /\ Other(c, p) \in {From(c), To(c)} /\ Other(c, p) # p
      /\ In(c, p) # << >> /\ In(c, p)' = Tail(In(c, p)) /\ In(c, Other(c, p))' = In(c, Other(c, p))
  BY ParseTakes
<1>6. /\ c \in Reads(p) /\ reading[p]
      /\ Head(In(c, p)).type = "cancel" /\ Head(In(c, p)).key = key[p]
      /\ mishaps' = mishaps
  BY DEF Parse, Reads
<1> QED
  BY <1>1, <1>2, <1>3, <1>4, <1>6 DEF ParseCancelDoes, TypeOK, Reads

ParseReadyDoes(p, c) ==
    /\ Gets(p, "initFileSenders", "initFileSenders", Nobody)
    /\ Once(p) => Once(p)'
    /\ c \in Reads(p) /\ reading[p]
    /\ Head(In(c, p)).type = "ready" /\ Head(In(c, p)).key = key[p]
    /\ mishaps' = mishaps
    /\ \A r \in Peers : r # p => Untouched(r) /\ SameKey(r)
    /\ UNCHANGED <<status[p], sock[p], online[p], dialing[p], target[p], reading[p], connected[p], ids[p], partner[p], engine[p], ui[p], asked[p], key[p], candidate[p], Reads(p)>>
    /\ DOMAIN links' = DOMAIN links
    /\ \A d \in DOMAIN links : Kept(d) /\ Open(d)' = Open(d) /\ Taken(d)' = Taken(d) /\ (d # c => Unmoved(d))
    /\ c \in DOMAIN links /\ p \in {From(c), To(c)} /\ p \in Open(c) /\ Other(c, p) \in {From(c), To(c)} /\ Other(c, p) # p
    /\ In(c, p) # << >> /\ In(c, p)' = Tail(In(c, p)) /\ In(c, Other(c, p))' = In(c, Other(c, p))
    /\ UNCHANGED early

LEMMA ParseReadyEffect ==
    ASSUME TypeOK, TypeOK', NEW p \in Peers, NEW c \in DOMAIN links,
           Parse(p, c),
           Head(In(c, p)).type = "ready",
           Head(In(c, p)).key = key[p]
    PROVE  ParseReadyDoes(p, c)
<1>1. /\ UNCHANGED <<status, candidate, sock, online, dialing, target, key, reading, readers, connected, ids, partner, engine, ui, asked, exchanges, requests, early>>
  <2>1. UNCHANGED <<driverVars, reading, readers, connected, ids, engine, bounds, mishaps, early>>
    BY DEF Parse
  <2>2. UNCHANGED ui
    <3>1. ui' = [ui EXCEPT ![p] = ui[p]]
      BY DEF Parse, Show, In
    <3> QED
      BY <3>1 DEF TypeOK
  <2>3. UNCHANGED asked
    <3>1. asked' = [asked EXCEPT ![p] = asked[p]]
      BY DEF Parse, Show, In
    <3> QED
      BY <3>1 DEF TypeOK
  <2>4. UNCHANGED partner
    <3>1. partner' = partner
      BY DEF Parse, Show, In
    <3> QED
      BY <3>1 DEF TypeOK
  <2> QED
    BY <2>1, <2>2, <2>3, <2>4 DEF driverVars, bounds
<1>2. /\ Gets(p, "initFileSenders", "initFileSenders", Nobody)
      /\ Once(p) => Once(p)'
  <2>1. Publish(p, {InitFileSenders})
    BY DEF Parse, Handlers, In
  <2>2. JobIs(InitFileSenders, "initFileSenders", "initFileSenders", Nobody)
    BY HandlerJobs DEF TypeOK
  <2>3. Alone("initFileSenders", "initFileSenders") <=> FALSE
    BY DEF Alone
  <2> QED
    BY <2>1, <2>2, <2>3, JobGets DEF TypeOK, JobIs
<1>3. \A r \in Peers : r # p => Untouched(r) /\ SameKey(r)
  BY <1>1, <1>2 DEF TypeOK, ReadersOK, Untouched, SameKey, Gets, Others, Reads
<1>4. /\ DOMAIN links' = DOMAIN links
      /\ \A d \in DOMAIN links : Kept(d) /\ Open(d)' = Open(d) /\ Taken(d)' = Taken(d) /\ (d # c => Unmoved(d))
      /\ c \in DOMAIN links /\ p \in {From(c), To(c)} /\ p \in Open(c) /\ Other(c, p) \in {From(c), To(c)} /\ Other(c, p) # p
      /\ In(c, p) # << >> /\ In(c, p)' = Tail(In(c, p)) /\ In(c, Other(c, p))' = In(c, Other(c, p))
  BY ParseTakes
<1>6. /\ c \in Reads(p) /\ reading[p]
      /\ Head(In(c, p)).type = "ready" /\ Head(In(c, p)).key = key[p]
      /\ mishaps' = mishaps
  BY DEF Parse, Reads
<1> QED
  BY <1>1, <1>2, <1>3, <1>4, <1>6 DEF ParseReadyDoes, TypeOK, Reads

SeesEndDoes(p, c) ==
    /\ Gets(p, "reset", "again", Nobody)
    /\ Once(p) => Once(p)'
    /\ c \in Reads(p) /\ reading[p] /\ p \in Open(c) /\ In(c, p) = << >> /\ Other(c, p) \notin Open(c)
    /\ mishaps' = mishaps
    /\ \A r \in Peers : r # p => Untouched(r) /\ SameKey(r)
    /\ UNCHANGED <<status[p], sock[p], online[p], dialing[p], target[p], reading[p], connected[p], ids[p], partner[p], engine[p], asked[p], key[p], candidate[p]>>
    /\ ui'[p] = IF ui[p] = "connected" THEN "idle" ELSE ui[p]
    /\ Reads(p)' \subseteq Reads(p)
    /\ Reads(p) \ {c} \subseteq Reads(p)'
    /\ UNCHANGED links
    /\ UNCHANGED early

LEMMA SeesEndEffect ==
    ASSUME TypeOK, TypeOK', NEW p \in Peers, NEW c \in DOMAIN links,
           SeesEnd(p, c)
    PROVE  SeesEndDoes(p, c)
<1>1. /\ UNCHANGED <<status, candidate, sock, online, dialing, target, key, reading, links, connected, ids, partner, engine, asked, exchanges, requests, early>>
      /\ ui' = [ui EXCEPT ![p] = IF @ = "connected" THEN "idle" ELSE @]
      /\ readers' = [readers EXCEPT ![p] = BagRemove(@, c)]
  BY DEF SeesEnd, driverVars, threadVars, stateVars, windowVars, bounds
<1>2. /\ Gets(p, "reset", "again", Nobody)
      /\ Once(p) => Once(p)'
  <2>1. Publish(p, {ConnClosed})
    BY DEF SeesEnd
  <2>2. JobIs(ConnClosed, "reset", "again", Nobody)
    BY HandlerJobs DEF TypeOK
  <2>3. Alone("reset", "again") <=> FALSE
    BY DEF Alone
  <2> QED
    BY <2>1, <2>2, <2>3, JobGets DEF TypeOK, JobIs
<1>3. \A r \in Peers : r # p => Untouched(r) /\ SameKey(r)
  BY <1>1, <1>2 DEF TypeOK, ReadersOK, Untouched, SameKey, Gets, Others, Reads
<1>5. Reads(p)' \subseteq Reads(p) /\ Reads(p) \ {c} \subseteq Reads(p)'
  <2>1. readers' = [readers EXCEPT ![p] = BagRemove(@, c)] /\ p \in DOMAIN readers /\ BagOK(readers[p])
        /\ c \in DOMAIN readers[p]
    BY DEF SeesEnd, TypeOK, ReadersOK, BagToSet
  <2>2. DOMAIN BagRemove(readers[p], c) \in {DOMAIN readers[p], DOMAIN readers[p] \ {c}}
    BY <2>1, BagRemoveIs
  <2> QED
    BY <2>1, <2>2 DEF Reads, BagToSet
<1>6. /\ c \in Reads(p) /\ reading[p] /\ p \in Open(c) /\ In(c, p) = << >> /\ Other(c, p) \notin Open(c)
      /\ mishaps' = mishaps
  BY DEF SeesEnd, Reads, Open, In
<1> QED
  BY <1>1, <1>2, <1>3, <1>5, <1>6 DEF SeesEndDoes, TypeOK, Reads

ReaderStopsDoes(p, c) ==
    /\ (\A r \in Peers : Same(r) /\ (Once(r) => Once(r)'))
    /\ ~reading[p]
    /\ mishaps' = mishaps
    /\ \A r \in Peers : r # p => Untouched(r) /\ SameKey(r)
    /\ UNCHANGED <<status[p], sock[p], online[p], dialing[p], target[p], reading[p], connected[p], ids[p], partner[p], engine[p], ui[p], asked[p], key[p], candidate[p]>>
    /\ Reads(p)' \subseteq Reads(p)
    /\ Reads(p) \ {c} \subseteq Reads(p)'
    /\ UNCHANGED links
    /\ UNCHANGED early

LEMMA ReaderStopsEffect ==
    ASSUME TypeOK, TypeOK', NEW p \in Peers, NEW c \in BagToSet(readers[p]),
           ReaderStops(p, c)
    PROVE  ReaderStopsDoes(p, c)
<1>1. /\ UNCHANGED <<status, candidate, sock, online, dialing, target, key, reading, links, connected, ids, partner, engine, ui, asked, exchanges, requests, early>>
      /\ readers' = [readers EXCEPT ![p] = BagRemove(@, c)]
  BY DEF ReaderStops, driverVars, threadVars, stateVars, windowVars, bounds
<1>2. \A r \in Peers : Same(r) /\ (Once(r) => Once(r)')
  <2>1. UNCHANGED todo
    BY DEF ReaderStops
  <2>2. \A r \in Peers : Jobs(r)' = Jobs(r)
    BY <2>1 DEF Jobs
  <2> QED
    BY <2>1, <2>2 DEF Same, Doing, Once
<1>3. \A r \in Peers : r # p => Untouched(r) /\ SameKey(r)
  BY <1>1, <1>2 DEF TypeOK, ReadersOK, Untouched, SameKey, Same, Others, Reads
<1>5. Reads(p)' \subseteq Reads(p) /\ Reads(p) \ {c} \subseteq Reads(p)'
  <2>1. readers' = [readers EXCEPT ![p] = BagRemove(@, c)] /\ p \in DOMAIN readers /\ BagOK(readers[p])
        /\ c \in DOMAIN readers[p]
    BY DEF ReaderStops, TypeOK, ReadersOK, BagToSet
  <2>2. DOMAIN BagRemove(readers[p], c) \in {DOMAIN readers[p], DOMAIN readers[p] \ {c}}
    BY <2>1, BagRemoveIs
  <2> QED
    BY <2>1, <2>2 DEF Reads, BagToSet
<1>6. /\ ~reading[p]
      /\ mishaps' = mishaps
  BY <1>1, <1>2, SessionAssumption DEF ReaderStops, At, Noting, TypeOK
<1> QED
  BY <1>1, <1>2, <1>3, <1>5, <1>6 DEF ReaderStopsDoes, TypeOK, Reads

AgainDoes(p) ==
    /\ Finishes(p, "again", Nobody)
    /\ Once(p) => Once(p)'
    /\ mishaps' = mishaps
    /\ \A r \in Peers : r # p => Untouched(r) /\ SameKey(r)
    /\ UNCHANGED <<status[p], sock[p], online[p], dialing[p], target[p], reading[p], connected[p], ids[p], partner[p], engine[p], ui[p], asked[p], key[p], candidate[p], Reads(p)>>
    /\ UNCHANGED links
    /\ UNCHANGED early

LEMMA AgainEffect ==
    ASSUME TypeOK, TypeOK', NEW p \in Peers, NEW t \in BagToSet(todo[p]),
           Again(p, t),
           ~reading[p]
    PROVE  AgainDoes(p)
<1>1. /\ UNCHANGED <<status, candidate, sock, online, dialing, target, key, reading, readers, links, connected, ids, partner, engine, ui, asked, exchanges, requests, early>>
  BY DEF Again, driverVars, threadVars, stateVars, windowVars, bounds
<1>2. /\ Finishes(p, "again", Nobody)
      /\ Once(p) => Once(p)'
  <2>1. Head(t.steps) = "again"
    BY DEF Again, At
  <2>2. Aim(t) = "again" /\ t.arg = Nobody
    BY <2>1, JobDone DEF TypeOK, SelfOK, TasksOf, Kinds, Args
  <2>3. todo' = After(p, t, {})
    BY DEF Again
  <2>4. Alone("again", "again") <=> FALSE
    BY DEF Alone
  <2> QED
    BY <2>1, <2>2, <2>3, <2>4, JobFinishes DEF TypeOK
<1>3. \A r \in Peers : r # p => Untouched(r) /\ SameKey(r)
  BY <1>1, <1>2 DEF TypeOK, ReadersOK, Untouched, SameKey, Finishes, Others, Reads
<1>6. /\ mishaps' = mishaps
  BY <1>1, <1>2, SessionAssumption DEF Again, At, Noting, TypeOK
<1> QED
  BY <1>1, <1>2, <1>3, <1>6 DEF AgainDoes, TypeOK, Reads

StatusOnDoes(p) ==
    /\ Finishes(p, "statusOn", Nobody)
    /\ Once(p) => Once(p)'
    /\ mishaps' = mishaps
    /\ \A r \in Peers : r # p => Untouched(r) /\ SameKey(r)
    /\ UNCHANGED <<status[p], sock[p], online[p], dialing[p], target[p], reading[p], ids[p], partner[p], engine[p], ui[p], asked[p], key[p], candidate[p], Reads(p)>>
    /\ connected'[p] = TRUE
    /\ UNCHANGED links
    /\ UNCHANGED early

LEMMA StatusOnEffect ==
    ASSUME TypeOK, TypeOK', NEW p \in Peers, NEW t \in BagToSet(todo[p]),
           SetStatus(p, t),
           At(p, t, "statusOn")
    PROVE  StatusOnDoes(p)
<1>1. /\ UNCHANGED <<status, candidate, sock, online, dialing, target, key, reading, readers, links, ids, partner, engine, ui, asked, exchanges, requests, early>>
      /\ connected' = [connected EXCEPT ![p] = TRUE]
  BY DEF SetStatus, At, driverVars, threadVars, stateVars, windowVars, bounds
<1>2. /\ Finishes(p, "statusOn", Nobody)
      /\ Once(p) => Once(p)'
  <2>1. Head(t.steps) = "statusOn"
    BY DEF SetStatus, At, At
  <2>2. Aim(t) = "statusOn" /\ t.arg = Nobody
    BY <2>1, JobDone DEF TypeOK, SelfOK, TasksOf, Kinds, Args
  <2>3. todo' = After(p, t, {})
    BY DEF SetStatus, At
  <2>4. Alone("statusOn", "statusOn") <=> FALSE
    BY DEF Alone
  <2> QED
    BY <2>1, <2>2, <2>3, <2>4, JobFinishes DEF TypeOK
<1>3. \A r \in Peers : r # p => Untouched(r) /\ SameKey(r)
  BY <1>1, <1>2 DEF TypeOK, ReadersOK, Untouched, SameKey, Finishes, Others, Reads
<1>6. /\ mishaps' = mishaps
  BY <1>1, <1>2, SessionAssumption DEF SetStatus, At, At, Noting, TypeOK
<1> QED
  BY <1>1, <1>2, <1>3, <1>6 DEF StatusOnDoes, TypeOK, Reads

StatusOffDoes(p) ==
    /\ Finishes(p, "statusOff", Nobody)
    /\ Once(p) => Once(p)'
    /\ mishaps' = mishaps
    /\ \A r \in Peers : r # p => Untouched(r) /\ SameKey(r)
    /\ UNCHANGED <<status[p], sock[p], online[p], dialing[p], target[p], reading[p], ids[p], partner[p], engine[p], ui[p], asked[p], key[p], candidate[p], Reads(p)>>
    /\ connected'[p] = FALSE
    /\ UNCHANGED links
    /\ UNCHANGED early

LEMMA StatusOffEffect ==
    ASSUME TypeOK, TypeOK', NEW p \in Peers, NEW t \in BagToSet(todo[p]),
           SetStatus(p, t),
           At(p, t, "statusOff")
    PROVE  StatusOffDoes(p)
<1>1. /\ UNCHANGED <<status, candidate, sock, online, dialing, target, key, reading, readers, links, ids, partner, engine, ui, asked, exchanges, requests, early>>
      /\ connected' = [connected EXCEPT ![p] = FALSE]
  BY DEF SetStatus, At, driverVars, threadVars, stateVars, windowVars, bounds
<1>2. /\ Finishes(p, "statusOff", Nobody)
      /\ Once(p) => Once(p)'
  <2>1. Head(t.steps) = "statusOff"
    BY DEF SetStatus, At, At
  <2>2. Aim(t) = "statusOff" /\ t.arg = Nobody
    BY <2>1, JobDone DEF TypeOK, SelfOK, TasksOf, Kinds, Args
  <2>3. todo' = After(p, t, {})
    BY DEF SetStatus, At
  <2>4. Alone("statusOff", "statusOff") <=> FALSE
    BY DEF Alone
  <2> QED
    BY <2>1, <2>2, <2>3, <2>4, JobFinishes DEF TypeOK
<1>3. \A r \in Peers : r # p => Untouched(r) /\ SameKey(r)
  BY <1>1, <1>2 DEF TypeOK, ReadersOK, Untouched, SameKey, Finishes, Others, Reads
<1>6. /\ mishaps' = mishaps
  BY <1>1, <1>2, SessionAssumption DEF SetStatus, At, At, Noting, TypeOK
<1> QED
  BY <1>1, <1>2, <1>3, <1>6 DEF StatusOffDoes, TypeOK, Reads

StatusClosedDoes(p) ==
    /\ Spawns(p, "close", "close", Nobody, "close", "stop", "stop", Nobody)
    /\ Once(p) => Once(p)'
    /\ mishaps' = mishaps
    /\ \A r \in Peers : r # p => Untouched(r) /\ SameKey(r)
    /\ UNCHANGED <<status[p], sock[p], online[p], dialing[p], target[p], reading[p], ids[p], partner[p], engine[p], ui[p], asked[p], key[p], candidate[p], Reads(p)>>
    /\ connected'[p] = FALSE
    /\ UNCHANGED links
    /\ UNCHANGED early

LEMMA StatusClosedEffect ==
    ASSUME TypeOK, TypeOK', NEW p \in Peers, NEW t \in BagToSet(todo[p]),
           SetStatus(p, t),
           At(p, t, "close")
    PROVE  StatusClosedDoes(p)
<1>1. /\ UNCHANGED <<status, candidate, sock, online, dialing, target, key, reading, readers, links, ids, partner, engine, ui, asked, exchanges, requests, early>>
      /\ connected' = [connected EXCEPT ![p] = FALSE]
  BY DEF SetStatus, At, driverVars, threadVars, stateVars, windowVars, bounds
<1>2. /\ Spawns(p, "close", "close", Nobody, "close", "stop", "stop", Nobody)
      /\ Once(p) => Once(p)'
  <2>1. Head(t.steps) = "close"
    BY DEF SetStatus, At
  <2>2. Aim(t) = "close" /\ t.arg = Nobody
    BY <2>1, JobDone DEF TypeOK, SelfOK, TasksOf, Kinds, Args
  <2>3. todo' = After(p, t, {Stop}) /\ StepAfter("close", "close") = "close"
    BY <2>1, <2>2 DEF SetStatus, At, StepAfter
  <2>4. ~Alone("close", "close") /\ ~Alone("stop", "stop")
    BY DEF Alone
  <2>5. JobIs(Stop, "stop", "stop", Nobody)
    BY HandlerJobs DEF TypeOK
  <2> QED
    BY <2>1, <2>2, <2>3, <2>4, <2>5, JobSpawns DEF TypeOK, JobIs
<1>3. \A r \in Peers : r # p => Untouched(r) /\ SameKey(r)
  BY <1>1, <1>2 DEF TypeOK, ReadersOK, Untouched, SameKey, Spawns, Others, Reads
<1>6. /\ mishaps' = mishaps
  BY <1>1, <1>2, SessionAssumption DEF SetStatus, At, At, Noting, TypeOK
<1> QED
  BY <1>1, <1>2, <1>3, <1>6 DEF StatusClosedDoes, TypeOK, Reads

StatusLostUnconnectedDoes(p) ==
    /\ Spawns(p, "lost", "unconnected", Nobody, "unconnected", "stop", "stop", Nobody)
    /\ Once(p) => Once(p)'
    /\ mishaps' = mishaps
    /\ \A r \in Peers : r # p => Untouched(r) /\ SameKey(r)
    /\ UNCHANGED <<status[p], sock[p], online[p], dialing[p], target[p], reading[p], partner[p], engine[p], ui[p], asked[p], key[p], candidate[p], Reads(p)>>
    /\ connected'[p] = FALSE
    /\ ids'[p] = "low"
    /\ UNCHANGED links
    /\ UNCHANGED early

LEMMA StatusLostUnconnectedEffect ==
    ASSUME TypeOK, TypeOK', NEW p \in Peers, NEW t \in BagToSet(todo[p]),
           SetStatus(p, t),
           At(p, t, "lost"),
           Aim(t) = "unconnected"
    PROVE  StatusLostUnconnectedDoes(p)
<1>1. /\ UNCHANGED <<status, candidate, sock, online, dialing, target, key, reading, readers, links, partner, engine, ui, asked, exchanges, requests, early>>
      /\ connected' = [connected EXCEPT ![p] = FALSE]
      /\ ids' = [ids EXCEPT ![p] = "low"]
  BY DEF SetStatus, At, driverVars, threadVars, stateVars, windowVars, bounds
<1>2. /\ Spawns(p, "lost", "unconnected", Nobody, "unconnected", "stop", "stop", Nobody)
      /\ Once(p) => Once(p)'
  <2>1. Head(t.steps) = "lost"
    BY DEF SetStatus, At
  <2>2. Aim(t) = "unconnected" /\ t.arg = Nobody
    BY <2>1, JobDone DEF TypeOK, SelfOK, TasksOf, Kinds, Args
  <2>3. todo' = After(p, t, {Stop}) /\ StepAfter("lost", "unconnected") = "unconnected"
    BY <2>1, <2>2 DEF SetStatus, At, StepAfter
  <2>4. ~Alone("unconnected", "unconnected") /\ ~Alone("stop", "stop")
    BY DEF Alone
  <2>5. JobIs(Stop, "stop", "stop", Nobody)
    BY HandlerJobs DEF TypeOK
  <2> QED
    BY <2>1, <2>2, <2>3, <2>4, <2>5, JobSpawns DEF TypeOK, JobIs
<1>3. \A r \in Peers : r # p => Untouched(r) /\ SameKey(r)
  BY <1>1, <1>2 DEF TypeOK, ReadersOK, Untouched, SameKey, Spawns, Others, Reads
<1>6. /\ mishaps' = mishaps
  BY <1>1, <1>2, SessionAssumption DEF SetStatus, At, At, Noting, TypeOK
<1> QED
  BY <1>1, <1>2, <1>3, <1>6 DEF StatusLostUnconnectedDoes, TypeOK, Reads

StatusLostAgainDoes(p) ==
    /\ Spawns(p, "lost", "again", Nobody, "again", "stop", "stop", Nobody)
    /\ Once(p) => Once(p)'
    /\ mishaps' = mishaps
    /\ \A r \in Peers : r # p => Untouched(r) /\ SameKey(r)
    /\ UNCHANGED <<status[p], sock[p], online[p], dialing[p], target[p], reading[p], partner[p], engine[p], ui[p], asked[p], key[p], candidate[p], Reads(p)>>
    /\ connected'[p] = FALSE
    /\ ids'[p] = "low"
    /\ UNCHANGED links
    /\ UNCHANGED early

LEMMA StatusLostAgainEffect ==
    ASSUME TypeOK, TypeOK', NEW p \in Peers, NEW t \in BagToSet(todo[p]),
           SetStatus(p, t),
           At(p, t, "lost"),
           Aim(t) = "again"
    PROVE  StatusLostAgainDoes(p)
<1>1. /\ UNCHANGED <<status, candidate, sock, online, dialing, target, key, reading, readers, links, partner, engine, ui, asked, exchanges, requests, early>>
      /\ connected' = [connected EXCEPT ![p] = FALSE]
      /\ ids' = [ids EXCEPT ![p] = "low"]
  BY DEF SetStatus, At, driverVars, threadVars, stateVars, windowVars, bounds
<1>2. /\ Spawns(p, "lost", "again", Nobody, "again", "stop", "stop", Nobody)
      /\ Once(p) => Once(p)'
  <2>1. Head(t.steps) = "lost"
    BY DEF SetStatus, At
  <2>2. Aim(t) = "again" /\ t.arg = Nobody
    BY <2>1, JobDone DEF TypeOK, SelfOK, TasksOf, Kinds, Args
  <2>3. todo' = After(p, t, {Stop}) /\ StepAfter("lost", "again") = "again"
    BY <2>1, <2>2 DEF SetStatus, At, StepAfter
  <2>4. ~Alone("again", "again") /\ ~Alone("stop", "stop")
    BY DEF Alone
  <2>5. JobIs(Stop, "stop", "stop", Nobody)
    BY HandlerJobs DEF TypeOK
  <2> QED
    BY <2>1, <2>2, <2>3, <2>4, <2>5, JobSpawns DEF TypeOK, JobIs
<1>3. \A r \in Peers : r # p => Untouched(r) /\ SameKey(r)
  BY <1>1, <1>2 DEF TypeOK, ReadersOK, Untouched, SameKey, Spawns, Others, Reads
<1>6. /\ mishaps' = mishaps
  BY <1>1, <1>2, SessionAssumption DEF SetStatus, At, At, Noting, TypeOK
<1> QED
  BY <1>1, <1>2, <1>3, <1>6 DEF StatusLostAgainDoes, TypeOK, Reads

EngineHighDoes(p) ==
    /\ Spawns(p, "initHigh", "statusOn", Nobody, "statusOn", "listen", "started", partner[p])
    /\ Once(p) => Once(p)'
    /\ mishaps' = mishaps
    /\ \A r \in Peers : r # p => Untouched(r) /\ SameKey(r)
    /\ UNCHANGED <<status[p], sock[p], online[p], dialing[p], target[p], reading[p], connected[p], partner[p], engine[p], ui[p], asked[p], key[p], candidate[p], Reads(p)>>
    /\ ids'[p] = "high"
    /\ UNCHANGED links
    /\ UNCHANGED early

LEMMA EngineHighEffect ==
    ASSUME TypeOK, TypeOK', NEW p \in Peers, NEW t \in BagToSet(todo[p]),
           PublishEngine(p, t),
           At(p, t, "initHigh")
    PROVE  EngineHighDoes(p)
<1>1. /\ UNCHANGED <<status, candidate, sock, online, dialing, target, key, reading, readers, links, connected, partner, engine, ui, asked, exchanges, requests, early>>
      /\ ids' = [ids EXCEPT ![p] = "high"]
  BY DEF PublishEngine, At, driverVars, threadVars, stateVars, windowVars, bounds
<1>2. /\ Spawns(p, "initHigh", "statusOn", Nobody, "statusOn", "listen", "started", partner[p])
      /\ Once(p) => Once(p)'
  <2>1. Head(t.steps) = "initHigh"
    BY DEF PublishEngine, At
  <2>2. Aim(t) = "statusOn" /\ t.arg = Nobody
    BY <2>1, JobDone DEF TypeOK, SelfOK, TasksOf, Kinds, Args
  <2>3. todo' = After(p, t, {Start(partner[p])}) /\ StepAfter("initHigh", "statusOn") = "statusOn"
    BY <2>1, <2>2 DEF PublishEngine, At, StepAfter
  <2>4. ~Alone("statusOn", "statusOn") /\ ~Alone("listen", "started")
    BY DEF Alone
  <2>5. JobIs(Start(partner[p]), "listen", "started", partner[p])
    BY HandlerJobs DEF TypeOK
  <2> QED
    BY <2>1, <2>2, <2>3, <2>4, <2>5, JobSpawns DEF TypeOK, JobIs
<1>3. \A r \in Peers : r # p => Untouched(r) /\ SameKey(r)
  BY <1>1, <1>2 DEF TypeOK, ReadersOK, Untouched, SameKey, Spawns, Others, Reads
<1>6. /\ mishaps' = mishaps
  BY <1>1, <1>2, SessionAssumption DEF PublishEngine, At, At, Noting, TypeOK
<1> QED
  BY <1>1, <1>2, <1>3, <1>6 DEF EngineHighDoes, TypeOK, Reads

EngineLowDoes(p) ==
    /\ Spawns(p, "initLow", "statusOn", Nobody, "statusOn", "listen", "started", partner[p])
    /\ Once(p) => Once(p)'
    /\ mishaps' = mishaps
    /\ \A r \in Peers : r # p => Untouched(r) /\ SameKey(r)
    /\ UNCHANGED <<status[p], sock[p], online[p], dialing[p], target[p], reading[p], connected[p], partner[p], engine[p], ui[p], asked[p], key[p], candidate[p], Reads(p)>>
    /\ ids'[p] = "low"
    /\ UNCHANGED links
    /\ UNCHANGED early

LEMMA EngineLowEffect ==
    ASSUME TypeOK, TypeOK', NEW p \in Peers, NEW t \in BagToSet(todo[p]),
           PublishEngine(p, t),
           At(p, t, "initLow")
    PROVE  EngineLowDoes(p)
<1>1. /\ UNCHANGED <<status, candidate, sock, online, dialing, target, key, reading, readers, links, connected, partner, engine, ui, asked, exchanges, requests, early>>
      /\ ids' = [ids EXCEPT ![p] = "low"]
  BY DEF PublishEngine, At, driverVars, threadVars, stateVars, windowVars, bounds
<1>2. /\ Spawns(p, "initLow", "statusOn", Nobody, "statusOn", "listen", "started", partner[p])
      /\ Once(p) => Once(p)'
  <2>1. Head(t.steps) = "initLow"
    BY DEF PublishEngine, At
  <2>2. Aim(t) = "statusOn" /\ t.arg = Nobody
    BY <2>1, JobDone DEF TypeOK, SelfOK, TasksOf, Kinds, Args
  <2>3. todo' = After(p, t, {Start(partner[p])}) /\ StepAfter("initLow", "statusOn") = "statusOn"
    BY <2>1, <2>2 DEF PublishEngine, At, StepAfter
  <2>4. ~Alone("statusOn", "statusOn") /\ ~Alone("listen", "started")
    BY DEF Alone
  <2>5. JobIs(Start(partner[p]), "listen", "started", partner[p])
    BY HandlerJobs DEF TypeOK
  <2> QED
    BY <2>1, <2>2, <2>3, <2>4, <2>5, JobSpawns DEF TypeOK, JobIs
<1>3. \A r \in Peers : r # p => Untouched(r) /\ SameKey(r)
  BY <1>1, <1>2 DEF TypeOK, ReadersOK, Untouched, SameKey, Spawns, Others, Reads
<1>6. /\ mishaps' = mishaps
  BY <1>1, <1>2, SessionAssumption DEF PublishEngine, At, At, Noting, TypeOK
<1> QED
  BY <1>1, <1>2, <1>3, <1>6 DEF EngineLowDoes, TypeOK, Reads

ListenDoes(p, x) ==
    /\ Spawns(p, "listen", "started", x, "started", "ready", "ready", Nobody)
    /\ Once(p) => Once(p)'
    /\ mishaps' = mishaps
    /\ x \in Peers \cup {Nobody}
    /\ \A r \in Peers : r # p => Untouched(r) /\ SameKey(r)
    /\ UNCHANGED <<status[p], sock[p], online[p], dialing[p], target[p], reading[p], connected[p], ids[p], partner[p], ui[p], asked[p], key[p], candidate[p], Reads(p)>>
    /\ UNCHANGED links
    /\ UNCHANGED early
    /\ engine'[p].addr = x /\ engine'[p].listening = TRUE /\ engine'[p].started = engine[p].started /\ engine'[p].senders = engine[p].senders

LEMMA ListenEffect ==
    ASSUME TypeOK, TypeOK', NEW p \in Peers, NEW t \in BagToSet(todo[p]),
           StartEngine(p, t),
           At(p, t, "listen")
    PROVE  ListenDoes(p, t.arg)
<1>1. /\ UNCHANGED <<status, candidate, sock, online, dialing, target, key, reading, readers, links, connected, ids, partner, ui, asked, exchanges, requests, early>>
      /\ engine' = [engine EXCEPT ![p].addr = t.arg, ![p].listening = TRUE]
  BY DEF StartEngine, At, driverVars, threadVars, stateVars, windowVars, bounds
<1>2. /\ Spawns(p, "listen", "started", t.arg, "started", "ready", "ready", Nobody)
      /\ Once(p) => Once(p)'
      /\ t.arg \in Peers \cup {Nobody}
  <2>1. Head(t.steps) = "listen"
    BY DEF StartEngine, At
  <2>2. Aim(t) = "started" /\ t.arg = t.arg /\ t.arg \in Peers \cup {Nobody}
    BY <2>1, JobDone DEF TypeOK, SelfOK, TasksOf, Kinds, Args
  <2>3. todo' = After(p, t, {SendInitFileReceiverDone}) /\ StepAfter("listen", "started") = "started"
    BY <2>1, <2>2 DEF StartEngine, At, StepAfter
  <2>4. ~Alone("started", "started") /\ ~Alone("ready", "ready")
    BY DEF Alone
  <2>5. JobIs(SendInitFileReceiverDone, "ready", "ready", Nobody)
    BY HandlerJobs DEF TypeOK
  <2> QED
    BY <2>1, <2>2, <2>3, <2>4, <2>5, JobSpawns DEF TypeOK, JobIs
<1>3. \A r \in Peers : r # p => Untouched(r) /\ SameKey(r)
  BY <1>1, <1>2 DEF TypeOK, ReadersOK, Untouched, SameKey, Spawns, Others, Reads
<1>6. /\ mishaps' = mishaps
      /\ t.arg \in Peers \cup {Nobody}
      /\ engine'[p].addr = t.arg /\ engine'[p].listening = TRUE /\ engine'[p].started = engine[p].started /\ engine'[p].senders = engine[p].senders
  BY <1>1, <1>2, SessionAssumption DEF StartEngine, At, At, Noting, TypeOK
<1> QED
  BY <1>1, <1>2, <1>3, <1>6 DEF ListenDoes, TypeOK, Reads

StartedDoes(p, x) ==
    /\ Finishes(p, "started", x)
    /\ Once(p) => Once(p)'
    /\ mishaps' = mishaps
    /\ x \in Peers \cup {Nobody}
    /\ \A r \in Peers : r # p => Untouched(r) /\ SameKey(r)
    /\ UNCHANGED <<status[p], sock[p], online[p], dialing[p], target[p], reading[p], connected[p], ids[p], partner[p], ui[p], asked[p], key[p], candidate[p], Reads(p)>>
    /\ UNCHANGED links
    /\ UNCHANGED early
    /\ engine'[p].addr = engine[p].addr /\ engine'[p].listening = engine[p].listening /\ engine'[p].started = TRUE /\ engine'[p].senders = engine[p].senders

LEMMA StartedEffect ==
    ASSUME TypeOK, TypeOK', NEW p \in Peers, NEW t \in BagToSet(todo[p]),
           StartEngine(p, t),
           At(p, t, "started")
    PROVE  StartedDoes(p, t.arg)
<1>1. /\ UNCHANGED <<status, candidate, sock, online, dialing, target, key, reading, readers, links, connected, ids, partner, ui, asked, exchanges, requests, early>>
      /\ engine' = [engine EXCEPT ![p].started = TRUE]
  BY DEF StartEngine, At, driverVars, threadVars, stateVars, windowVars, bounds
<1>2. /\ Finishes(p, "started", t.arg)
      /\ Once(p) => Once(p)'
      /\ t.arg \in Peers \cup {Nobody}
  <2>1. Head(t.steps) = "started"
    BY DEF StartEngine, At, At
  <2>2. Aim(t) = "started" /\ t.arg = t.arg /\ t.arg \in Peers \cup {Nobody}
    BY <2>1, JobDone DEF TypeOK, SelfOK, TasksOf, Kinds, Args
  <2>3. todo' = After(p, t, {})
    BY DEF StartEngine, At
  <2>4. Alone("started", "started") <=> FALSE
    BY DEF Alone
  <2> QED
    BY <2>1, <2>2, <2>3, <2>4, JobFinishes DEF TypeOK
<1>3. \A r \in Peers : r # p => Untouched(r) /\ SameKey(r)
  BY <1>1, <1>2 DEF TypeOK, ReadersOK, Untouched, SameKey, Finishes, Others, Reads
<1>6. /\ mishaps' = mishaps
      /\ t.arg \in Peers \cup {Nobody}
      /\ engine'[p].addr = engine[p].addr /\ engine'[p].listening = engine[p].listening /\ engine'[p].started = TRUE /\ engine'[p].senders = engine[p].senders
  BY <1>1, <1>2, SessionAssumption DEF StartEngine, At, At, Noting, TypeOK
<1> QED
  BY <1>1, <1>2, <1>3, <1>6 DEF StartedDoes, TypeOK, Reads

SendersDoes(p) ==
    /\ Finishes(p, "initFileSenders", Nobody)
    /\ Once(p) => Once(p)'
    /\ mishaps' = mishaps
    /\ \A r \in Peers : r # p => Untouched(r) /\ SameKey(r)
    /\ UNCHANGED <<status[p], sock[p], online[p], dialing[p], target[p], reading[p], connected[p], ids[p], partner[p], ui[p], asked[p], key[p], candidate[p], Reads(p)>>
    /\ UNCHANGED links
    /\ engine'[p].addr = engine[p].addr /\ engine'[p].listening = engine[p].listening /\ engine'[p].started = engine[p].started
    /\ engine'[p].senders <=> engine[p].senders \/ (engine[p].addr # Nobody /\ engine[engine[p].addr].listening)
    /\ early' = {} => early = {} /\ engine[p].listening

LEMMA SendersEffect ==
    ASSUME TypeOK, TypeOK', NEW p \in Peers, NEW t \in BagToSet(todo[p]),
           StartSenders(p, t)
    PROVE  SendersDoes(p)
<1>1. /\ UNCHANGED <<status, candidate, sock, online, dialing, target, key, reading, readers, links, connected, ids, partner, ui, asked, exchanges, requests>>
      /\ engine' = [engine EXCEPT ![p].senders = engine[p].senders \/ (engine[p].addr # Nobody /\ engine[engine[p].addr].listening)]
  BY DEF StartSenders, driverVars, threadVars, stateVars, windowVars, bounds
<1>2. /\ Finishes(p, "initFileSenders", Nobody)
      /\ Once(p) => Once(p)'
  <2>1. Head(t.steps) = "initFileSenders"
    BY DEF StartSenders, At
  <2>2. Aim(t) = "initFileSenders" /\ t.arg = Nobody
    BY <2>1, JobDone DEF TypeOK, SelfOK, TasksOf, Kinds, Args
  <2>3. todo' = After(p, t, {})
    BY DEF StartSenders
  <2>4. Alone("initFileSenders", "initFileSenders") <=> FALSE
    BY DEF Alone
  <2> QED
    BY <2>1, <2>2, <2>3, <2>4, JobFinishes DEF TypeOK
<1>3. \A r \in Peers : r # p => Untouched(r) /\ SameKey(r)
  BY <1>1, <1>2 DEF TypeOK, ReadersOK, Untouched, SameKey, Finishes, Others, Reads
<1>6. /\ mishaps' = mishaps
      /\ engine'[p].addr = engine[p].addr /\ engine'[p].listening = engine[p].listening /\ engine'[p].started = engine[p].started
      /\ engine'[p].senders <=> engine[p].senders \/ (engine[p].addr # Nobody /\ engine[engine[p].addr].listening)
      /\ early' = {} => early = {} /\ engine[p].listening
  <2>1. mishaps' = mishaps /\ (early' = {} => early = {} /\ engine[p].listening)
    BY DEF StartSenders
  <2> DEFINE b == engine[p].senders \/ (engine[p].addr # Nobody /\ engine[engine[p].addr].listening)
  <2>2. engine[p] \in Engine /\ engine' = [engine EXCEPT ![p].senders = b] /\ p \in DOMAIN engine
    BY <1>1 DEF TypeOK
  <2> HIDE DEF b
  <2>3. engine'[p] = [engine[p] EXCEPT !.senders = b]
    BY <2>2
  <2>4. /\ engine'[p].addr = engine[p].addr /\ engine'[p].listening = engine[p].listening
        /\ engine'[p].started = engine[p].started /\ engine'[p].senders = b
    BY <2>2, <2>3 DEF Engine
  <2> QED
    BY <2>1, <2>4 DEF b
<1> QED
  BY <1>1, <1>2, <1>3, <1>6 DEF SendersDoes, TypeOK, Reads

StopEngineDoes(p) ==
    /\ Finishes(p, "stop", Nobody)
    /\ Once(p) => Once(p)'
    /\ mishaps \subseteq mishaps'
    /\ mishaps' = {} => ~Beginning(p)
    /\ \A r \in Peers : r # p => Untouched(r) /\ SameKey(r)
    /\ UNCHANGED <<status[p], sock[p], online[p], dialing[p], target[p], reading[p], connected[p], ids[p], partner[p], ui[p], asked[p], key[p], candidate[p], Reads(p)>>
    /\ UNCHANGED links
    /\ UNCHANGED early
    /\ engine'[p] = IF engine[p].started THEN [Off EXCEPT !.addr = engine[p].addr] ELSE engine[p]
    /\ engine'[p].addr = engine[p].addr

LEMMA StopEngineEffect ==
    ASSUME TypeOK, TypeOK', NEW p \in Peers, NEW t \in BagToSet(todo[p]),
           StopEngine(p, t)
    PROVE  StopEngineDoes(p)
<1>1. /\ UNCHANGED <<status, candidate, sock, online, dialing, target, key, reading, readers, links, connected, ids, partner, ui, asked, exchanges, requests, early>>
      /\ engine' = IF engine[p].started THEN [engine EXCEPT ![p] = [Off EXCEPT !.addr = engine[p].addr]] ELSE engine
  BY DEF StopEngine, driverVars, threadVars, stateVars, windowVars, bounds
<1>2. /\ Finishes(p, "stop", Nobody)
      /\ Once(p) => Once(p)'
  <2>1. Head(t.steps) = "stop"
    BY DEF StopEngine, At
  <2>2. Aim(t) = "stop" /\ t.arg = Nobody
    BY <2>1, JobDone DEF TypeOK, SelfOK, TasksOf, Kinds, Args
  <2>3. todo' = After(p, t, {})
    BY DEF StopEngine
  <2>4. Alone("stop", "stop") <=> FALSE
    BY DEF Alone
  <2> QED
    BY <2>1, <2>2, <2>3, <2>4, JobFinishes DEF TypeOK
<1>3. \A r \in Peers : r # p => Untouched(r) /\ SameKey(r)
  BY <1>1, <1>2 DEF TypeOK, ReadersOK, Untouched, SameKey, Finishes, Others, Reads
<1>6. /\ mishaps \subseteq mishaps'
      /\ mishaps' = {} => ~Beginning(p)
      /\ engine'[p] = IF engine[p].started THEN [Off EXCEPT !.addr = engine[p].addr] ELSE engine[p]
      /\ engine'[p].addr = engine[p].addr
  <2>1. mishaps \subseteq mishaps' /\ (mishaps' = {} => ~Beginning(p))
    BY DEF StopEngine, Noting
  <2>2. engine'[p] = IF engine[p].started THEN [Off EXCEPT !.addr = engine[p].addr] ELSE engine[p]
    BY <1>1 DEF TypeOK
  <2>3. [Off EXCEPT !.addr = engine[p].addr].addr = engine[p].addr
    BY DEF Off
  <2> QED
    BY <2>1, <2>2, <2>3
<1> QED
  BY <1>1, <1>2, <1>3, <1>6 DEF StopEngineDoes, TypeOK, Reads

-----------------------------------------------------------------------------
(* What the parts of the invariant are about                               *)

\* What a peer has.
Local(p) == /\ SockInv(p) /\ ReadInv(p) /\ AskInv(p) /\ PlaceInv(p)
            /\ ConnInv(p) /\ EngineInv(p) /\ WindowInv(p)

\* What the names of groups of jobs stand for.
JobRules(p) ==
    /\ Resets(p) <=> TakesBack(p) \/ Leaves(p)
    /\ TakesBack(p) <=> Runs(p, "cancel", "reset")
    /\ Runs(p, "reset", "reset") => Leaves(p)
    /\ Runs(p, "reject", "statusOff") => Leaves(p)
    /\ Runs(p, "reset", "statusOff") => Leaves(p)
    /\ Runs(p, "reset", "close") => Leaves(p)
    /\ Runs(p, "reset", "unconnected") => Leaves(p)
    /\ Runs(p, "reset", "again") => Leaves(p)
    /\ Closes(p) => Ended(p)
    /\ Runs(p, "stop", "stop") => Ended(p)
    /\ Runs(p, "statusOff", "statusOff") => Ended(p)
    /\ Runs(p, "statusOn", "statusOn") => Agrees(p)
    /\ Runs(p, "initHigh", "statusOn") => Agrees(p)
    /\ Runs(p, "initLow", "statusOn") => Agrees(p)
    /\ Runs(p, "accept", "statusOn") => Agrees(p)

LEMMA JobsAre ==
    ASSUME NEW p
    PROVE  JobRules(p) /\ JobRules(p)'
  BY DEF JobRules, Resets, TakesBack, Leaves, Closes, Ended, Agrees

\* The types, as the steps of one peer use them.
PeerFacts(p) ==
    /\ Uses(p) <=> sock[p] \in DOMAIN links
    /\ status[p] \in {"waiting", "tls", "tcp"} /\ sock[p] \in DOMAIN links \cup {Fresh, Nobody}
    /\ Fresh # Nobody /\ Fresh \notin DOMAIN links /\ Nobody \notin DOMAIN links
    /\ DOMAIN links \subseteq Nat
    /\ online[p] \in BOOLEAN /\ dialing[p] \in BOOLEAN /\ reading[p] \in BOOLEAN
    /\ connected[p] \in BOOLEAN /\ asked[p] \in BOOLEAN
    /\ target[p] \in Peers \cup {Nobody} /\ candidate[p] \in Peers \cup {Nobody}
    /\ partner[p] \in Peers \cup {Nobody} /\ Nobody \notin Peers
    /\ ids[p] \in {"low", "high"} /\ ui[p] \in {"idle", "asking", "connected"}
    /\ engine[p].addr \in Peers \cup {Nobody} /\ engine[p].listening \in BOOLEAN
    /\ engine[p].started \in BOOLEAN /\ engine[p].senders \in BOOLEAN
    /\ Uses(p) => /\ From(sock[p]) \in Peers /\ To(sock[p]) \in Peers /\ From(sock[p]) # To(sock[p])
                  /\ Other(sock[p], p) \in Peers
    /\ Calls(p) => Uses(p) /\ ~Takes(p) /\ From(sock[p]) = p /\ Other(sock[p], p) = To(sock[p])
    /\ Takes(p) => Uses(p) /\ ~Calls(p) /\ To(sock[p]) = p /\ Other(sock[p], p) = From(sock[p])
    /\ Uses(p) /\ p \in {From(sock[p]), To(sock[p])} => Calls(p) \/ Takes(p)

LEMMA PeerIs ==
    ASSUME TypeOK, NEW p \in Peers
    PROVE  PeerFacts(p)
<1>1. LinksOK /\ engine[p] \in Engine
  BY DEF TypeOK
<1>2. /\ engine[p].addr \in Peers \cup {Nobody} /\ engine[p].listening \in BOOLEAN
      /\ engine[p].started \in BOOLEAN /\ engine[p].senders \in BOOLEAN
  BY <1>1 DEF Engine
<1>3. Fresh \notin DOMAIN links /\ Nobody \notin DOMAIN links /\ DOMAIN links \subseteq Nat
      /\ Fresh # Nobody /\ Nobody \notin Peers
  BY <1>1, LinkIs, SessionAssumption
<1>4. /\ status[p] \in {"waiting", "tls", "tcp"} /\ sock[p] \in DOMAIN links \cup {Fresh, Nobody}
      /\ online[p] \in BOOLEAN /\ dialing[p] \in BOOLEAN /\ reading[p] \in BOOLEAN
      /\ connected[p] \in BOOLEAN /\ asked[p] \in BOOLEAN
      /\ target[p] \in Peers \cup {Nobody} /\ candidate[p] \in Peers \cup {Nobody}
      /\ partner[p] \in Peers \cup {Nobody}
      /\ ids[p] \in {"low", "high"} /\ ui[p] \in {"idle", "asking", "connected"}
  BY DEF TypeOK
<1>5. Uses(p) => /\ From(sock[p]) \in Peers /\ To(sock[p]) \in Peers /\ From(sock[p]) # To(sock[p])
                 /\ Other(sock[p], p) = IF From(sock[p]) = p THEN To(sock[p]) ELSE From(sock[p])
  BY <1>1, LinkIs DEF Uses, Other, From, To
<1>6. /\ Uses(p) => Other(sock[p], p) \in Peers
      /\ Calls(p) => Uses(p) /\ ~Takes(p) /\ From(sock[p]) = p /\ Other(sock[p], p) = To(sock[p])
      /\ Takes(p) => Uses(p) /\ ~Calls(p) /\ To(sock[p]) = p /\ Other(sock[p], p) = From(sock[p])
      /\ Uses(p) /\ p \in {From(sock[p]), To(sock[p])} => Calls(p) \/ Takes(p)
  BY <1>5 DEF Calls, Takes
<1> QED
  BY <1>2, <1>3, <1>4, <1>5, <1>6 DEF PeerFacts, Uses

LEMMA PeerIsNext ==
    ASSUME TypeOK', NEW p \in Peers
    PROVE  /\ status'[p] \in {"waiting", "tls", "tcp"} /\ sock'[p] \in DOMAIN links' \cup {Fresh, Nobody}
           /\ Fresh # Nobody /\ Fresh \notin DOMAIN links' /\ Nobody \notin DOMAIN links'
           /\ DOMAIN links' \subseteq Nat
           /\ engine'[p].listening \in BOOLEAN /\ engine'[p].started \in BOOLEAN /\ engine'[p].senders \in BOOLEAN
<1>1. engine'[p] \in Engine /\ status'[p] \in {"waiting", "tls", "tcp"}
      /\ sock'[p] \in DOMAIN links' \cup {Fresh, Nobody}
  BY DEF TypeOK
<1>2. /\ engine'[p].listening \in BOOLEAN /\ engine'[p].started \in BOOLEAN /\ engine'[p].senders \in BOOLEAN
  BY <1>1 DEF Engine
<1>3. LinksOK'
  BY DEF TypeOK
<1> QED
  BY <1>1, <1>2, <1>3, LinksNext, SessionAssumption

\* What a peer does not do that begins nothing, ...
LEMMA BeginsNothing ==
    ASSUME TypeOK, NEW p \in Peers, ~Beginning(p)
    PROVE  /\ ~ToDial(p) /\ ~Agrees(p) /\ ~Starting(p) /\ (\A c : ~Adopts(p, c))
           /\ ~Runs(p, "initLow", "statusOn") /\ ~Runs(p, "initHigh", "statusOn")
           /\ ~Runs(p, "accept", "statusOn") /\ ~Runs(p, "statusOn", "statusOn")
           /\ \A y : ~Doing(p, "exchange", "request", y) /\ ~Doing(p, "connect", "request", y)
                     /\ ~Doing(p, "recvMsg", "request", y) /\ ~Doing(p, "listen", "started", y)
                     /\ ~Doing(p, "started", "started", y)
<1>1. /\ \A h, x : ~Doing(p, h, "statusOn", x) /\ ~Doing(p, h, "established", x)
                    /\ ~Doing(p, h, "started", x)
      /\ \A h, x : h # "request" => ~Doing(p, h, "request", x)
  BY BeginningIs DEF TypeOK
<1> QED
  BY <1>1 DEF ToDial, Agrees, Starting, Starts, Adopts, Runs

\* ... or ends nothing.
LEMMA EndsNothing ==
    ASSUME TypeOK, NEW p \in Peers, ~Ending(p)
    PROVE  /\ ~TakesBack(p) /\ ~Leaves(p) /\ ~Resets(p) /\ ~Closes(p) /\ ~Ended(p)
           /\ ~Runs(p, "stop", "stop") /\ ~Runs(p, "statusOff", "statusOff")
           /\ sock[p] = Nobody => Reads(p) = {}
<1>1. /\ sock[p] = Nobody => Reads(p) = {}
      /\ \A h, x : /\ ~Doing(p, h, "statusOff", x) /\ ~Doing(p, h, "reset", x)
                     /\ ~Doing(p, h, "close", x) /\ ~Doing(p, h, "unconnected", x)
                     /\ ~Doing(p, h, "again", x) /\ ~Doing(p, h, "stop", x)
  BY EndingIs DEF TypeOK
<1>2. ~TakesBack(p) /\ ~Leaves(p) /\ ~Closes(p) /\ ~Runs(p, "stop", "stop") /\ ~Runs(p, "statusOff", "statusOff")
      /\ ~Runs(p, "unconnected", "unconnected") /\ ~Runs(p, "again", "again")
  BY <1>1 DEF TakesBack, Leaves, Closes, Runs
<1> QED
  BY <1>1, <1>2 DEF Resets, Ended

\* What a connection leaves as it was.
LEMMA ConnectMakes ==
    ASSUME TypeOK, NEW p \in Peers, NEW x, ConnectDoes(p, x)
    PROVE  /\ LinksKept /\ sock'[p] \in DOMAIN links' /\ sock'[p] \notin DOMAIN links
           /\ DOMAIN links' = DOMAIN links \cup {sock'[p]}
           /\ DOMAIN links \subseteq DOMAIN links'
           /\ \A d \in DOMAIN links : Kept(d) /\ Unmoved(d) /\ Open(d)' = Open(d) /\ Taken(d)' = Taken(d)
           /\ \A n \in DOMAIN links' : n \notin DOMAIN links => n = sock'[p]
           /\ \A n : n = sock'[p] =>
                 /\ From(n)' = p /\ To(n)' = x /\ Open(n)' = {p, x} /\ Taken(n)' = FALSE
                 /\ In(n, p)' = << >> /\ In(n, x)' = << >>
           /\ From(sock[p])' = p /\ To(sock[p])' = x
<1>1. /\ x \in Peers /\ x # p /\ LinksOK /\ links' = Append(links, NewLink(p, x)) /\ links \in Seq(Link)
      /\ sock'[p] = Len(links) + 1
  BY DEF ConnectDoes, TypeOK, LinksOK
<1>2. ASSUME NEW n, n = Len(links) + 1
      PROVE  /\ n \notin DOMAIN links /\ DOMAIN links' = DOMAIN links \cup {n}
             /\ \A d \in DOMAIN links : links'[d] = links[d]
             /\ From(n)' = p /\ To(n)' = x /\ Open(n)' = {p, x} /\ Taken(n)' = FALSE
             /\ In(n, p)' = << >> /\ In(n, x)' = << >>
  BY <1>1, <1>2, LinkMade
<1>3. \A d \in DOMAIN links : d \in DOMAIN links' /\ Kept(d) /\ Unmoved(d) /\ Open(d)' = Open(d) /\ Taken(d)' = Taken(d)
  <2>1. \A d \in DOMAIN links : links'[d] = links[d] /\ d \in DOMAIN links'
    BY <1>2
  <2> QED
    BY <2>1 DEF Kept, Unmoved, From, To, Open, Taken, In
<1>4. /\ sock'[p] \notin DOMAIN links /\ DOMAIN links' = DOMAIN links \cup {sock'[p]}
      /\ links'[sock'[p]].from = p /\ links'[sock'[p]].to = x
  BY <1>1, <1>2 DEF From, To
<1>5. \A n : n = sock'[p] =>
          /\ From(n)' = p /\ To(n)' = x /\ Open(n)' = {p, x} /\ Taken(n)' = FALSE
          /\ In(n, p)' = << >> /\ In(n, x)' = << >>
  BY <1>1, <1>2
<1>6. From(sock[p])' = p /\ To(sock[p])' = x
  BY <1>4 DEF From, To
<1>7. LinksKept
  BY <1>3 DEF LinksKept
<1> QED
  BY <1>3, <1>4, <1>5, <1>6, <1>7

\* What the link that p uses says of p.
OnLink(p) == Uses(p) => LinkInv(sock[p]) /\ KeyInv(sock[p]) /\ PhaseInv(sock[p]) /\ EndInv(sock[p])
Says(p) ==
    /\ asked[p] => /\ Takes(p) /\ ~Agrees(p) /\ ~connected[p] /\ ~Begun(p)
                   /\ ~Runs(p, "accept", "statusOn")
                   /\ ~Runs(p, "reject", "statusOff") /\ ~Runs(p, "reset", "statusOff")
    /\ Uses(p) /\ (Runs(p, "reject", "statusOff") \/ Runs(p, "reset", "statusOff")) =>
          ~Agrees(p) /\ ~connected[p]
    /\ Uses(p) /\ Begun(p) => ~Agrees(p) /\ ~connected[p] /\ Calls(p)
    /\ ui[p] = "connected" => /\ ~Begun(p) /\ ~asked[p]
                              /\ ~Runs(p, "reject", "statusOff") /\ ~Runs(p, "reset", "statusOff")

\* What the end of a link finds in its agreement.
LEMMA Agreement ==
    ASSUME TypeOK, NEW p \in Peers, Local(p), Uses(p)
    PROVE  /\ Takes(p) => /\ Agrees(p) => Accepting(sock[p]) \/ Agreeing(sock[p])
                          /\ connected[p] => Agreeing(sock[p])
                          /\ asked[p] <=> Shown(sock[p])
                          /\ Runs(p, "reject", "statusOff") => Rejecting(sock[p])
           /\ Calls(p) => /\ Agrees(p) \/ connected[p] => AcceptHeld(sock[p])
                          /\ Begun(p) => Unsent(sock[p])
                          /\ ~Runs(p, "reject", "statusOff")
           /\ Runs(p, "reset", "statusOff") => Refusal(sock[p])
           /\ Takes(p) \/ Calls(p)
<1>1. PeerFacts(p)
  BY PeerIs
<1>2. ASSUME NEW c, c = sock[p], From(c) = p
      PROVE  /\ ~Takes(p)
             /\ Agrees(p) \/ connected[p] => AcceptHeld(c)
             /\ Begun(p) => Unsent(c)
             /\ ~Runs(p, "reject", "statusOff")
             /\ Runs(p, "reset", "statusOff") => Refusal(c)
  BY <1>1, <1>2 DEF PeerFacts, Local, PlaceInv, Calls, Takes, Agrees, AcceptHeld, Unsent, Refusal
<1>3. ASSUME NEW c, c = sock[p], To(c) = p
      PROVE  /\ ~Calls(p)
             /\ Agrees(p) => Accepting(c) \/ Agreeing(c)
             /\ connected[p] => Agreeing(c)
             /\ asked[p] <=> Shown(c)
             /\ Runs(p, "reject", "statusOff") => Rejecting(c)
             /\ Runs(p, "reset", "statusOff") => Refusal(c)
  BY <1>1, <1>3 DEF PeerFacts, Local, PlaceInv, Calls, Takes, Agrees, Agreeing, Accepting, Shown, Rejecting, Refusal
<1>4. Takes(p) \/ Calls(p)
  BY <1>1 DEF PeerFacts, Local, SockInv
<1> QED
  BY <1>1, <1>2, <1>3, <1>4 DEF PeerFacts

LEMMA EndSays ==
    ASSUME TypeOK, NEW p \in Peers, Local(p), OnLink(p)
    PROVE  Says(p)
<1>1. PeerFacts(p)
  BY PeerIs
<1>2. asked[p] => Takes(p) /\ ~Begun(p)
  BY DEF Local, PlaceInv
<1>3. CASE Uses(p)
  <2>1. PICK c \in DOMAIN links : c = sock[p]
    BY <1>3 DEF Uses
  <2>2. PhaseInv(c)
    BY <1>3, <2>1 DEF OnLink
  <2>3. /\ Takes(p) => /\ Agrees(p) => Accepting(c) \/ Agreeing(c)
                       /\ connected[p] => Agreeing(c)
                       /\ asked[p] <=> Shown(c)
                       /\ Runs(p, "reject", "statusOff") => Rejecting(c)
        /\ Calls(p) => /\ Agrees(p) \/ connected[p] => AcceptHeld(c)
                       /\ Begun(p) => Unsent(c)
                       /\ ~Runs(p, "reject", "statusOff")
        /\ Runs(p, "reset", "statusOff") => Refusal(c)
        /\ Takes(p) \/ Calls(p)
    BY <1>3, <2>1, Agreement
  <2>4. CASE Takes(p)
    <3>1. ~Begun(p)
      BY <2>4 DEF Local, PlaceInv
    <3>2. asked[p] => /\ ~Agrees(p) /\ ~connected[p]
                      /\ ~Runs(p, "reject", "statusOff") /\ ~Runs(p, "reset", "statusOff")
      BY <2>2, <2>3, <2>4 DEF PhaseInv
    <3>3. Runs(p, "reject", "statusOff") \/ Runs(p, "reset", "statusOff") =>
             ~Agrees(p) /\ ~connected[p]
      BY <2>2, <2>3, <2>4 DEF PhaseInv
    <3>4. ui[p] = "connected" => connected[p] \/ Agrees(p)
      BY DEF Local, WindowInv
    <3> QED
      BY <1>2, <3>1, <3>2, <3>3, <3>4 DEF Says, Agrees
  <2>5. CASE Calls(p)
    <3>1. ~asked[p] /\ ~Runs(p, "reject", "statusOff")
      BY <1>1, <1>2, <2>3, <2>5 DEF PeerFacts
    <3>2. Begun(p) => ~Agrees(p) /\ ~connected[p]
      BY <2>2, <2>3, <2>5 DEF PhaseInv
    <3>3. Runs(p, "reset", "statusOff") => ~Agrees(p) /\ ~connected[p]
      BY <2>2, <2>3, <2>5 DEF PhaseInv
    <3>4. ui[p] = "connected" => connected[p] \/ Agrees(p)
      BY DEF Local, WindowInv
    <3> QED
      BY <1>2, <2>5, <3>1, <3>2, <3>3, <3>4 DEF Says
  <2> QED
    BY <2>3, <2>4, <2>5
<1>4. CASE ~Uses(p)
  BY <1>4 DEF Says, Local, PlaceInv
<1> QED
  BY <1>3, <1>4

\* What the message says that p is about to take.
HeadSays(p, type) ==
    /\ type = "request" => /\ Takes(p) /\ ~asked[p] /\ ~Agrees(p) /\ ~connected[p]
                           /\ ~Resets(p)
    /\ type = "cancel" => Takes(p)
    /\ type = "accept" => /\ Calls(p) /\ ~Begun(p) /\ ~Agrees(p) /\ ~connected[p]
                          /\ ~Runs(p, "reset", "close") /\ ~Runs(p, "reset", "again")
                          /\ ~Runs(p, "reset", "statusOff")
    /\ type = "reject" => /\ Calls(p) /\ ~Begun(p) /\ ~Agrees(p) /\ ~connected[p]
                          /\ ~Runs(p, "reset", "close") /\ ~Runs(p, "reset", "again")

LEMMA HeadMeans ==
    ASSUME TypeOK, NEW p \in Peers, NEW c \in DOMAIN links, c = sock[p], Local(p), OnLink(p),
           In(c, p) # << >>
    PROVE  HeadSays(p, Head(In(c, p)).type)
<1>1. PeerFacts(p) /\ JobRules(p)
  BY PeerIs, JobsAre
<1>2. Uses(p) /\ LinkInv(c) /\ KeyInv(c) /\ PhaseInv(c) /\ EndInv(c)
  BY DEF Uses, OnLink
<1>3. /\ Takes(p) => /\ Agrees(p) => Accepting(c) \/ Agreeing(c)
                     /\ connected[p] => Agreeing(c)
                     /\ asked[p] <=> Shown(c)
                     /\ Runs(p, "reject", "statusOff") => Rejecting(c)
      /\ Calls(p) => /\ Agrees(p) \/ connected[p] => AcceptHeld(c)
                     /\ Begun(p) => Unsent(c)
                     /\ ~Runs(p, "reject", "statusOff")
      /\ Runs(p, "reset", "statusOff") => Refusal(c)
      /\ Takes(p) \/ Calls(p)
  BY <1>2, Agreement
<1>4. In(c, p) \in Seq(Message)
  <2>1. p \in {From(c), To(c)}
    BY <1>3 DEF Takes, Calls
  <2> QED
    BY <2>1, LinkIs DEF TypeOK
<1>5. /\ \A types : Only(In(c, p), types) => Head(In(c, p)).type \in types
      /\ Holds(In(c, p), Head(In(c, p)).type)
  BY <1>4, MessageTaken
<1>6. ~Runs(p, "reset", "again")
  <2>1. p \in {From(c), To(c)}
    BY <1>3 DEF Takes, Calls
  <2> QED
    BY <1>2, <2>1 DEF EndInv, AnswerInv, CancelInv, LastInv
<1>7. ~Runs(p, "reset", "unconnected")
  BY <1>2 DEF Local, PlaceInv
<1>8. Runs(p, "reset", "close") => connected[p] \/ Agrees(p)
  BY <1>2 DEF Local, ConnInv
<1>9. CASE Takes(p)
  <2>1. To(c) = p /\ sock[To(c)] = c
    BY <1>9 DEF Takes
  <2>2. Head(In(c, p)).type \in {"request", "cancel", "ready"}
    BY <1>2, <1>5, <2>1 DEF KeyInv
  <2>3. CASE Head(In(c, p)).type = "request"
    <3>1. Underway(c)
      BY <1>5, <2>1, <2>3 DEF Underway
    <3>2. ~asked[p] /\ ~Agrees(p) /\ ~connected[p]
          /\ ~Runs(p, "reject", "statusOff") /\ ~Runs(p, "reset", "statusOff")
      BY <1>2, <1>3, <1>9, <3>1 DEF PhaseInv
    <3>3. ~Runs(p, "reset", "reset")
      BY <1>2, <2>1, <3>1 DEF EndInv, AnswerInv, CancelInv, LastInv
    <3>4. ~Resets(p)
      BY <1>1, <1>6, <1>7, <1>8, <1>9, <3>2, <3>3 DEF Local, PlaceInv, Resets, TakesBack, Leaves
    <3> QED
      BY <1>9, <2>3, <3>2, <3>4 DEF HeadSays
  <2> QED
    BY <1>9, <2>2, <2>3 DEF HeadSays
<1>10. CASE Calls(p)
  <2>1. From(c) = p /\ sock[From(c)] = c
    BY <1>10 DEF Calls
  <2>2. Head(In(c, p)).type \in {"accept", "reject", "ready"}
    BY <1>2, <1>5, <2>1 DEF KeyInv
  <2>3. CASE Head(In(c, p)).type = "accept"
    <3>1. AcceptSent(c)
      BY <1>5, <2>1, <2>3 DEF AcceptSent
    <3>2. ~Begun(p) /\ ~Agrees(p) /\ ~connected[p] /\ ~Runs(p, "reset", "statusOff")
      BY <1>2, <1>3, <1>10, <3>1 DEF PhaseInv
    <3> QED
      BY <1>6, <1>8, <1>10, <2>3, <3>2 DEF HeadSays
  <2>4. CASE Head(In(c, p)).type = "reject"
    <3>1. Refusal(c)
      BY <1>5, <2>1, <2>4 DEF Refusal
    <3>2. ~Begun(p) /\ ~Agrees(p) /\ ~connected[p]
      BY <1>2, <1>3, <1>10, <3>1 DEF PhaseInv
    <3> QED
      BY <1>6, <1>8, <1>10, <2>4, <3>2 DEF HeadSays
  <2> QED
    BY <1>10, <2>2, <2>3, <2>4 DEF HeadSays
<1> QED
  BY <1>3, <1>9, <1>10

\* What the end of a link that the other end has closed knows.
LEMMA EndSeen ==
    ASSUME TypeOK, NEW p \in Peers, NEW c \in DOMAIN links, c = sock[p], Local(p), OnLink(p),
           In(c, p) = << >>, Other(c, p) \notin Open(c)
    PROVE  ~Begun(p) /\ ui[p] # "asking" /\ ~asked[p]
<1>1. PeerFacts(p)
  BY PeerIs
<1>2. Uses(p) /\ LinkInv(c) /\ EndInv(c)
  BY DEF Uses, OnLink
<1>3. \A type : ~Holds(In(c, p), type)
  BY NoMessage
<1>4. CASE Takes(p)
  <2>1. To(c) = p /\ sock[To(c)] = c /\ From(c) = Other(c, p)
    BY <1>1, <1>4 DEF PeerFacts
  <2>2. ~asked[p]
    BY <1>2, <1>3, <1>4, <2>1 DEF EndInv, AnswerInv, CancelInv, LastInv, LinkInv, Shown
  <2> QED
    BY <1>4, <2>2 DEF Local, PlaceInv
<1>5. CASE Calls(p)
  <2>1. From(c) = p /\ sock[From(c)] = c /\ To(c) = Other(c, p)
    BY <1>1, <1>5 DEF PeerFacts
  <2>2. ~Begun(p) /\ ui[p] # "asking"
    BY <1>2, <1>3, <2>1 DEF EndInv, AnswerInv, CancelInv, LastInv, Unsent, AcceptSent
  <2>3. ~asked[p]
    BY <1>1, <1>5 DEF Local, PlaceInv, PeerFacts
  <2> QED
    BY <2>2, <2>3
<1> QED
  BY <1>1, <1>2, <1>4, <1>5 DEF PeerFacts, Local, SockInv

\* The TLS exchange as p's own steps leave it: p waits for the connection
\* that follows it, or has taken it, ...
LEMMA TlsSelf ==
    ASSUME TypeOK, TypeOK', NEW p \in Peers, LinksKept, AskInv(p), AskInv(p)', TlsInv(p),
           \A r \in Peers : r # p => Same(r) /\ key'[r] = key[r],
           sock'[p] = sock[p], status'[p] = status[p], candidate'[p] = candidate[p], key'[p] = key[p],
           \A c \in DOMAIN links : To(c) = p => Taken(c)' = Taken(c),
           \A c \in DOMAIN links' : To(c)' = p => c \in DOMAIN links,
           status[p] = "tls" /\ Uses(p) /\ Adopts(p, sock[p]) => Adopts(p, sock[p])',
           status[p] = "tls" /\ ~Uses(p) /\ sock[p] = Nobody /\ ~Begun(p) /\ ~Resets(p) /\ ui[p] = "idle" =>
               ~Begun(p)' /\ ~Resets(p)' /\ ui'[p] = "idle"
    PROVE  TlsInv(p)'
<1>1. Uses(p)' <=> Uses(p)
  BY SocketSame
<1>2. \A r \in Peers : /\ Doing(r, "connect", "request", p)' <=> Doing(r, "connect", "request", p)
                       /\ Doing(r, "connect", "request", p) => r # p
  BY DEF Same, AskInv
<1>3. \A c \in DOMAIN links : To(c)' = To(c) /\ From(c)' = From(c) /\ c \in DOMAIN links'
  BY DEF LinksKept, Kept
<1>4. (\A r \in Peers : Doing(r, "connect", "request", p) =>
          /\ status[p] = "tls" /\ sock[p] = Nobody /\ candidate[p] = r /\ key[r] = key[p]
          /\ \A c \in DOMAIN links : To(c) = p => Taken(c))'
  BY <1>2, <1>3 DEF TlsInv
<1>5. (\A c \in DOMAIN links : To(c) = p /\ ~Taken(c) =>
          /\ status[p] = "tls" /\ sock[p] = Nobody /\ candidate[p] = From(c)
          /\ \A d \in DOMAIN links : To(d) = p /\ ~Taken(d) => d = c)'
  BY <1>3 DEF TlsInv
<1>6. (status[p] = "tls" /\ Uses(p) => Adopts(p, sock[p]))'
  BY <1>1 DEF TlsInv
<1>7. (status[p] = "tls" /\ ~Uses(p) =>
          /\ sock[p] = Nobody /\ candidate[p] \in Peers
          /\ \/ Doing(candidate[p], "connect", "request", p)
             \/ \E c \in DOMAIN links : To(c) = p /\ ~Taken(c)
          /\ ~Begun(p) /\ ~Resets(p) /\ ui[p] = "idle")'
  <2> SUFFICES ASSUME status'[p] = "tls", ~Uses(p)'
               PROVE  (/\ sock[p] = Nobody /\ candidate[p] \in Peers
                       /\ \/ Doing(candidate[p], "connect", "request", p)
                          \/ \E c \in DOMAIN links : To(c) = p /\ ~Taken(c)
                       /\ ~Begun(p) /\ ~Resets(p) /\ ui[p] = "idle")'
    OBVIOUS
  <2>1. /\ sock[p] = Nobody /\ candidate[p] \in Peers
        /\ \/ Doing(candidate[p], "connect", "request", p)
           \/ \E c \in DOMAIN links : To(c) = p /\ ~Taken(c)
        /\ ~Begun(p) /\ ~Resets(p) /\ ui[p] = "idle"
    BY <1>1 DEF TlsInv
  <2>2. Doing(candidate[p], "connect", "request", p) => Doing(candidate[p], "connect", "request", p)'
    BY <1>2, <2>1
  <2>3. (\E c \in DOMAIN links : To(c) = p /\ ~Taken(c)) => (\E c \in DOMAIN links : To(c) = p /\ ~Taken(c))'
    BY <1>3
  <2> QED
    BY <1>1, <2>1, <2>2, <2>3
<1> QED
  BY <1>4, <1>5, <1>6, <1>7 DEF TlsInv

\* or it does not wait for one.
LEMMA TlsWaiting ==
    ASSUME TypeOK, TypeOK', NEW p \in Peers, LinksKept, AskInv(p), AskInv(p)', TlsInv(p),
           \A r \in Peers : r # p => Same(r),
           status[p] # "tls" \/ sock[p] # Nobody, status'[p] # "tls",
           \A c \in DOMAIN links : To(c) = p => Taken(c)' = Taken(c),
           \A c \in DOMAIN links' : To(c)' = p => c \in DOMAIN links
    PROVE  TlsInv(p)'
<1>1. \A r \in Peers : ~Doing(r, "connect", "request", p)'
  BY DEF TlsInv, Same, AskInv
<1>2. \A c \in DOMAIN links : To(c)' = To(c) /\ c \in DOMAIN links'
  BY DEF LinksKept, Kept
<1>3. \A c \in DOMAIN links' : To(c)' = p => Taken(c)'
  BY <1>2 DEF TlsInv
<1> QED
  BY <1>1, <1>3 DEF TlsInv

-----------------------------------------------------------------------------
(* A link as its two ends see it                                           *)

\* What is said of a link, by the peer p that made it and uses it, and ...
CallerView(c, p, q) ==
    /\ Unsent(c) <=> Begun(p)
    /\ Underway(c) <=> Holds(In(c, q), "request")
    /\ Shown(c) <=> sock[q] = c /\ asked[q]
    /\ Accepting(c) <=> sock[q] = c /\ Runs(q, "accept", "statusOn")
    /\ Rejecting(c) <=> sock[q] = c /\ Runs(q, "reject", "statusOff")
    /\ Refusal(c) <=> \/ Holds(In(c, p), "reject") \/ Runs(p, "reset", "statusOff")
                      \/ sock[q] = c /\ Runs(q, "reset", "statusOff")
    /\ AcceptSent(c) <=> Holds(In(c, p), "accept")
    /\ AcceptHeld(c) <=> \/ Runs(p, "initLow", "statusOn") \/ Runs(p, "statusOn", "statusOn")
                         \/ connected[p]
    /\ Agreeing(c) <=> /\ sock[q] = c
                       /\ \/ Runs(q, "initHigh", "statusOn") \/ Runs(q, "statusOn", "statusOn")
                          \/ connected[q]
\* by the peer that accepted it and uses it.
TakerView(c, p, q) ==
    /\ Unsent(c) <=> sock[q] = c /\ Begun(q)
    /\ Underway(c) <=> Holds(In(c, p), "request")
    /\ Shown(c) <=> asked[p]
    /\ Accepting(c) <=> Runs(p, "accept", "statusOn")
    /\ Rejecting(c) <=> Runs(p, "reject", "statusOff")
    /\ Refusal(c) <=> \/ Holds(In(c, q), "reject") \/ Runs(p, "reset", "statusOff")
                      \/ sock[q] = c /\ Runs(q, "reset", "statusOff")
    /\ AcceptSent(c) <=> Holds(In(c, q), "accept")
    /\ AcceptHeld(c) <=> /\ sock[q] = c
                         /\ \/ Runs(q, "initLow", "statusOn") \/ Runs(q, "statusOn", "statusOn")
                            \/ connected[q]
    /\ Agreeing(c) <=> \/ Runs(p, "initHigh", "statusOn") \/ Runs(p, "statusOn", "statusOn")
                       \/ connected[p]
\* by neither.
AbsentView(c, f, t) ==
    /\ Unsent(c) <=> sock[f] = c /\ Begun(f)
    /\ Underway(c) <=> Holds(In(c, t), "request")
    /\ Shown(c) <=> sock[t] = c /\ asked[t]
    /\ Accepting(c) <=> sock[t] = c /\ Runs(t, "accept", "statusOn")
    /\ Rejecting(c) <=> sock[t] = c /\ Runs(t, "reject", "statusOff")
    /\ Refusal(c) <=> \/ Holds(In(c, f), "reject")
                      \/ sock[f] = c /\ Runs(f, "reset", "statusOff")
                      \/ sock[t] = c /\ Runs(t, "reset", "statusOff")
    /\ AcceptSent(c) <=> Holds(In(c, f), "accept")
    /\ AcceptHeld(c) <=> /\ sock[f] = c
                         /\ \/ Runs(f, "initLow", "statusOn") \/ Runs(f, "statusOn", "statusOn")
                            \/ connected[f]
    /\ Agreeing(c) <=> /\ sock[t] = c
                       /\ \/ Runs(t, "initHigh", "statusOn") \/ Runs(t, "statusOn", "statusOn")
                          \/ connected[t]

LEMMA Views ==
    ASSUME NEW c, NEW p, NEW q
    PROVE  /\ From(c) = p /\ To(c) = q => AbsentView(c, p, q)
           /\ From(c)' = p /\ To(c)' = q => AbsentView(c, p, q)'
           /\ From(c) = p /\ To(c) = q /\ sock[p] = c => CallerView(c, p, q)
           /\ From(c)' = p /\ To(c)' = q /\ sock'[p] = c => CallerView(c, p, q)'
           /\ From(c) = q /\ To(c) = p /\ sock[p] = c => TakerView(c, p, q)
           /\ From(c)' = q /\ To(c)' = p /\ sock'[p] = c => TakerView(c, p, q)'
  BY DEF AbsentView, CallerView, TakerView, Unsent, Underway, Shown, Accepting, Rejecting, Refusal,
         AcceptSent, AcceptHeld, Agreeing

\* The request and its answer have got no further.
StageSame(c) ==
    /\ Unsent(c)' <=> Unsent(c)
    /\ Underway(c)' <=> Underway(c)
    /\ Shown(c)' <=> Shown(c)
    /\ Accepting(c)' <=> Accepting(c)
    /\ Rejecting(c)' <=> Rejecting(c)
    /\ Refusal(c)' <=> Refusal(c)
    /\ AcceptSent(c)' <=> AcceptSent(c)
    /\ AcceptHeld(c)' <=> AcceptHeld(c)
    /\ Agreeing(c)' <=> Agreeing(c)

\* What says how far the request and the answer on a link are stays, at the
\* end x and ...
EndKept(c, x) ==
    /\ sock'[x] = c <=> sock[x] = c
    /\ sock[x] = c =>
          /\ Begun(x)' <=> Begun(x)
          /\ asked'[x] = asked[x]
          /\ Runs(x, "accept", "statusOn")' <=> Runs(x, "accept", "statusOn")
          /\ Runs(x, "reject", "statusOff")' <=> Runs(x, "reject", "statusOff")
          /\ Runs(x, "reset", "statusOff")' <=> Runs(x, "reset", "statusOff")
          /\ Runs(x, "reset", "reset")' <=> Runs(x, "reset", "reset")
          /\ Runs(x, "reset", "again")' <=> Runs(x, "reset", "again")
          /\ x = From(c) => (Runs(x, "initLow", "statusOn")' \/ Runs(x, "statusOn", "statusOn")' \/ connected'[x]
                             <=> Runs(x, "initLow", "statusOn") \/ Runs(x, "statusOn", "statusOn") \/ connected[x])
          /\ x = To(c) => (Runs(x, "initHigh", "statusOn")' \/ Runs(x, "statusOn", "statusOn")' \/ connected'[x]
                           <=> Runs(x, "initHigh", "statusOn") \/ Runs(x, "statusOn", "statusOn") \/ connected[x])
          /\ Resets(x) => Resets(x)'
          /\ x = To(c) /\ Resets(x)' => Resets(x) \/ ~Unsent(c)
          /\ ui'[x] = "asking" => ui[x] = "asking"
\* in the messages to it.
BoxKept(c, x) ==
    /\ \A type \in {"request", "accept", "reject", "cancel"} :
          /\ Holds(In(c, x), type)' <=> Holds(In(c, x), type)
          /\ AtMostOne(In(c, x), type) => AtMostOne(In(c, x), type)'
    /\ InOrder(In(c, x)) => InOrder(In(c, x))'
    /\ In(c, x) = << >> /\ sock[Other(c, x)] # c => In(c, x)' = << >>

LEMMA StageKept ==
    ASSUME NEW c, NEW p, NEW q, p # q, (From(c) = p /\ To(c) = q) \/ (From(c) = q /\ To(c) = p),
           From(c)' = From(c), To(c)' = To(c), EndKept(c, p), EndKept(c, q), BoxKept(c, p), BoxKept(c, q)
    PROVE  StageSame(c)
<1>1. ASSUME NEW f, NEW t, From(c) = f, To(c) = t, From(c)' = f, To(c)' = t, f # t,
             EndKept(c, f), EndKept(c, t), BoxKept(c, f), BoxKept(c, t)
      PROVE  StageSame(c)
  <2>1. /\ Holds(In(c, t), "request")' <=> Holds(In(c, t), "request")
        /\ Holds(In(c, f), "reject")' <=> Holds(In(c, f), "reject")
        /\ Holds(In(c, f), "accept")' <=> Holds(In(c, f), "accept")
    BY <1>1 DEF BoxKept
  <2>2. AbsentView(c, f, t) /\ AbsentView(c, f, t)'
    BY <1>1, Views
  <2>3. /\ Unsent(c)' <=> Unsent(c)
        /\ Underway(c)' <=> Underway(c)
        /\ Shown(c)' <=> Shown(c)
    BY <1>1, <2>1, <2>2 DEF EndKept, AbsentView
  <2>4. /\ Accepting(c)' <=> Accepting(c)
        /\ Rejecting(c)' <=> Rejecting(c)
    BY <1>1, <2>1, <2>2 DEF EndKept, AbsentView
  <2>5. /\ Refusal(c)' <=> Refusal(c)
        /\ AcceptSent(c)' <=> AcceptSent(c)
    BY <1>1, <2>1, <2>2 DEF EndKept, AbsentView
  <2>6. AcceptHeld(c)' <=> AcceptHeld(c)
    BY <1>1, <2>2 DEF EndKept, AbsentView
  <2>7. Agreeing(c)' <=> Agreeing(c)
    BY <1>1, <2>2 DEF EndKept, AbsentView
  <2> QED
    BY <2>3, <2>4, <2>5, <2>6, <2>7 DEF StageSame
<1> QED
  BY <1>1

\* A link of which nothing changes but what the step is about.
LEMMA LinkKept ==
    ASSUME NEW c, NEW p, NEW q, p # q, (From(c) = p /\ To(c) = q) \/ (From(c) = q /\ To(c) = p),
           From(c)' = From(c), To(c)' = To(c), Open(c)' = Open(c), Taken(c)' = Taken(c),
           \A x : Other(c, x)' = Other(c, x),
           EndKept(c, p), EndKept(c, q), BoxKept(c, p), BoxKept(c, q), LinkInv(c)
    PROVE  PhaseInv(c) => PhaseInv(c)' /\ (EndInv(c) => EndInv(c)')
<1>1. ASSUME NEW f, NEW t, From(c) = f, To(c) = t, From(c)' = f, To(c)' = t, f # t,
             EndKept(c, f), EndKept(c, t), BoxKept(c, f), BoxKept(c, t), StageSame(c)
      PROVE  PhaseInv(c) => PhaseInv(c)' /\ (EndInv(c) => EndInv(c)')
  <2> SUFFICES ASSUME PhaseInv(c)
               PROVE  PhaseInv(c)' /\ (EndInv(c) => EndInv(c)')
    OBVIOUS
  <2>1. /\ AtMostOne(In(c, t), "request") => AtMostOne(In(c, t), "request")'
        /\ AtMostOne(In(c, f), "accept") => AtMostOne(In(c, f), "accept")'
        /\ Holds(In(c, t), "cancel")' <=> Holds(In(c, t), "cancel")
        /\ Holds(In(c, f), "reject")' <=> Holds(In(c, f), "reject")
        /\ InOrder(In(c, t)) => InOrder(In(c, t))'
        /\ In(c, f) = << >> /\ sock[t] # c => In(c, f)' = << >>
        /\ In(c, t) = << >> /\ sock[f] # c => In(c, t)' = << >>
    BY <1>1 DEF BoxKept, Other, From, To
  <2>2. PhaseInv(c)'
    BY <1>1, <2>1 DEF PhaseInv, StageSame
  <2>3. /\ sock'[f] = c <=> sock[f] = c
        /\ sock'[t] = c <=> sock[t] = c
        /\ sock[f] = c => /\ (Resets(f) => Resets(f)') /\ (ui'[f] = "asking" => ui[f] = "asking")
                          /\ (Runs(f, "reset", "reset")' <=> Runs(f, "reset", "reset"))
                          /\ (Runs(f, "reset", "again")' <=> Runs(f, "reset", "again"))
        /\ sock[t] = c => /\ (Resets(t) => Resets(t)') /\ (Resets(t)' => Resets(t) \/ ~Unsent(c))
                          /\ (Runs(t, "reset", "reset")' <=> Runs(t, "reset", "reset"))
                          /\ (Runs(t, "reset", "again")' <=> Runs(t, "reset", "again"))
                          /\ (Runs(t, "reset", "statusOff")' <=> Runs(t, "reset", "statusOff"))
    BY <1>1 DEF EndKept
  <2>4. /\ f \in Open(c) <=> sock[f] = c
        /\ t \in Open(c) <=> (sock[t] = c \/ ~Taken(c))
        /\ sock[t] = c => Taken(c)
    BY <1>1 DEF LinkInv
  <2>5. BothInv(c) => BothInv(c)'
    BY <1>1, <2>3 DEF BothInv, StageSame
  <2>6. AnswerInv(c) => AnswerInv(c)'
    BY <1>1, <2>1, <2>3, <2>4 DEF AnswerInv, StageSame
  <2>7. CancelInv(c) => CancelInv(c)'
    BY <1>1, <2>1, <2>3, <2>4 DEF CancelInv, StageSame
  <2>8. RejectInv(c) => RejectInv(c)'
    BY <1>1, <2>1, <2>3 DEF RejectInv
  <2>9. UntakenInv(c) => UntakenInv(c)'
    BY <1>1, <2>1, <2>4 DEF UntakenInv, StageSame
  <2>10. LastInv(c) => LastInv(c)'
    <3>1. Other(c, f) = t /\ Other(c, t) = f
      BY <1>1 DEF Other, From, To
    <3> QED
      BY <1>1, <2>1, <2>3, <2>4, <3>1 DEF LastInv
  <2> QED
    BY <2>2, <2>5, <2>6, <2>7, <2>8, <2>9, <2>10 DEF EndInv
<1>2. StageSame(c)
  BY StageKept
<1> QED
  BY <1>1, <1>2

\* That y listens, x is told.
Told(c, x, y) ==
    engine[y].listening =>
        \/ Runs(y, "ready", "ready") \/ Holds(In(c, x), "ready")
        \/ Runs(x, "initFileSenders", "initFileSenders") \/ engine[x].senders

\* What ReadyInv and ...
LEMMA ReadyIs ==
    ASSUME NEW c, NEW p, NEW q, p # q, (From(c) = p /\ To(c) = q) \/ (From(c) = q /\ To(c) = p),
           From(c)' = From(c), To(c)' = To(c)
    PROVE  /\ ReadyInv(c) <=> (early = {} /\ sock[p] = c /\ sock[q] = c => Told(c, p, q) /\ Told(c, q, p))
           /\ ReadyInv(c)' <=> (early' = {} /\ sock'[p] = c /\ sock'[q] = c => Told(c, p, q)' /\ Told(c, q, p)')
<1>1. /\ Other(c, p) = q /\ Other(c, q) = p
      /\ Other(c, p)' = q /\ Other(c, q)' = p
  BY DEF Other, From, To
<1>2. ReadyInv(c) <=> (early = {} /\ sock[p] = c /\ sock[q] = c => Told(c, p, q) /\ Told(c, q, p))
  BY <1>1 DEF ReadyInv, Told
<1>3. ReadyInv(c)' <=> (early' = {} /\ sock'[p] = c /\ sock'[q] = c => Told(c, p, q)' /\ Told(c, q, p)')
  BY <1>1 DEF ReadyInv, Told
<1> QED
  BY <1>2, <1>3

\* ... LastInv say of the two ends.
LEMMA LastIs ==
    ASSUME NEW c, NEW p, NEW q, p # q, (From(c) = p /\ To(c) = q) \/ (From(c) = q /\ To(c) = p),
           From(c)' = From(c), To(c)' = To(c)
    PROVE  /\ LastInv(c) <=> /\ sock[p] = c /\ Runs(p, "reset", "again") => In(c, p) = << >> /\ q \notin Open(c)
                             /\ sock[q] = c /\ Runs(q, "reset", "again") => In(c, q) = << >> /\ p \notin Open(c)
           /\ LastInv(c)' <=> /\ sock'[p] = c /\ Runs(p, "reset", "again")' => In(c, p)' = << >> /\ q \notin Open(c)'
                              /\ sock'[q] = c /\ Runs(q, "reset", "again")' => In(c, q)' = << >> /\ p \notin Open(c)'
<1>1. /\ Other(c, p) = q /\ Other(c, q) = p
      /\ Other(c, p)' = q /\ Other(c, q)' = p
  BY DEF Other, From, To
<1> QED
  BY <1>1 DEF LastInv

\* Messages stay in the key of the link.
LEMMA KeyKept ==
    ASSUME NEW c, NEW p, NEW q, p # q, (From(c) = p /\ To(c) = q) \/ (From(c) = q /\ To(c) = p),
           From(c)' = From(c), To(c)' = To(c), Open(c)' = Open(c), Open(c) \subseteq {p, q},
           key'[p] = key[p], key'[q] = key[q],
           p \in Open(c) => Keyed(In(c, p)', key[p]),
           q \in Open(c) => Keyed(In(c, q)', key[q]),
           From(c) = p => Only(In(c, p)', {"accept", "reject", "ready"}) /\ Only(In(c, q)', {"request", "cancel", "ready"}),
           From(c) = q => Only(In(c, q)', {"accept", "reject", "ready"}) /\ Only(In(c, p)', {"request", "cancel", "ready"}),
           KeyInv(c)
    PROVE  KeyInv(c)'
<1>1. \A x \in Open(c)' : Keyed(In(c, x)', key'[x])
  OBVIOUS
<1>2. Open(c)' = {From(c)', To(c)'} => key'[From(c)'] = key'[To(c)']
  BY DEF KeyInv
<1>3. Only(In(c, From(c))', {"accept", "reject", "ready"}) /\ Only(In(c, To(c))', {"request", "cancel", "ready"})
  <2>1. CASE From(c) = p /\ To(c) = q
    BY <2>1
  <2>2. CASE From(c) = q /\ To(c) = p
    BY <2>2
  <2> QED
    BY <2>1, <2>2
<1> QED
  BY <1>1, <1>2, <1>3 DEF KeyInv

\* A link that p does not use is left alone by what p does.
LEMMA LinkElsewhere ==
    ASSUME TypeOK, TypeOK', NEW c \in DOMAIN links, c \in DOMAIN links',
           Kept(c), Unmoved(c), Open(c)' = Open(c), Taken(c)' = Taken(c),
           early' = {} => early = {},
           NEW p \in Peers, sock[p] # c, sock'[p] # c,
           \A r \in Peers : r # p =>
               /\ Same(r)
               /\ UNCHANGED <<sock[r], asked[r], connected[r], ui[r], engine[r]>>,
           \A r \in Open(c) : key'[r] = key[r],
           LinkInv(c)
    PROVE  /\ LinkInv(c)'
           /\ KeyInv(c) => KeyInv(c)'
           /\ PhaseInv(c) => PhaseInv(c)' /\ (EndInv(c) => EndInv(c)')
           /\ ReadyInv(c) => ReadyInv(c)'
<1>1. PICK f \in Peers, t \in Peers :
          /\ From(c) = f /\ To(c) = t /\ From(c)' = f /\ To(c)' = t
          /\ In(c, f)' = In(c, f) /\ In(c, t)' = In(c, t) /\ Open(c) \subseteq {f, t} /\ f # t
  BY LinkIs DEF TypeOK, Kept, Unmoved
<1>2. \A r \in Peers : r # p =>
         /\ \A s, l : Runs(r, s, l)' <=> Runs(r, s, l)
         /\ Begun(r)' <=> Begun(r)
         /\ Resets(r)' <=> Resets(r)
         /\ sock'[r] = sock[r] /\ asked'[r] = asked[r]
         /\ connected'[r] = connected[r] /\ ui'[r] = ui[r] /\ engine'[r] = engine[r]
  BY JobsSame
<1>3. \A r : Other(c, r)' = Other(c, r)
  BY DEF Other, Kept, From, To
<1>4. LinkInv(c)'
  BY <1>1, <1>2 DEF LinkInv
<1>5. KeyInv(c) => KeyInv(c)'
  BY <1>1 DEF KeyInv
<1>6. ASSUME NEW x \in {f, t}
      PROVE  EndKept(c, x) /\ BoxKept(c, x)
  BY <1>1, <1>2, <1>6 DEF EndKept, BoxKept
<1>7. PhaseInv(c) => PhaseInv(c)' /\ (EndInv(c) => EndInv(c)')
  BY <1>1, <1>3, <1>6, LinkKept
<1>8. ASSUME NEW x \in {f, t}, NEW y \in {f, t}, sock[x] = c, sock[y] = c
      PROVE  Told(c, x, y) => Told(c, x, y)'
  BY <1>1, <1>2, <1>8 DEF Told
<1>9. ReadyInv(c) => ReadyInv(c)'
  <2>1. \A x \in {f, t} : sock'[x] = c => sock[x] = c
    BY <1>1, <1>2
  <2> QED
    BY <1>1, <1>8, <2>1, ReadyIs
<1> QED
  BY <1>4, <1>5, <1>7, <1>9

\* The other end, q, of a link as a step of p finds and leaves it.
LEMMA OtherEnd ==
    ASSUME TypeOK, NEW q \in Peers, Untouched(q), SameKey(q)
    PROVE  /\ sock'[q] = sock[q] /\ key'[q] = key[q] /\ asked'[q] = asked[q] /\ connected'[q] = connected[q]
           /\ ui'[q] = ui[q] /\ engine'[q] = engine[q]
           /\ \A h, l : Runs(q, h, l)' <=> Runs(q, h, l)
           /\ (Begun(q)' <=> Begun(q)) /\ (Resets(q)' <=> Resets(q)) /\ JobRules(q)
<1>1. Same(q)
  BY DEF Untouched
<1> QED
  BY <1>1, JobsSame, JobsAre DEF Untouched, SameKey

\* The reasons for which a peer leaves its link.
LeavesFor(p) ==
    \/ Runs(p, "reset", "reset") \/ Runs(p, "reset", "statusOff")
    \/ (Runs(p, "reset", "close") /\ connected[p])
    \/ Runs(p, "reset", "again")

\* A link that p leaves.
LEMMA LinkLeft ==
    ASSUME TypeOK, TypeOK', NEW p \in Peers, NEW c \in DOMAIN links, c = sock[p],
           NEW q \in Peers, q = Other(c, p), Local(p), Local(q), OnLink(p),
           sock'[p] = Nobody, c \in DOMAIN links', Kept(c), Unmoved(c), Taken(c)' = Taken(c),
           Open(c)' = Open(c) \ {p}, Untouched(q), SameKey(q), LeavesFor(p)
    PROVE  LinkInv(c)' /\ KeyInv(c)' /\ PhaseInv(c)' /\ EndInv(c)' /\ ReadyInv(c)'
<1>1. /\ q # p /\ Open(c) \subseteq {p, q} /\ sock'[p] # c /\ Uses(p)
      /\ (From(c) = p /\ To(c) = q) \/ (From(c) = q /\ To(c) = p)
      /\ LinkInv(c) /\ KeyInv(c) /\ PhaseInv(c) /\ EndInv(c)
  <2>1. Uses(p) /\ p \in {From(c), To(c)}
    BY DEF Uses, Local, SockInv
  <2>2. Nobody # c
    BY LinkIs DEF TypeOK
  <2> QED
    BY <2>1, <2>2, LinkIs DEF OnLink, TypeOK, Other, From, To
<1>2. /\ sock'[q] = sock[q] /\ key'[q] = key[q] /\ asked'[q] = asked[q] /\ connected'[q] = connected[q]
      /\ ui'[q] = ui[q] /\ engine'[q] = engine[q]
      /\ \A h, l : Runs(q, h, l)' <=> Runs(q, h, l)
      /\ (Begun(q)' <=> Begun(q)) /\ (Resets(q)' <=> Resets(q)) /\ JobRules(q)
  BY OtherEnd
<1>3. /\ From(c)' = From(c) /\ To(c)' = To(c)
      /\ In(c, p)' = In(c, p) /\ In(c, q)' = In(c, q)
  BY <1>1 DEF Kept, Unmoved
<1>4. LinkInv(c)'
  BY <1>1, <1>2, <1>3 DEF LinkInv
<1>5. KeyInv(c)'
  <2>1. \A x \in Open(c)' : Keyed(In(c, x)', key'[x])
    BY <1>1, <1>2, <1>3 DEF KeyInv
  <2>2. Open(c)' # {From(c)', To(c)'}
    BY <1>1, <1>3
  <2>3. Only(In(c, From(c))', {"accept", "reject", "ready"}) /\ Only(In(c, To(c))', {"request", "cancel", "ready"})
    <3>1. CASE From(c) = p /\ To(c) = q
      BY <1>1, <1>3, <3>1 DEF KeyInv
    <3>2. CASE From(c) = q /\ To(c) = p
      BY <1>1, <1>3, <3>2 DEF KeyInv
    <3> QED
      BY <1>1, <3>1, <3>2
  <2> QED
    BY <1>3, <2>1, <2>2, <2>3 DEF KeyInv
<1>6. ReadyInv(c)'
  BY <1>1, <1>3, ReadyIs
<1>7. JobRules(p) /\ PeerFacts(p) /\ PeerFacts(q)
  BY JobsAre, PeerIs
<1>8. Resets(p) /\ p \in Open(c)
  BY <1>1, <1>7 DEF LeavesFor, JobRules, LinkInv
<1>9. LastInv(c)'
  <2>1. LastInv(c)
    BY <1>1 DEF EndInv
  <2>2. sock[q] = c /\ Runs(q, "reset", "again") => In(c, q) = << >> /\ p \notin Open(c)
    BY <1>1, <1>3, <2>1, LastIs
  <2> QED
    BY <1>1, <1>2, <1>3, <2>2, LastIs
<1>10. Runs(p, "reset", "again") => q \notin Open(c)
  <2>1. LastInv(c)
    BY <1>1 DEF EndInv
  <2> QED
    BY <1>1, <1>3, <2>1, LastIs
<1>11. CASE From(c) = p /\ To(c) = q
  <2>1. CallerView(c, p, q) /\ AbsentView(c, p, q)'
    BY <1>3, <1>11, Views
  <2>2. /\ ~Unsent(c)' /\ ~AcceptHeld(c)'
        /\ Underway(c)' <=> Underway(c)
        /\ Shown(c)' <=> Shown(c)
        /\ Accepting(c)' <=> Accepting(c)
        /\ Rejecting(c)' <=> Rejecting(c)
        /\ AcceptSent(c)' <=> AcceptSent(c)
    BY <1>1, <1>2, <1>3, <2>1 DEF CallerView, AbsentView
  <2>3. /\ Refusal(c)' => Refusal(c)
        /\ Agreeing(c)' <=> Agreeing(c)
    BY <1>1, <1>2, <1>3, <2>1 DEF CallerView, AbsentView
  <2>4. PhaseInv(c)'
    BY <1>1, <1>3, <1>11, <2>2, <2>3 DEF PhaseInv
  <2>5. BothInv(c)' /\ RejectInv(c)' /\ UntakenInv(c)'
    BY <1>1, <1>2, <1>3, <1>11, <2>2, <2>3 DEF EndInv, BothInv, RejectInv, UntakenInv
  <2>6. AnswerInv(c)'
    BY <1>1, <1>3, <1>11 DEF AnswerInv
  <2>7. CancelInv(c)'
    <3>1. CancelInv(c)
      BY <1>1 DEF EndInv
    <3>2. (Underway(c) \/ Shown(c)) /\ q \in Open(c) => Holds(In(c, q), "cancel")
      <4>1. Runs(p, "reset", "statusOff") => Refusal(c)
        BY <2>1 DEF CallerView
      <4>2. connected[p] => AcceptHeld(c)
        BY <2>1 DEF CallerView
      <4>3. Runs(p, "reset", "reset") /\ (Underway(c) \/ Shown(c)) /\ q \in Open(c) => Holds(In(c, q), "cancel")
        BY <1>11, <3>1 DEF CancelInv
      <4> QED
        BY <1>1, <1>10, <4>1, <4>2, <4>3 DEF LeavesFor, PhaseInv
    <3> QED
      BY <1>1, <1>2, <1>3, <1>11, <2>2, <3>1, <3>2 DEF CancelInv
  <2> QED
    BY <1>4, <1>5, <1>6, <1>9, <2>4, <2>5, <2>6, <2>7 DEF EndInv
<1>12. CASE From(c) = q /\ To(c) = p
  <2>1. TakerView(c, p, q) /\ AbsentView(c, q, p)'
    BY <1>3, <1>12, Views
  <2>2. /\ Unsent(c)' <=> Unsent(c)
        /\ Underway(c)' <=> Underway(c)
        /\ ~Shown(c)' /\ ~Accepting(c)' /\ ~Rejecting(c)' /\ ~Agreeing(c)'
        /\ AcceptSent(c)' <=> AcceptSent(c)
    BY <1>1, <1>2, <1>3, <2>1 DEF TakerView, AbsentView
  <2>3. /\ Refusal(c)' => Refusal(c)
        /\ AcceptHeld(c)' <=> AcceptHeld(c)
    BY <1>1, <1>2, <1>3, <2>1 DEF TakerView, AbsentView
  <2>4. PhaseInv(c)'
    BY <1>1, <1>3, <1>12, <2>2, <2>3 DEF PhaseInv
  <2>5. BothInv(c)' /\ RejectInv(c)' /\ UntakenInv(c)'
    BY <1>1, <1>2, <1>3, <1>12, <2>2, <2>3 DEF EndInv, BothInv, RejectInv, UntakenInv
  <2>6. AnswerInv(c)'
    <3> SUFFICES ASSUME sock[q] = c, ui[q] = "asking"
                 PROVE  AcceptSent(c) \/ Holds(In(c, q), "reject")
      BY <1>1, <1>2, <1>3, <1>12, <2>2 DEF AnswerInv
    <3>1. ~Resets(q) /\ q \in Open(c)
      BY <1>1, <1>12 DEF Local, WindowInv, LinkInv
    <3>2. CASE Runs(p, "reset", "reset")
      <4>1. Runs(q, "reset", "reset")
        BY <1>1, <1>12, <3>2 DEF EndInv, CancelInv
      <4> QED
        BY <1>2, <3>1, <4>1 DEF JobRules
    <3>3. CASE Runs(p, "reset", "statusOff")
      BY <1>1, <1>12, <3>1, <3>3 DEF EndInv, RejectInv
    <3>4. CASE connected[p]
      <4>1. Agreeing(c)
        BY <2>1, <3>4 DEF TakerView
      <4>2. AcceptSent(c) \/ AcceptHeld(c)
        BY <1>1, <1>12, <4>1 DEF EndInv, BothInv
      <4>3. ~connected[q] /\ ~Agrees(q)
        <5>1. ~Closes(q)
          BY <1>2, <1>7, <1>1 DEF JobRules, PeerFacts, Local, SockInv
        <5> QED
          BY <1>2, <3>1, <5>1 DEF Local, WindowInv, JobRules
      <4>4. ~AcceptHeld(c)
        BY <1>2, <2>1, <4>3 DEF TakerView, JobRules
      <4> QED
        BY <4>2, <4>4
    <3>5. CASE Runs(p, "reset", "again")
      BY <1>10, <3>1, <3>5
    <3> QED
      BY <3>2, <3>3, <3>4, <3>5 DEF LeavesFor
  <2>7. CancelInv(c)'
    <3>1. CancelInv(c)
      BY <1>1 DEF EndInv
    <3>2. ~Unsent(c)
      BY <1>8, <1>12, <3>1 DEF CancelInv
    <3> QED
      BY <1>1, <1>2, <1>3, <1>12, <2>2, <3>1, <3>2 DEF CancelInv
  <2> QED
    BY <1>4, <1>5, <1>6, <1>9, <2>4, <2>5, <2>6, <2>7 DEF EndInv
<1> QED
  BY <1>1, <1>11, <1>12

\* A link that p accepts.
LEMMA LinkTaken ==
    ASSUME TypeOK, TypeOK', NEW p \in Peers, NEW c \in DOMAIN links, AcceptDoes(p, c),
           NEW q \in Peers, q = From(c), Local(p), TlsInv(p), Local(q), OnLink(p),
           ~Doomed(p), ~Doomed(p)', From(c) = candidate[p],
           LinkInv(c), KeyInv(c), PhaseInv(c), EndInv(c)
    PROVE  LinkInv(c)' /\ KeyInv(c)' /\ PhaseInv(c)' /\ EndInv(c)' /\ ReadyInv(c)'
<1>1. /\ ~Uses(p) /\ ~Begun(p) /\ ~Resets(p) /\ ~Agrees(p) /\ ~asked[p] /\ ~connected[p]
      /\ ~Starting(p) /\ ~Closes(p) /\ ~Leaves(p) /\ ~Runs(p, "stop", "stop")
  <2>1. JobRules(p) /\ PeerFacts(p)
    BY JobsAre, PeerIs
  <2>2. sock[p] = Nobody
    BY DEF AcceptDoes, TlsInv
  <2>3. ~Uses(p)
    BY <2>1, <2>2 DEF PeerFacts
  <2>4. ~Begun(p) /\ ~Resets(p) /\ ui[p] = "idle"
    BY <2>3 DEF TlsInv, AcceptDoes
  <2>5. ~Ended(p)
    BY DEF Local, SockInv, AcceptDoes
  <2> QED
    BY <2>1, <2>3, <2>4, <2>5 DEF JobRules, Local, ConnInv, PlaceInv
<1>2. /\ q # p /\ Open(c) \subseteq {p, q} /\ sock'[p] = c /\ sock[p] # c
      /\ From(c) = q /\ To(c) = p /\ ~Taken(c)
      /\ asked'[p] = asked[p] /\ connected'[p] = connected[p] /\ key'[p] = key[p]
      /\ engine'[p] = engine[p] /\ early' = early
  BY <1>1, LinkIs DEF AcceptDoes, TypeOK, Uses
<1>3. /\ sock'[q] = sock[q] /\ key'[q] = key[q] /\ asked'[q] = asked[q] /\ connected'[q] = connected[q]
      /\ ui'[q] = ui[q] /\ engine'[q] = engine[q]
      /\ \A h, l : Runs(q, h, l)' <=> Runs(q, h, l)
      /\ (Begun(q)' <=> Begun(q)) /\ (Resets(q)' <=> Resets(q)) /\ JobRules(q)
  BY <1>2, OtherEnd DEF AcceptDoes
<1>4. /\ From(c)' = From(c) /\ To(c)' = To(c) /\ Open(c)' = Open(c) /\ Taken(c)'
      /\ In(c, p)' = In(c, p) /\ In(c, q)' = In(c, q)
  BY <1>2 DEF AcceptDoes, Kept, Unmoved
<1>5. /\ \A l : l # "established" => \A h : Runs(p, h, l)' <=> Runs(p, h, l)
      /\ ~Resets(p)'
  <2>1. \A l : l # "established" => \A h : Runs(p, h, l)' <=> Runs(p, h, l)
    BY DEF AcceptDoes, Gets, Runs
  <2> QED
    BY <1>1, <2>1 DEF Resets, TakesBack, Leaves
<1>6. /\ ~Runs(p, "accept", "statusOn") /\ ~Runs(p, "initHigh", "statusOn") /\ ~Runs(p, "statusOn", "statusOn")
      /\ ~Runs(p, "reject", "statusOff") /\ ~Runs(p, "reset", "statusOff") /\ ~Runs(p, "reset", "reset")
      /\ ~Runs(p, "reset", "again")
  BY <1>1, JobsAre DEF JobRules
<1>7. AbsentView(c, q, p) /\ TakerView(c, p, q)'
  BY <1>2, <1>4, Views
<1>8. /\ Unsent(c)' <=> Unsent(c)
      /\ Underway(c)' <=> Underway(c)
      /\ ~Shown(c)' /\ ~Accepting(c)' /\ ~Rejecting(c)' /\ ~Agreeing(c)'
      /\ ~Shown(c) /\ ~Accepting(c) /\ ~Rejecting(c) /\ ~Agreeing(c)
  BY <1>1, <1>2, <1>3, <1>4, <1>5, <1>6, <1>7 DEF TakerView, AbsentView
<1>9. /\ Refusal(c)' <=> Refusal(c)
      /\ AcceptSent(c)' <=> AcceptSent(c)
      /\ AcceptHeld(c)' <=> AcceptHeld(c)
  BY <1>1, <1>2, <1>3, <1>4, <1>5, <1>6, <1>7 DEF TakerView, AbsentView
<1>10. ~AcceptSent(c) /\ ~AcceptHeld(c) /\ ~Refusal(c)
  <2>1. In(c, q) = << >> /\ ~AcceptHeld(c) /\ ~Refusal(c)
    BY <1>2 DEF EndInv, UntakenInv
  <2> QED
    BY <1>2, <2>1, NoMessage DEF AcceptSent
<1>11. LinkInv(c)'
  BY <1>2, <1>3, <1>4 DEF LinkInv
<1>12. KeyInv(c)'
  <2>1. /\ p \in Open(c) => Keyed(In(c, p)', key[p])
        /\ q \in Open(c) => Keyed(In(c, q)', key[q])
        /\ Only(In(c, q)', {"accept", "reject", "ready"}) /\ Only(In(c, p)', {"request", "cancel", "ready"})
    BY <1>2, <1>4 DEF KeyInv
  <2> QED
    BY <1>2, <1>3, <1>4, <2>1, KeyKept
<1>13. PhaseInv(c)'
  BY <1>2, <1>4, <1>8, <1>9 DEF PhaseInv
<1>14. BothInv(c)' /\ RejectInv(c)' /\ UntakenInv(c)'
  BY <1>2, <1>4, <1>5, <1>6, <1>8, <1>9, <1>10 DEF BothInv, RejectInv, UntakenInv
<1>15. p \in Open(c)
  BY <1>2 DEF LinkInv
<1>16. AnswerInv(c)'
  <2>1. AnswerInv(c)
    BY DEF EndInv
  <2> QED
    BY <1>2, <1>3, <1>4, <1>8, <1>10, <1>15, <2>1 DEF AnswerInv
<1>17. CancelInv(c)'
  <2>1. CancelInv(c)
    BY DEF EndInv
  <2>2. ~Runs(p, "reset", "reset")'
    BY <1>5, <1>6
  <2> QED
    BY <1>2, <1>3, <1>4, <1>5, <1>8, <2>1, <2>2 DEF CancelInv
<1>18. LastInv(c)'
  <2>1. ~Runs(p, "reset", "again")'
    BY <1>5, <1>6
  <2>2. LastInv(c)
    BY DEF EndInv
  <2>3. ~(sock[q] = c /\ Runs(q, "reset", "again"))
    BY <1>2, <1>4, <1>15, <2>2, LastIs
  <2> QED
    BY <1>2, <1>3, <1>4, <2>1, <2>3, LastIs
<1>19. ReadyInv(c)'
  <2>1. PeerFacts(p) /\ PeerFacts(q)
    BY PeerIs
  <2>2. ~engine[p].listening
    <3>1. ~engine[p].started
      BY <1>1, <1>6, <2>1 DEF Local, EngineInv
    <3>2. ~\E y \in Peers \cup {Nobody} : Doing(p, "started", "started", y)
      BY <1>1 DEF Starting, Starts
    <3> QED
      BY <3>1, <3>2 DEF Local, EngineInv
  <2>3. sock[q] = c => ~engine[q].listening
    <3> SUFFICES ASSUME sock[q] = c
                 PROVE  ~engine[q].listening
      OBVIOUS
    <3>1. ~Ended(q)
      BY <2>1 DEF Local, SockInv, PeerFacts
    <3>2. ~connected[q] /\ ~Runs(q, "statusOn", "statusOn")
      BY <1>7, <1>10 DEF AbsentView
    <3>3. ~engine[q].started /\ ~Starting(q)
      BY <1>3, <3>1, <3>2 DEF Local, EngineInv, JobRules
    <3>4. ~\E y \in Peers \cup {Nobody} : Doing(q, "started", "started", y)
      BY <3>3 DEF Starting, Starts
    <3> QED
      BY <3>3, <3>4 DEF Local, EngineInv
  <2>4. (Told(c, p, q)' /\ Told(c, q, p)') \/ sock'[q] # c
    BY <1>2, <1>3, <2>2, <2>3 DEF Told
  <2> QED
    BY <1>2, <1>4, <2>4, ReadyIs
<1> QED
  BY <1>11, <1>12, <1>13, <1>14, <1>16, <1>17, <1>18, <1>19 DEF EndInv

\* A link that p makes.
LEMMA LinkBegun ==
    ASSUME TypeOK, TypeOK', NEW p \in Peers, NEW x, ConnectDoes(p, x), Local(p), TlsInv(x),
           NEW n, n = sock'[p]
    PROVE  LinkInv(n)' /\ KeyInv(n)' /\ PhaseInv(n)' /\ EndInv(n)' /\ ReadyInv(n)'
<1>1. /\ x \in Peers /\ x # p /\ n \notin DOMAIN links
      /\ From(n)' = p /\ To(n)' = x /\ Open(n)' = {p, x} /\ Taken(n)' = FALSE
      /\ In(n, p)' = << >> /\ In(n, x)' = << >>
  <2>1. /\ sock'[p] \notin DOMAIN links
        /\ \A m : m = sock'[p] =>
              /\ From(m)' = p /\ To(m)' = x /\ Open(m)' = {p, x} /\ Taken(m)' = FALSE
              /\ In(m, p)' = << >> /\ In(m, x)' = << >>
    BY ConnectMakes
  <2>2. x \in Peers /\ x # p
    BY DEF ConnectDoes
  <2> QED
    BY <2>1, <2>2
<1>2. /\ Doing(p, "connect", "request", x) /\ Doing(p, "recvMsg", "request", x)'
      /\ \A l : l # "request" => \A h : Runs(p, h, l)' <=> Runs(p, h, l)
      /\ Untouched(x) /\ SameKey(x) /\ key'[p] = key[p] /\ connected'[p] = connected[p]
  BY <1>1 DEF ConnectDoes, Advances, Runs
<1>3. sock[x] = Nobody /\ key[p] = key[x] /\ sock'[x] # n
  <2>1. sock[x] = Nobody /\ key[p] = key[x]
    BY <1>2 DEF TlsInv
  <2>2. n # Nobody
    BY PeerIsNext, ConnectMakes
  <2> QED
    BY <1>2, <2>1, <2>2 DEF Untouched
<1>4. JobRules(p) /\ PeerFacts(p) /\ JobRules(p)'
  BY JobsAre, PeerIs
<1>5. /\ ~Leaves(p) /\ ~Agrees(p) /\ ~connected[p]
  <2>1. sock[p] = Fresh /\ Begun(p)
    BY <1>1, <1>2 DEF Local, AskInv, Begun, Asks
  <2>2. ~Uses(p) /\ ~Ended(p)
    BY <1>4, <2>1 DEF PeerFacts, Local, SockInv
  <2> QED
    BY <1>4, <2>1, <2>2 DEF Local, AskInv, PlaceInv, ConnInv, JobRules
<1>6. /\ ~Runs(p, "reset", "statusOff")' /\ ~Runs(p, "reset", "again")'
      /\ ~Runs(p, "initLow", "statusOn")' /\ ~Runs(p, "statusOn", "statusOn")'
      /\ ~Runs(p, "reset", "reset")'
  BY <1>2, <1>4, <1>5 DEF JobRules
<1>7. Begun(p)'
  BY <1>1, <1>2 DEF Begun, Asks
<1>8. \A type : /\ ~Holds(In(n, p)', type) /\ ~Holds(In(n, x)', type)
                /\ AtMostOne(In(n, p)', type) /\ AtMostOne(In(n, x)', type)
  BY <1>1, NoMessage
<1>9. CallerView(n, p, x)'
  BY <1>1, Views
<1>10. /\ Unsent(n)' /\ ~Underway(n)' /\ ~Shown(n)' /\ ~Accepting(n)' /\ ~Rejecting(n)'
       /\ ~Refusal(n)' /\ ~AcceptSent(n)' /\ ~AcceptHeld(n)' /\ ~Agreeing(n)'
  BY <1>2, <1>3, <1>5, <1>6, <1>7, <1>8, <1>9 DEF CallerView
<1>11. LinkInv(n)'
  BY <1>1, <1>3 DEF LinkInv
<1>12. KeyInv(n)'
  <2>1. \A k, types : Keyed(<< >>, k) /\ Only(<< >>, types)
    BY DEF Keyed, Only
  <2>2. key'[p] = key'[x]
    BY <1>2, <1>3 DEF SameKey
  <2> QED
    BY <1>1, <2>1, <2>2 DEF KeyInv
<1>13. PhaseInv(n)'
  BY <1>1, <1>8, <1>10 DEF PhaseInv
<1>14. BothInv(n)' /\ RejectInv(n)' /\ UntakenInv(n)' /\ AnswerInv(n)'
  BY <1>1, <1>3, <1>8, <1>10 DEF BothInv, RejectInv, UntakenInv, AnswerInv
<1>15. CancelInv(n)'
  <2>1. InOrder(<< >>)
    BY DEF InOrder
  <2> QED
    BY <1>1, <1>3, <1>6, <1>8, <1>10, <2>1 DEF CancelInv
<1>16. LastInv(n)'
  BY <1>1, <1>3, <1>6 DEF LastInv
<1>17. ReadyInv(n)'
  BY <1>1, <1>3 DEF ReadyInv
<1> QED
  BY <1>11, <1>12, <1>13, <1>14, <1>15, <1>16, <1>17 DEF EndInv

-----------------------------------------------------------------------------
(* A step of p keeps what is said of the link that p uses: XLink is about  *)
(* the step that XDoes describes.  Here the steps of the user, of the      *)
(* driver and of the first handlers; the others are in SessionLinkProofs.  *)

LEMMA UserCancelsLink ==
    ASSUME TypeOK, TypeOK', NEW p \in Peers, NEW c \in DOMAIN links, Local(p), TlsInv(p), OnLink(p),
           UserCancelsDoes(p), mishaps' = {}, ~Doomed(p), ~Doomed(p)',
           c = sock[p], NEW q \in Peers, q = Other(c, p), Local(q), ReadyInv(c)
    PROVE  LinkInv(c)' /\ KeyInv(c)' /\ PhaseInv(c)' /\ EndInv(c)' /\ ReadyInv(c)'
<1>1. /\ Runs(p, "accept", "statusOn")' <=> Runs(p, "accept", "statusOn")
      /\ Runs(p, "initHigh", "statusOn")' <=> Runs(p, "initHigh", "statusOn")
      /\ Runs(p, "initLow", "statusOn")' <=> Runs(p, "initLow", "statusOn")
      /\ Runs(p, "statusOn", "statusOn")' <=> Runs(p, "statusOn", "statusOn")
      /\ Runs(p, "cancel", "reset")'
      /\ Runs(p, "reset", "reset")' <=> Runs(p, "reset", "reset")
      /\ Runs(p, "reject", "statusOff")' <=> Runs(p, "reject", "statusOff")
      /\ Runs(p, "reset", "statusOff")' <=> Runs(p, "reset", "statusOff")
      /\ Runs(p, "statusOff", "statusOff")' <=> Runs(p, "statusOff", "statusOff")
      /\ Runs(p, "reset", "close")' <=> Runs(p, "reset", "close")
      /\ Runs(p, "close", "close")' <=> Runs(p, "close", "close")
      /\ Runs(p, "reset", "unconnected")' <=> Runs(p, "reset", "unconnected")
      /\ Runs(p, "lost", "unconnected")' <=> Runs(p, "lost", "unconnected")
      /\ Runs(p, "unconnected", "unconnected")' <=> Runs(p, "unconnected", "unconnected")
      /\ Runs(p, "reset", "again")' <=> Runs(p, "reset", "again")
      /\ Runs(p, "lost", "again")' <=> Runs(p, "lost", "again")
      /\ Runs(p, "again", "again")' <=> Runs(p, "again", "again")
      /\ Runs(p, "stop", "stop")' <=> Runs(p, "stop", "stop")
      /\ Runs(p, "ready", "ready")' <=> Runs(p, "ready", "ready")
      /\ Runs(p, "initFileSenders", "initFileSenders")' <=> Runs(p, "initFileSenders", "initFileSenders")
      /\ \A y : Doing(p, "dial", "request", y)' <=> Doing(p, "dial", "request", y)
      /\ \A y : Doing(p, "exchange", "request", y)' <=> Doing(p, "exchange", "request", y)
      /\ \A y : Doing(p, "connect", "request", y)' <=> Doing(p, "connect", "request", y)
      /\ \A y : Doing(p, "recvMsg", "request", y)' <=> Doing(p, "recvMsg", "request", y)
      /\ \A y : Doing(p, "request", "request", y)' <=> Doing(p, "request", "request", y)
      /\ \A y : Doing(p, "recvMsg", "established", y)' <=> Doing(p, "recvMsg", "established", y)
      /\ \A y : Doing(p, "established", "established", y)' <=> Doing(p, "established", "established", y)
      /\ \A y : Doing(p, "listen", "started", y)' <=> Doing(p, "listen", "started", y)
      /\ \A y : Doing(p, "started", "started", y)' <=> Doing(p, "started", "started", y)
  BY DEF UserCancelsDoes, Gets, Runs
<1>2. /\ Begun(p)' <=> Begun(p)
      /\ \A y : Asks(p, y)' <=> Asks(p, y)
      /\ ToDial(p)' <=> ToDial(p)
      /\ \A y : Adopts(p, y)' <=> Adopts(p, y)
      /\ Starting(p)' <=> Starting(p)
      /\ \A y : Starts(p, y)' <=> Starts(p, y)
      /\ Agrees(p)' <=> Agrees(p)
      /\ Leaves(p)' <=> Leaves(p)
      /\ Closes(p)' <=> Closes(p)
      /\ Ended(p)' <=> Ended(p)
  BY <1>1 DEF Adopts, Agrees, Asks, Begun, Closes, Ended, Leaves, Starting, Starts, ToDial
<1>3. LinksKept /\ DOMAIN links' = DOMAIN links
  BY LinksStay DEF UserCancelsDoes, TypeOK, LinksKept
<1>4. /\ Uses(p)' <=> Uses(p)
      /\ Calls(p)' <=> Calls(p)
      /\ Takes(p)' <=> Takes(p)
      /\ Uses(p) => /\ From(sock[p])' = From(sock[p]) /\ To(sock[p])' = To(sock[p])
                    /\ Other(sock[p], p)' = Other(sock[p], p)
  BY <1>3, SocketSame DEF UserCancelsDoes
<1>7. PeerFacts(p) /\ JobRules(p) /\ JobRules(p)' /\ Says(p)
  BY PeerIs, JobsAre, EndSays
<1>8. /\ status'[p] \in {"waiting", "tls", "tcp"} /\ sock'[p] \in DOMAIN links' \cup {Fresh, Nobody}
      /\ Fresh # Nobody /\ Fresh \notin DOMAIN links' /\ Nobody \notin DOMAIN links'
      /\ DOMAIN links' \subseteq Nat
      /\ engine'[p].listening \in BOOLEAN /\ engine'[p].started \in BOOLEAN /\ engine'[p].senders \in BOOLEAN
  BY PeerIsNext
<1>9. /\ Once(p) => Once(p)'
      /\ ui[p] = "asking"
      /\ UNCHANGED <<status[p], sock[p], online[p], dialing[p], target[p], reading[p], connected[p], ids[p], partner[p], engine[p], asked[p], key[p], candidate[p], Reads(p)>>
      /\ ui'[p] = "idle"
  BY DEF UserCancelsDoes
<1>11. /\ ToDial(p) => /\ sock[p] = Nobody /\ status[p] = "waiting"
                      /\ ~Resets(p) /\ ~Closes(p) /\ ~Runs(p, "stop", "stop")
       /\ ToDial(p)' => /\ sock'[p] = Nobody /\ status'[p] = "waiting"
                       /\ ~Resets(p)' /\ ~Closes(p)' /\ ~Runs(p, "stop", "stop")'
  BY DEF Doomed, Busy
<1>12. /\ q # p /\ Open(c) \subseteq {p, q} /\ sock'[p] = c /\ sock[p] = c /\ Uses(p)
       /\ (From(c) = p /\ To(c) = q) \/ (From(c) = q /\ To(c) = p)
       /\ In(c, p) \in Seq(Message) /\ In(c, q) \in Seq(Message)
       /\ LinkInv(c) /\ KeyInv(c) /\ PhaseInv(c) /\ EndInv(c)
  <2>1. Uses(p) /\ p \in {From(c), To(c)}
    BY DEF Uses, Local, SockInv
  <2> QED
    BY <2>1, <1>9, LinkIs DEF OnLink, TypeOK, Other, From, To
<1>13. /\ sock'[q] = sock[q] /\ key'[q] = key[q] /\ asked'[q] = asked[q] /\ connected'[q] = connected[q]
       /\ ui'[q] = ui[q] /\ engine'[q] = engine[q]
       /\ \A h, l : Runs(q, h, l)' <=> Runs(q, h, l)
       /\ (Begun(q)' <=> Begun(q)) /\ (Resets(q)' <=> Resets(q)) /\ JobRules(q)
  <2>1. Untouched(q) /\ SameKey(q)
    BY <1>12 DEF UserCancelsDoes
  <2> QED
    BY <2>1, JobsSame, JobsAre DEF Untouched, SameKey
<1>14. /\ c \in DOMAIN links' /\ From(c)' = From(c) /\ To(c)' = To(c) /\ Open(c)' = Open(c) /\ Taken(c)' = Taken(c)
       /\ (\A r : Other(c, r)' = Other(c, r)) /\ (early' = {} => early = {})
       /\ In(c, p)' = In(c, p) /\ In(c, q)' = In(c, q)
  BY <1>12, LinksStay DEF UserCancelsDoes, TypeOK, Kept, Unmoved, Other, From, To
<1>30. EndKept(c, q)
  BY <1>12, <1>13 DEF EndKept
<1>31. EndKept(c, p)
  BY <1>1, <1>2, <1>7, <1>9, <1>12 DEF EndKept, Calls, Takes, Local, PlaceInv, JobRules
<1>32. BoxKept(c, p) /\ BoxKept(c, q)
  BY <1>12, <1>13, <1>14 DEF BoxKept, Other
<1>33. PhaseInv(c)' /\ EndInv(c)'
  BY <1>12, <1>14, <1>30, <1>31, <1>32, LinkKept
<1>34. LinkInv(c)'
  BY <1>12, <1>13, <1>14 DEF LinkInv
<1>35. KeyInv(c)'
  <2>1. key'[p] = key[p] /\ key'[q] = key[q]
    BY <1>9, <1>13
  <2>2. /\ p \in Open(c) => Keyed(In(c, p)', key[p])
        /\ q \in Open(c) => Keyed(In(c, q)', key[q])
    BY <1>9, <1>12, <1>13, <1>14 DEF KeyInv
  <2>3. /\ From(c) = p => Only(In(c, p)', {"accept", "reject", "ready"}) /\ Only(In(c, q)', {"request", "cancel", "ready"})
        /\ From(c) = q => Only(In(c, q)', {"accept", "reject", "ready"}) /\ Only(In(c, p)', {"request", "cancel", "ready"})
    BY <1>9, <1>12, <1>13, <1>14 DEF KeyInv
  <2> QED
    BY <1>12, <1>14, <2>1, <2>2, <2>3, KeyKept
<1>36. ReadyInv(c)'
  <2>1. early' = {} /\ sock[q] = c /\ Told(c, p, q) => Told(c, p, q)'
    BY <1>1, <1>2, <1>9, <1>12, <1>13, <1>14 DEF Told
  <2>2. early' = {} /\ sock[q] = c /\ Told(c, q, p) => Told(c, q, p)'
    BY <1>1, <1>2, <1>9, <1>12, <1>13, <1>14 DEF Told
  <2> QED
    BY <2>1, <2>2, <1>12, <1>13, <1>14, ReadyIs
<1> QED
  BY <1>33, <1>34, <1>35, <1>36

LEMMA UserAcceptsLink ==
    ASSUME TypeOK, TypeOK', NEW p \in Peers, NEW c \in DOMAIN links, Local(p), TlsInv(p), OnLink(p),
           UserAcceptsDoes(p), mishaps' = {}, ~Doomed(p), ~Doomed(p)',
           c = sock[p], NEW q \in Peers, q = Other(c, p), Local(q), ReadyInv(c)
    PROVE  LinkInv(c)' /\ KeyInv(c)' /\ PhaseInv(c)' /\ EndInv(c)' /\ ReadyInv(c)'
<1>1. /\ Runs(p, "accept", "statusOn")'
      /\ Runs(p, "initHigh", "statusOn")' <=> Runs(p, "initHigh", "statusOn")
      /\ Runs(p, "initLow", "statusOn")' <=> Runs(p, "initLow", "statusOn")
      /\ Runs(p, "statusOn", "statusOn")' <=> Runs(p, "statusOn", "statusOn")
      /\ Runs(p, "cancel", "reset")' <=> Runs(p, "cancel", "reset")
      /\ Runs(p, "reset", "reset")' <=> Runs(p, "reset", "reset")
      /\ Runs(p, "reject", "statusOff")' <=> Runs(p, "reject", "statusOff")
      /\ Runs(p, "reset", "statusOff")' <=> Runs(p, "reset", "statusOff")
      /\ Runs(p, "statusOff", "statusOff")' <=> Runs(p, "statusOff", "statusOff")
      /\ Runs(p, "reset", "close")' <=> Runs(p, "reset", "close")
      /\ Runs(p, "close", "close")' <=> Runs(p, "close", "close")
      /\ Runs(p, "reset", "unconnected")' <=> Runs(p, "reset", "unconnected")
      /\ Runs(p, "lost", "unconnected")' <=> Runs(p, "lost", "unconnected")
      /\ Runs(p, "unconnected", "unconnected")' <=> Runs(p, "unconnected", "unconnected")
      /\ Runs(p, "reset", "again")' <=> Runs(p, "reset", "again")
      /\ Runs(p, "lost", "again")' <=> Runs(p, "lost", "again")
      /\ Runs(p, "again", "again")' <=> Runs(p, "again", "again")
      /\ Runs(p, "stop", "stop")' <=> Runs(p, "stop", "stop")
      /\ Runs(p, "ready", "ready")' <=> Runs(p, "ready", "ready")
      /\ Runs(p, "initFileSenders", "initFileSenders")' <=> Runs(p, "initFileSenders", "initFileSenders")
      /\ \A y : Doing(p, "dial", "request", y)' <=> Doing(p, "dial", "request", y)
      /\ \A y : Doing(p, "exchange", "request", y)' <=> Doing(p, "exchange", "request", y)
      /\ \A y : Doing(p, "connect", "request", y)' <=> Doing(p, "connect", "request", y)
      /\ \A y : Doing(p, "recvMsg", "request", y)' <=> Doing(p, "recvMsg", "request", y)
      /\ \A y : Doing(p, "request", "request", y)' <=> Doing(p, "request", "request", y)
      /\ \A y : Doing(p, "recvMsg", "established", y)' <=> Doing(p, "recvMsg", "established", y)
      /\ \A y : Doing(p, "established", "established", y)' <=> Doing(p, "established", "established", y)
      /\ \A y : Doing(p, "listen", "started", y)' <=> Doing(p, "listen", "started", y)
      /\ \A y : Doing(p, "started", "started", y)' <=> Doing(p, "started", "started", y)
  BY DEF UserAcceptsDoes, Gets, Runs
<1>2. /\ Begun(p)' <=> Begun(p)
      /\ \A y : Asks(p, y)' <=> Asks(p, y)
      /\ ToDial(p)' <=> ToDial(p)
      /\ \A y : Adopts(p, y)' <=> Adopts(p, y)
      /\ Starting(p)' <=> Starting(p)
      /\ \A y : Starts(p, y)' <=> Starts(p, y)
      /\ TakesBack(p)' <=> TakesBack(p)
      /\ Leaves(p)' <=> Leaves(p)
      /\ Closes(p)' <=> Closes(p)
      /\ Resets(p)' <=> Resets(p)
      /\ Ended(p)' <=> Ended(p)
  BY <1>1 DEF Adopts, Asks, Begun, Closes, Ended, Leaves, Resets, Starting, Starts, TakesBack, ToDial
<1>3. LinksKept /\ DOMAIN links' = DOMAIN links
  BY LinksStay DEF UserAcceptsDoes, TypeOK, LinksKept
<1>4. /\ Uses(p)' <=> Uses(p)
      /\ Calls(p)' <=> Calls(p)
      /\ Takes(p)' <=> Takes(p)
      /\ Uses(p) => /\ From(sock[p])' = From(sock[p]) /\ To(sock[p])' = To(sock[p])
                    /\ Other(sock[p], p)' = Other(sock[p], p)
  BY <1>3, SocketSame DEF UserAcceptsDoes
<1>7. PeerFacts(p) /\ JobRules(p) /\ JobRules(p)' /\ Says(p)
  BY PeerIs, JobsAre, EndSays
<1>8. /\ status'[p] \in {"waiting", "tls", "tcp"} /\ sock'[p] \in DOMAIN links' \cup {Fresh, Nobody}
      /\ Fresh # Nobody /\ Fresh \notin DOMAIN links' /\ Nobody \notin DOMAIN links'
      /\ DOMAIN links' \subseteq Nat
      /\ engine'[p].listening \in BOOLEAN /\ engine'[p].started \in BOOLEAN /\ engine'[p].senders \in BOOLEAN
  BY PeerIsNext
<1>9. /\ Once(p) /\ ~Doing(p, "accept", "statusOn", Nobody) => Once(p)'
      /\ asked[p]
      /\ UNCHANGED <<status[p], sock[p], online[p], dialing[p], target[p], reading[p], connected[p], ids[p], partner[p], engine[p], key[p], candidate[p], Reads(p)>>
      /\ asked'[p] = FALSE
      /\ ui'[p] = "connected"
  BY DEF UserAcceptsDoes
<1>11. /\ ToDial(p) => /\ sock[p] = Nobody /\ status[p] = "waiting"
                      /\ ~Resets(p) /\ ~Closes(p) /\ ~Runs(p, "stop", "stop")
       /\ ToDial(p)' => /\ sock'[p] = Nobody /\ status'[p] = "waiting"
                       /\ ~Resets(p)' /\ ~Closes(p)' /\ ~Runs(p, "stop", "stop")'
  BY DEF Doomed, Busy
<1>10. /\ Once(p)'
  BY <1>7, <1>9 DEF Runs, Says, Local, AskInv
<1>12. /\ q # p /\ Open(c) \subseteq {p, q} /\ sock'[p] = c /\ sock[p] = c /\ Uses(p)
       /\ (From(c) = p /\ To(c) = q) \/ (From(c) = q /\ To(c) = p)
       /\ In(c, p) \in Seq(Message) /\ In(c, q) \in Seq(Message)
       /\ LinkInv(c) /\ KeyInv(c) /\ PhaseInv(c) /\ EndInv(c)
  <2>1. Uses(p) /\ p \in {From(c), To(c)}
    BY DEF Uses, Local, SockInv
  <2> QED
    BY <2>1, <1>9, LinkIs DEF OnLink, TypeOK, Other, From, To
<1>13. /\ sock'[q] = sock[q] /\ key'[q] = key[q] /\ asked'[q] = asked[q] /\ connected'[q] = connected[q]
       /\ ui'[q] = ui[q] /\ engine'[q] = engine[q]
       /\ \A h, l : Runs(q, h, l)' <=> Runs(q, h, l)
       /\ (Begun(q)' <=> Begun(q)) /\ (Resets(q)' <=> Resets(q)) /\ JobRules(q)
  <2>1. Untouched(q) /\ SameKey(q)
    BY <1>12 DEF UserAcceptsDoes
  <2> QED
    BY <2>1, JobsSame, JobsAre DEF Untouched, SameKey
<1>14. /\ c \in DOMAIN links' /\ From(c)' = From(c) /\ To(c)' = To(c) /\ Open(c)' = Open(c) /\ Taken(c)' = Taken(c)
       /\ (\A r : Other(c, r)' = Other(c, r)) /\ (early' = {} => early = {})
       /\ In(c, p)' = In(c, p) /\ In(c, q)' = In(c, q)
  BY <1>12, LinksStay DEF UserAcceptsDoes, TypeOK, Kept, Unmoved, Other, From, To
<1>16. From(c) = q /\ To(c) = p
  BY <1>1, <1>2, <1>7, <1>9, <1>10, <1>12 DEF PeerFacts, Local, PlaceInv, WindowInv, AskInv, Says, Calls, Takes, TakesBack, Begun, Asks, Adopts
<1>17. LinkInv(c)'
  BY <1>12, <1>13, <1>14 DEF LinkInv
<1>18. KeyInv(c)'
  <2>1. key'[p] = key[p] /\ key'[q] = key[q]
    BY <1>9, <1>13
  <2>2. /\ p \in Open(c) => Keyed(In(c, p)', key[p])
        /\ q \in Open(c) => Keyed(In(c, q)', key[q])
    BY <1>9, <1>12, <1>13, <1>14, <1>16 DEF KeyInv
  <2>3. /\ From(c) = p => Only(In(c, p)', {"accept", "reject", "ready"}) /\ Only(In(c, q)', {"request", "cancel", "ready"})
        /\ From(c) = q => Only(In(c, q)', {"accept", "reject", "ready"}) /\ Only(In(c, p)', {"request", "cancel", "ready"})
    BY <1>9, <1>12, <1>13, <1>14, <1>16 DEF KeyInv
  <2> QED
    BY <1>12, <1>14, <2>1, <2>2, <2>3, KeyKept
<1>60. TakerView(c, p, q) /\ TakerView(c, p, q)'
  BY <1>16, <1>12, <1>14, Views
<1>61. /\ Unsent(c)' <=> Unsent(c)
       /\ Underway(c)' <=> Underway(c)
       /\ Shown(c)
       /\ ~Shown(c)'
       /\ Accepting(c)'
       /\ Rejecting(c)' <=> Rejecting(c)
       /\ Refusal(c)' <=> Refusal(c)
       /\ AcceptSent(c)' <=> AcceptSent(c)
       /\ AcceptHeld(c)' <=> AcceptHeld(c)
       /\ Agreeing(c)' <=> Agreeing(c)
       /\ ~Unsent(c)
  BY <1>1, <1>2, <1>7, <1>9, <1>10, <1>12, <1>13, <1>14, <1>16, <1>60 DEF TakerView, Local, PlaceInv, PeerFacts, Says, Calls, Takes, PhaseInv
<1>62. PhaseInv(c)'
  BY <1>12, <1>13, <1>14, <1>16, <1>60, <1>61 DEF PhaseInv, TakerView
<1>63. BothInv(c)'
  BY <1>1, <1>2, <1>7, <1>9, <1>12, <1>13, <1>14, <1>16, <1>61 DEF EndInv, BothInv, LinkInv, JobRules
<1>64. AnswerInv(c)'
  BY <1>1, <1>2, <1>7, <1>9, <1>12, <1>13, <1>14, <1>16, <1>61 DEF EndInv, AnswerInv, LinkInv, JobRules
<1>65. CancelInv(c)'
  BY <1>1, <1>2, <1>7, <1>9, <1>12, <1>13, <1>14, <1>16, <1>61, <1>60 DEF EndInv, CancelInv, LinkInv, JobRules, TakerView
<1>66. RejectInv(c)'
  BY <1>1, <1>2, <1>7, <1>9, <1>12, <1>13, <1>14, <1>16, <1>61 DEF EndInv, RejectInv, LinkInv, JobRules
<1>67. UntakenInv(c)'
  BY <1>1, <1>2, <1>7, <1>9, <1>12, <1>13, <1>14, <1>16, <1>61 DEF EndInv, UntakenInv, LinkInv, JobRules
<1>68. LastInv(c)'
  <2>1. sock'[p] = c /\ Runs(p, "reset", "again")' => In(c, p)' = << >> /\ q \notin Open(c)'
    BY <1>1, <1>2, <1>9, <1>12, <1>13, <1>14, LastIs DEF EndInv, Other, From, To
  <2>2. sock'[q] = c /\ Runs(q, "reset", "again")' => In(c, q)' = << >> /\ p \notin Open(c)'
    BY <1>12, <1>13, <1>14, LastIs DEF EndInv, LinkInv
  <2> QED
    BY <2>1, <2>2, <1>12, <1>13, <1>14, LastIs
<1>69. ReadyInv(c)'
  <2>1. early' = {} /\ sock[q] = c /\ Told(c, p, q) => Told(c, p, q)'
    BY <1>1, <1>2, <1>9, <1>12, <1>13, <1>14 DEF Told
  <2>2. early' = {} /\ sock[q] = c /\ Told(c, q, p) => Told(c, q, p)'
    BY <1>1, <1>2, <1>9, <1>12, <1>13, <1>14 DEF Told
  <2> QED
    BY <2>1, <2>2, <1>12, <1>13, <1>14, ReadyIs
<1> QED
  BY <1>17, <1>18, <1>62, <1>63, <1>64, <1>65, <1>66, <1>67, <1>68, <1>69 DEF EndInv

LEMMA UserRejectsLink ==
    ASSUME TypeOK, TypeOK', NEW p \in Peers, NEW c \in DOMAIN links, Local(p), TlsInv(p), OnLink(p),
           UserRejectsDoes(p), mishaps' = {}, ~Doomed(p), ~Doomed(p)',
           c = sock[p], NEW q \in Peers, q = Other(c, p), Local(q), ReadyInv(c)
    PROVE  LinkInv(c)' /\ KeyInv(c)' /\ PhaseInv(c)' /\ EndInv(c)' /\ ReadyInv(c)'
<1>1. /\ Runs(p, "accept", "statusOn")' <=> Runs(p, "accept", "statusOn")
      /\ Runs(p, "initHigh", "statusOn")' <=> Runs(p, "initHigh", "statusOn")
      /\ Runs(p, "initLow", "statusOn")' <=> Runs(p, "initLow", "statusOn")
      /\ Runs(p, "statusOn", "statusOn")' <=> Runs(p, "statusOn", "statusOn")
      /\ Runs(p, "cancel", "reset")' <=> Runs(p, "cancel", "reset")
      /\ Runs(p, "reset", "reset")' <=> Runs(p, "reset", "reset")
      /\ Runs(p, "reject", "statusOff")'
      /\ Runs(p, "reset", "statusOff")' <=> Runs(p, "reset", "statusOff")
      /\ Runs(p, "statusOff", "statusOff")' <=> Runs(p, "statusOff", "statusOff")
      /\ Runs(p, "reset", "close")' <=> Runs(p, "reset", "close")
      /\ Runs(p, "close", "close")' <=> Runs(p, "close", "close")
      /\ Runs(p, "reset", "unconnected")' <=> Runs(p, "reset", "unconnected")
      /\ Runs(p, "lost", "unconnected")' <=> Runs(p, "lost", "unconnected")
      /\ Runs(p, "unconnected", "unconnected")' <=> Runs(p, "unconnected", "unconnected")
      /\ Runs(p, "reset", "again")' <=> Runs(p, "reset", "again")
      /\ Runs(p, "lost", "again")' <=> Runs(p, "lost", "again")
      /\ Runs(p, "again", "again")' <=> Runs(p, "again", "again")
      /\ Runs(p, "stop", "stop")' <=> Runs(p, "stop", "stop")
      /\ Runs(p, "ready", "ready")' <=> Runs(p, "ready", "ready")
      /\ Runs(p, "initFileSenders", "initFileSenders")' <=> Runs(p, "initFileSenders", "initFileSenders")
      /\ \A y : Doing(p, "dial", "request", y)' <=> Doing(p, "dial", "request", y)
      /\ \A y : Doing(p, "exchange", "request", y)' <=> Doing(p, "exchange", "request", y)
      /\ \A y : Doing(p, "connect", "request", y)' <=> Doing(p, "connect", "request", y)
      /\ \A y : Doing(p, "recvMsg", "request", y)' <=> Doing(p, "recvMsg", "request", y)
      /\ \A y : Doing(p, "request", "request", y)' <=> Doing(p, "request", "request", y)
      /\ \A y : Doing(p, "recvMsg", "established", y)' <=> Doing(p, "recvMsg", "established", y)
      /\ \A y : Doing(p, "established", "established", y)' <=> Doing(p, "established", "established", y)
      /\ \A y : Doing(p, "listen", "started", y)' <=> Doing(p, "listen", "started", y)
      /\ \A y : Doing(p, "started", "started", y)' <=> Doing(p, "started", "started", y)
  BY DEF UserRejectsDoes, Gets, Runs
<1>2. /\ Begun(p)' <=> Begun(p)
      /\ \A y : Asks(p, y)' <=> Asks(p, y)
      /\ ToDial(p)' <=> ToDial(p)
      /\ \A y : Adopts(p, y)' <=> Adopts(p, y)
      /\ Starting(p)' <=> Starting(p)
      /\ \A y : Starts(p, y)' <=> Starts(p, y)
      /\ Agrees(p)' <=> Agrees(p)
      /\ TakesBack(p)' <=> TakesBack(p)
      /\ Closes(p)' <=> Closes(p)
      /\ Ended(p)' <=> Ended(p)
  BY <1>1 DEF Adopts, Agrees, Asks, Begun, Closes, Ended, Starting, Starts, TakesBack, ToDial
<1>3. LinksKept /\ DOMAIN links' = DOMAIN links
  BY LinksStay DEF UserRejectsDoes, TypeOK, LinksKept
<1>4. /\ Uses(p)' <=> Uses(p)
      /\ Calls(p)' <=> Calls(p)
      /\ Takes(p)' <=> Takes(p)
      /\ Uses(p) => /\ From(sock[p])' = From(sock[p]) /\ To(sock[p])' = To(sock[p])
                    /\ Other(sock[p], p)' = Other(sock[p], p)
  BY <1>3, SocketSame DEF UserRejectsDoes
<1>7. PeerFacts(p) /\ JobRules(p) /\ JobRules(p)' /\ Says(p)
  BY PeerIs, JobsAre, EndSays
<1>8. /\ status'[p] \in {"waiting", "tls", "tcp"} /\ sock'[p] \in DOMAIN links' \cup {Fresh, Nobody}
      /\ Fresh # Nobody /\ Fresh \notin DOMAIN links' /\ Nobody \notin DOMAIN links'
      /\ DOMAIN links' \subseteq Nat
      /\ engine'[p].listening \in BOOLEAN /\ engine'[p].started \in BOOLEAN /\ engine'[p].senders \in BOOLEAN
  BY PeerIsNext
<1>9. /\ Once(p) /\ ~Doing(p, "reject", "statusOff", Nobody) => Once(p)'
      /\ asked[p]
      /\ UNCHANGED <<status[p], sock[p], online[p], dialing[p], target[p], reading[p], connected[p], ids[p], partner[p], engine[p], ui[p], key[p], candidate[p], Reads(p)>>
      /\ asked'[p] = FALSE
  BY DEF UserRejectsDoes
<1>11. /\ ToDial(p) => /\ sock[p] = Nobody /\ status[p] = "waiting"
                      /\ ~Resets(p) /\ ~Closes(p) /\ ~Runs(p, "stop", "stop")
       /\ ToDial(p)' => /\ sock'[p] = Nobody /\ status'[p] = "waiting"
                       /\ ~Resets(p)' /\ ~Closes(p)' /\ ~Runs(p, "stop", "stop")'
  BY DEF Doomed, Busy
<1>10. /\ Once(p)'
  BY <1>7, <1>9 DEF Runs, Says, Local, AskInv
<1>12. /\ q # p /\ Open(c) \subseteq {p, q} /\ sock'[p] = c /\ sock[p] = c /\ Uses(p)
       /\ (From(c) = p /\ To(c) = q) \/ (From(c) = q /\ To(c) = p)
       /\ In(c, p) \in Seq(Message) /\ In(c, q) \in Seq(Message)
       /\ LinkInv(c) /\ KeyInv(c) /\ PhaseInv(c) /\ EndInv(c)
  <2>1. Uses(p) /\ p \in {From(c), To(c)}
    BY DEF Uses, Local, SockInv
  <2> QED
    BY <2>1, <1>9, LinkIs DEF OnLink, TypeOK, Other, From, To
<1>13. /\ sock'[q] = sock[q] /\ key'[q] = key[q] /\ asked'[q] = asked[q] /\ connected'[q] = connected[q]
       /\ ui'[q] = ui[q] /\ engine'[q] = engine[q]
       /\ \A h, l : Runs(q, h, l)' <=> Runs(q, h, l)
       /\ (Begun(q)' <=> Begun(q)) /\ (Resets(q)' <=> Resets(q)) /\ JobRules(q)
  <2>1. Untouched(q) /\ SameKey(q)
    BY <1>12 DEF UserRejectsDoes
  <2> QED
    BY <2>1, JobsSame, JobsAre DEF Untouched, SameKey
<1>14. /\ c \in DOMAIN links' /\ From(c)' = From(c) /\ To(c)' = To(c) /\ Open(c)' = Open(c) /\ Taken(c)' = Taken(c)
       /\ (\A r : Other(c, r)' = Other(c, r)) /\ (early' = {} => early = {})
       /\ In(c, p)' = In(c, p) /\ In(c, q)' = In(c, q)
  BY <1>12, LinksStay DEF UserRejectsDoes, TypeOK, Kept, Unmoved, Other, From, To
<1>16. From(c) = q /\ To(c) = p
  BY <1>1, <1>2, <1>7, <1>9, <1>10, <1>12 DEF PeerFacts, Local, PlaceInv, WindowInv, AskInv, Says, Calls, Takes, TakesBack, Begun, Asks, Adopts
<1>17. LinkInv(c)'
  BY <1>12, <1>13, <1>14 DEF LinkInv
<1>18. KeyInv(c)'
  <2>1. key'[p] = key[p] /\ key'[q] = key[q]
    BY <1>9, <1>13
  <2>2. /\ p \in Open(c) => Keyed(In(c, p)', key[p])
        /\ q \in Open(c) => Keyed(In(c, q)', key[q])
    BY <1>9, <1>12, <1>13, <1>14, <1>16 DEF KeyInv
  <2>3. /\ From(c) = p => Only(In(c, p)', {"accept", "reject", "ready"}) /\ Only(In(c, q)', {"request", "cancel", "ready"})
        /\ From(c) = q => Only(In(c, q)', {"accept", "reject", "ready"}) /\ Only(In(c, p)', {"request", "cancel", "ready"})
    BY <1>9, <1>12, <1>13, <1>14, <1>16 DEF KeyInv
  <2> QED
    BY <1>12, <1>14, <2>1, <2>2, <2>3, KeyKept
<1>60. TakerView(c, p, q) /\ TakerView(c, p, q)'
  BY <1>16, <1>12, <1>14, Views
<1>61. /\ Unsent(c)' <=> Unsent(c)
       /\ Underway(c)' <=> Underway(c)
       /\ Shown(c)
       /\ ~Shown(c)'
       /\ Accepting(c)' <=> Accepting(c)
       /\ Rejecting(c)'
       /\ Refusal(c)' <=> Refusal(c)
       /\ AcceptSent(c)' <=> AcceptSent(c)
       /\ AcceptHeld(c)' <=> AcceptHeld(c)
       /\ Agreeing(c)' <=> Agreeing(c)
       /\ ~Unsent(c)
  BY <1>1, <1>2, <1>7, <1>9, <1>10, <1>12, <1>13, <1>14, <1>16, <1>60 DEF TakerView, Local, PlaceInv, PeerFacts, Says, Calls, Takes, PhaseInv
<1>62. PhaseInv(c)'
  BY <1>12, <1>13, <1>14, <1>16, <1>60, <1>61 DEF PhaseInv, TakerView
<1>63. BothInv(c)'
  BY <1>1, <1>2, <1>7, <1>9, <1>12, <1>13, <1>14, <1>16, <1>61 DEF EndInv, BothInv, LinkInv, JobRules
<1>64. AnswerInv(c)'
  BY <1>1, <1>2, <1>7, <1>9, <1>12, <1>13, <1>14, <1>16, <1>61 DEF EndInv, AnswerInv, LinkInv, JobRules
<1>65. CancelInv(c)'
  BY <1>1, <1>2, <1>7, <1>9, <1>12, <1>13, <1>14, <1>16, <1>61, <1>60 DEF EndInv, CancelInv, LinkInv, JobRules, TakerView
<1>66. RejectInv(c)'
  BY <1>1, <1>2, <1>7, <1>9, <1>12, <1>13, <1>14, <1>16, <1>61 DEF EndInv, RejectInv, LinkInv, JobRules
<1>67. UntakenInv(c)'
  BY <1>1, <1>2, <1>7, <1>9, <1>12, <1>13, <1>14, <1>16, <1>61 DEF EndInv, UntakenInv, LinkInv, JobRules
<1>68. LastInv(c)'
  <2>1. sock'[p] = c /\ Runs(p, "reset", "again")' => In(c, p)' = << >> /\ q \notin Open(c)'
    BY <1>1, <1>2, <1>9, <1>12, <1>13, <1>14, LastIs DEF EndInv, Other, From, To
  <2>2. sock'[q] = c /\ Runs(q, "reset", "again")' => In(c, q)' = << >> /\ p \notin Open(c)'
    BY <1>12, <1>13, <1>14, LastIs DEF EndInv, LinkInv
  <2> QED
    BY <2>1, <2>2, <1>12, <1>13, <1>14, LastIs
<1>69. ReadyInv(c)'
  <2>1. early' = {} /\ sock[q] = c /\ Told(c, p, q) => Told(c, p, q)'
    BY <1>1, <1>2, <1>9, <1>12, <1>13, <1>14 DEF Told
  <2>2. early' = {} /\ sock[q] = c /\ Told(c, q, p) => Told(c, q, p)'
    BY <1>1, <1>2, <1>9, <1>12, <1>13, <1>14 DEF Told
  <2> QED
    BY <2>1, <2>2, <1>12, <1>13, <1>14, ReadyIs
<1> QED
  BY <1>17, <1>18, <1>62, <1>63, <1>64, <1>65, <1>66, <1>67, <1>68, <1>69 DEF EndInv

LEMMA UserDisconnectsLink ==
    ASSUME TypeOK, TypeOK', NEW p \in Peers, NEW c \in DOMAIN links, Local(p), TlsInv(p), OnLink(p),
           UserDisconnectsDoes(p), mishaps' = {}, ~Doomed(p), ~Doomed(p)',
           c = sock[p], NEW q \in Peers, q = Other(c, p), Local(q), ReadyInv(c)
    PROVE  LinkInv(c)' /\ KeyInv(c)' /\ PhaseInv(c)' /\ EndInv(c)' /\ ReadyInv(c)'
<1>1. /\ Runs(p, "accept", "statusOn")' <=> Runs(p, "accept", "statusOn")
      /\ Runs(p, "initHigh", "statusOn")' <=> Runs(p, "initHigh", "statusOn")
      /\ Runs(p, "initLow", "statusOn")' <=> Runs(p, "initLow", "statusOn")
      /\ Runs(p, "statusOn", "statusOn")' <=> Runs(p, "statusOn", "statusOn")
      /\ Runs(p, "cancel", "reset")' <=> Runs(p, "cancel", "reset")
      /\ Runs(p, "reset", "reset")' <=> Runs(p, "reset", "reset")
      /\ Runs(p, "reject", "statusOff")' <=> Runs(p, "reject", "statusOff")
      /\ Runs(p, "reset", "statusOff")' <=> Runs(p, "reset", "statusOff")
      /\ Runs(p, "statusOff", "statusOff")' <=> Runs(p, "statusOff", "statusOff")
      /\ Runs(p, "reset", "close")'
      /\ Runs(p, "close", "close")' <=> Runs(p, "close", "close")
      /\ Runs(p, "reset", "unconnected")' <=> Runs(p, "reset", "unconnected")
      /\ Runs(p, "lost", "unconnected")' <=> Runs(p, "lost", "unconnected")
      /\ Runs(p, "unconnected", "unconnected")' <=> Runs(p, "unconnected", "unconnected")
      /\ Runs(p, "reset", "again")' <=> Runs(p, "reset", "again")
      /\ Runs(p, "lost", "again")' <=> Runs(p, "lost", "again")
      /\ Runs(p, "again", "again")' <=> Runs(p, "again", "again")
      /\ Runs(p, "stop", "stop")' <=> Runs(p, "stop", "stop")
      /\ Runs(p, "ready", "ready")' <=> Runs(p, "ready", "ready")
      /\ Runs(p, "initFileSenders", "initFileSenders")' <=> Runs(p, "initFileSenders", "initFileSenders")
      /\ \A y : Doing(p, "dial", "request", y)' <=> Doing(p, "dial", "request", y)
      /\ \A y : Doing(p, "exchange", "request", y)' <=> Doing(p, "exchange", "request", y)
      /\ \A y : Doing(p, "connect", "request", y)' <=> Doing(p, "connect", "request", y)
      /\ \A y : Doing(p, "recvMsg", "request", y)' <=> Doing(p, "recvMsg", "request", y)
      /\ \A y : Doing(p, "request", "request", y)' <=> Doing(p, "request", "request", y)
      /\ \A y : Doing(p, "recvMsg", "established", y)' <=> Doing(p, "recvMsg", "established", y)
      /\ \A y : Doing(p, "established", "established", y)' <=> Doing(p, "established", "established", y)
      /\ \A y : Doing(p, "listen", "started", y)' <=> Doing(p, "listen", "started", y)
      /\ \A y : Doing(p, "started", "started", y)' <=> Doing(p, "started", "started", y)
  BY DEF UserDisconnectsDoes, Gets, Runs
<1>2. /\ Begun(p)' <=> Begun(p)
      /\ \A y : Asks(p, y)' <=> Asks(p, y)
      /\ ToDial(p)' <=> ToDial(p)
      /\ \A y : Adopts(p, y)' <=> Adopts(p, y)
      /\ Starting(p)' <=> Starting(p)
      /\ \A y : Starts(p, y)' <=> Starts(p, y)
      /\ Agrees(p)' <=> Agrees(p)
      /\ TakesBack(p)' <=> TakesBack(p)
      /\ Closes(p)' <=> Closes(p)
      /\ Ended(p)' <=> Ended(p)
  BY <1>1 DEF Adopts, Agrees, Asks, Begun, Closes, Ended, Starting, Starts, TakesBack, ToDial
<1>3. LinksKept /\ DOMAIN links' = DOMAIN links
  BY LinksStay DEF UserDisconnectsDoes, TypeOK, LinksKept
<1>4. /\ Uses(p)' <=> Uses(p)
      /\ Calls(p)' <=> Calls(p)
      /\ Takes(p)' <=> Takes(p)
      /\ Uses(p) => /\ From(sock[p])' = From(sock[p]) /\ To(sock[p])' = To(sock[p])
                    /\ Other(sock[p], p)' = Other(sock[p], p)
  BY <1>3, SocketSame DEF UserDisconnectsDoes
<1>7. PeerFacts(p) /\ JobRules(p) /\ JobRules(p)' /\ Says(p)
  BY PeerIs, JobsAre, EndSays
<1>8. /\ status'[p] \in {"waiting", "tls", "tcp"} /\ sock'[p] \in DOMAIN links' \cup {Fresh, Nobody}
      /\ Fresh # Nobody /\ Fresh \notin DOMAIN links' /\ Nobody \notin DOMAIN links'
      /\ DOMAIN links' \subseteq Nat
      /\ engine'[p].listening \in BOOLEAN /\ engine'[p].started \in BOOLEAN /\ engine'[p].senders \in BOOLEAN
  BY PeerIsNext
<1>9. /\ Once(p) => Once(p)'
      /\ ui[p] = "connected"
      /\ UNCHANGED <<status[p], sock[p], online[p], dialing[p], target[p], reading[p], connected[p], ids[p], partner[p], engine[p], asked[p], key[p], candidate[p], Reads(p)>>
      /\ ui'[p] = "idle"
  BY DEF UserDisconnectsDoes
<1>11. /\ ToDial(p) => /\ sock[p] = Nobody /\ status[p] = "waiting"
                      /\ ~Resets(p) /\ ~Closes(p) /\ ~Runs(p, "stop", "stop")
       /\ ToDial(p)' => /\ sock'[p] = Nobody /\ status'[p] = "waiting"
                       /\ ~Resets(p)' /\ ~Closes(p)' /\ ~Runs(p, "stop", "stop")'
  BY DEF Doomed, Busy
<1>12. /\ q # p /\ Open(c) \subseteq {p, q} /\ sock'[p] = c /\ sock[p] = c /\ Uses(p)
       /\ (From(c) = p /\ To(c) = q) \/ (From(c) = q /\ To(c) = p)
       /\ In(c, p) \in Seq(Message) /\ In(c, q) \in Seq(Message)
       /\ LinkInv(c) /\ KeyInv(c) /\ PhaseInv(c) /\ EndInv(c)
  <2>1. Uses(p) /\ p \in {From(c), To(c)}
    BY DEF Uses, Local, SockInv
  <2> QED
    BY <2>1, <1>9, LinkIs DEF OnLink, TypeOK, Other, From, To
<1>13. /\ sock'[q] = sock[q] /\ key'[q] = key[q] /\ asked'[q] = asked[q] /\ connected'[q] = connected[q]
       /\ ui'[q] = ui[q] /\ engine'[q] = engine[q]
       /\ \A h, l : Runs(q, h, l)' <=> Runs(q, h, l)
       /\ (Begun(q)' <=> Begun(q)) /\ (Resets(q)' <=> Resets(q)) /\ JobRules(q)
  <2>1. Untouched(q) /\ SameKey(q)
    BY <1>12 DEF UserDisconnectsDoes
  <2> QED
    BY <2>1, JobsSame, JobsAre DEF Untouched, SameKey
<1>14. /\ c \in DOMAIN links' /\ From(c)' = From(c) /\ To(c)' = To(c) /\ Open(c)' = Open(c) /\ Taken(c)' = Taken(c)
       /\ (\A r : Other(c, r)' = Other(c, r)) /\ (early' = {} => early = {})
       /\ In(c, p)' = In(c, p) /\ In(c, q)' = In(c, q)
  BY <1>12, LinksStay DEF UserDisconnectsDoes, TypeOK, Kept, Unmoved, Other, From, To
<1>30. EndKept(c, q)
  BY <1>12, <1>13 DEF EndKept
<1>31. EndKept(c, p)
  <2>1. p = To(c) => ~Unsent(c)
    <3>1. connected[p] \/ Agrees(p)
      BY <1>9 DEF Local, WindowInv
    <3>2. p = To(c) => Takes(p)
      BY <1>12 DEF Takes
    <3>3. p = To(c) => Accepting(c) \/ Agreeing(c)
      BY <1>12, <3>1, <3>2, Agreement
    <3> QED
      BY <1>12, <3>3 DEF PhaseInv
  <2> QED
    BY <1>1, <1>2, <1>7, <1>9, <1>12, <2>1 DEF EndKept, JobRules
<1>32. BoxKept(c, p) /\ BoxKept(c, q)
  BY <1>12, <1>13, <1>14 DEF BoxKept, Other
<1>33. PhaseInv(c)' /\ EndInv(c)'
  BY <1>12, <1>14, <1>30, <1>31, <1>32, LinkKept
<1>34. LinkInv(c)'
  BY <1>12, <1>13, <1>14 DEF LinkInv
<1>35. KeyInv(c)'
  <2>1. key'[p] = key[p] /\ key'[q] = key[q]
    BY <1>9, <1>13
  <2>2. /\ p \in Open(c) => Keyed(In(c, p)', key[p])
        /\ q \in Open(c) => Keyed(In(c, q)', key[q])
    BY <1>9, <1>12, <1>13, <1>14 DEF KeyInv
  <2>3. /\ From(c) = p => Only(In(c, p)', {"accept", "reject", "ready"}) /\ Only(In(c, q)', {"request", "cancel", "ready"})
        /\ From(c) = q => Only(In(c, q)', {"accept", "reject", "ready"}) /\ Only(In(c, p)', {"request", "cancel", "ready"})
    BY <1>9, <1>12, <1>13, <1>14 DEF KeyInv
  <2> QED
    BY <1>12, <1>14, <2>1, <2>2, <2>3, KeyKept
<1>36. ReadyInv(c)'
  <2>1. early' = {} /\ sock[q] = c /\ Told(c, p, q) => Told(c, p, q)'
    BY <1>1, <1>2, <1>9, <1>12, <1>13, <1>14 DEF Told
  <2>2. early' = {} /\ sock[q] = c /\ Told(c, q, p) => Told(c, q, p)'
    BY <1>1, <1>2, <1>9, <1>12, <1>13, <1>14 DEF Told
  <2> QED
    BY <2>1, <2>2, <1>12, <1>13, <1>14, ReadyIs
<1> QED
  BY <1>33, <1>34, <1>35, <1>36

LEMMA EstablishLink ==
    ASSUME TypeOK, TypeOK', NEW p \in Peers, NEW x, NEW c \in DOMAIN links, Local(p), TlsInv(p), OnLink(p),
           EstablishDoes(p, x), mishaps' = {}, ~Doomed(p), ~Doomed(p)',
           c = sock[p], NEW q \in Peers, q = Other(c, p), Local(q), ReadyInv(c)
    PROVE  LinkInv(c)' /\ KeyInv(c)' /\ PhaseInv(c)' /\ EndInv(c)' /\ ReadyInv(c)'
<1>1. /\ Runs(p, "accept", "statusOn")' <=> Runs(p, "accept", "statusOn")
      /\ Runs(p, "initHigh", "statusOn")' <=> Runs(p, "initHigh", "statusOn")
      /\ Runs(p, "initLow", "statusOn")' <=> Runs(p, "initLow", "statusOn")
      /\ Runs(p, "statusOn", "statusOn")' <=> Runs(p, "statusOn", "statusOn")
      /\ Runs(p, "cancel", "reset")' <=> Runs(p, "cancel", "reset")
      /\ Runs(p, "reset", "reset")' <=> Runs(p, "reset", "reset")
      /\ Runs(p, "reject", "statusOff")' <=> Runs(p, "reject", "statusOff")
      /\ Runs(p, "reset", "statusOff")' <=> Runs(p, "reset", "statusOff")
      /\ Runs(p, "statusOff", "statusOff")' <=> Runs(p, "statusOff", "statusOff")
      /\ Runs(p, "reset", "close")' <=> Runs(p, "reset", "close")
      /\ Runs(p, "close", "close")' <=> Runs(p, "close", "close")
      /\ Runs(p, "reset", "unconnected")' <=> Runs(p, "reset", "unconnected")
      /\ Runs(p, "lost", "unconnected")' <=> Runs(p, "lost", "unconnected")
      /\ Runs(p, "unconnected", "unconnected")' <=> Runs(p, "unconnected", "unconnected")
      /\ Runs(p, "reset", "again")' <=> Runs(p, "reset", "again")
      /\ Runs(p, "lost", "again")' <=> Runs(p, "lost", "again")
      /\ Runs(p, "again", "again")' <=> Runs(p, "again", "again")
      /\ Runs(p, "stop", "stop")' <=> Runs(p, "stop", "stop")
      /\ Runs(p, "ready", "ready")' <=> Runs(p, "ready", "ready")
      /\ Runs(p, "initFileSenders", "initFileSenders")' <=> Runs(p, "initFileSenders", "initFileSenders")
      /\ \A y : Doing(p, "dial", "request", y)' <=> Doing(p, "dial", "request", y)
      /\ \A y : Doing(p, "exchange", "request", y)' <=> Doing(p, "exchange", "request", y)
      /\ \A y : Doing(p, "connect", "request", y)' <=> Doing(p, "connect", "request", y)
      /\ \A y : Doing(p, "recvMsg", "request", y)' <=> Doing(p, "recvMsg", "request", y)
      /\ \A y : Doing(p, "request", "request", y)' <=> Doing(p, "request", "request", y)
      /\ \A y : Doing(p, "recvMsg", "established", y)' <=> Doing(p, "recvMsg", "established", y)
      /\ \A y : Doing(p, "established", "established", y)' => Doing(p, "established", "established", y)
      /\ \A y : Doing(p, "established", "established", y) => Doing(p, "established", "established", y)' \/ y = x
      /\ Doing(p, "established", "established", x)
      /\ Once(p) => ~Doing(p, "established", "established", x)'
      /\ \A y : Doing(p, "listen", "started", y)' <=> Doing(p, "listen", "started", y)
      /\ \A y : Doing(p, "started", "started", y)' <=> Doing(p, "started", "started", y)
  BY DEF EstablishDoes, Finishes, Runs
<1>2. /\ Begun(p)' <=> Begun(p)
      /\ \A y : Asks(p, y)' <=> Asks(p, y)
      /\ ToDial(p)' <=> ToDial(p)
      /\ Starting(p)' <=> Starting(p)
      /\ \A y : Starts(p, y)' <=> Starts(p, y)
      /\ Agrees(p)' <=> Agrees(p)
      /\ TakesBack(p)' <=> TakesBack(p)
      /\ Leaves(p)' <=> Leaves(p)
      /\ Closes(p)' <=> Closes(p)
      /\ Resets(p)' <=> Resets(p)
      /\ Ended(p)' <=> Ended(p)
  BY <1>1 DEF Agrees, Asks, Begun, Closes, Ended, Leaves, Resets, Starting, Starts, TakesBack, ToDial
<1>3. LinksKept /\ DOMAIN links' = DOMAIN links
  BY LinksStay DEF EstablishDoes, TypeOK, LinksKept
<1>4. /\ Uses(p)' <=> Uses(p)
      /\ Calls(p)' <=> Calls(p)
      /\ Takes(p)' <=> Takes(p)
      /\ Uses(p) => /\ From(sock[p])' = From(sock[p]) /\ To(sock[p])' = To(sock[p])
                    /\ Other(sock[p], p)' = Other(sock[p], p)
  BY <1>3, SocketSame DEF EstablishDoes
<1>7. PeerFacts(p) /\ JobRules(p) /\ JobRules(p)' /\ Says(p)
  BY PeerIs, JobsAre, EndSays
<1>8. /\ status'[p] \in {"waiting", "tls", "tcp"} /\ sock'[p] \in DOMAIN links' \cup {Fresh, Nobody}
      /\ Fresh # Nobody /\ Fresh \notin DOMAIN links' /\ Nobody \notin DOMAIN links'
      /\ DOMAIN links' \subseteq Nat
      /\ engine'[p].listening \in BOOLEAN /\ engine'[p].started \in BOOLEAN /\ engine'[p].senders \in BOOLEAN
  BY PeerIsNext
<1>9. /\ Once(p) => ~Doing(p, "established", "established", x)'
      /\ Once(p) => Once(p)'
      /\ x \in Nat
      /\ UNCHANGED <<sock[p], online[p], dialing[p], target[p], reading[p], connected[p], ids[p], partner[p], engine[p], ui[p], asked[p], key[p], candidate[p], Reads(p)>>
      /\ status'[p] = "tcp"
  BY DEF EstablishDoes
<1>11. /\ ToDial(p) => /\ sock[p] = Nobody /\ status[p] = "waiting"
                      /\ ~Resets(p) /\ ~Closes(p) /\ ~Runs(p, "stop", "stop")
       /\ ToDial(p)' => /\ sock'[p] = Nobody /\ status'[p] = "waiting"
                       /\ ~Resets(p)' /\ ~Closes(p)' /\ ~Runs(p, "stop", "stop")'
  BY DEF Doomed, Busy
<1>10. /\ sock[p] = x /\ Takes(p) /\ Uses(p) /\ ~Calls(p) /\ status[p] = "tls" /\ x \in DOMAIN links
       /\ \A y \in Nat : Adopts(p, y) => y = x
       /\ ~Doing(p, "recvMsg", "established", x)
       /\ ~Ended(p)
  <2>1. Doing(p, "established", "established", x) /\ x \in Nat
    BY DEF EstablishDoes, Finishes
  <2>2. x \in DOMAIN links /\ ~Doing(p, "recvMsg", "established", x) /\ Adopts(p, x)
    BY <2>1 DEF Local, PlaceInv, Adopts
  <2>3. sock[p] = x /\ Takes(p) /\ status[p] = "tls"
    BY <2>2 DEF Local, PlaceInv
  <2>4. ~Ended(p)
    BY <2>3 DEF Local, SockInv
  <2>5. \A y \in Nat : Adopts(p, y) => y = x
    BY <2>3 DEF Local, PlaceInv
  <2> QED
    BY <1>7, <2>2, <2>3, <2>4, <2>5 DEF PeerFacts
<1>12. /\ q # p /\ Open(c) \subseteq {p, q} /\ sock'[p] = c /\ sock[p] = c /\ Uses(p)
       /\ (From(c) = p /\ To(c) = q) \/ (From(c) = q /\ To(c) = p)
       /\ In(c, p) \in Seq(Message) /\ In(c, q) \in Seq(Message)
       /\ LinkInv(c) /\ KeyInv(c) /\ PhaseInv(c) /\ EndInv(c)
  <2>1. Uses(p) /\ p \in {From(c), To(c)}
    BY DEF Uses, Local, SockInv
  <2> QED
    BY <2>1, <1>9, LinkIs DEF OnLink, TypeOK, Other, From, To
<1>13. /\ sock'[q] = sock[q] /\ key'[q] = key[q] /\ asked'[q] = asked[q] /\ connected'[q] = connected[q]
       /\ ui'[q] = ui[q] /\ engine'[q] = engine[q]
       /\ \A h, l : Runs(q, h, l)' <=> Runs(q, h, l)
       /\ (Begun(q)' <=> Begun(q)) /\ (Resets(q)' <=> Resets(q)) /\ JobRules(q)
  <2>1. Untouched(q) /\ SameKey(q)
    BY <1>12 DEF EstablishDoes
  <2> QED
    BY <2>1, JobsSame, JobsAre DEF Untouched, SameKey
<1>14. /\ c \in DOMAIN links' /\ From(c)' = From(c) /\ To(c)' = To(c) /\ Open(c)' = Open(c) /\ Taken(c)' = Taken(c)
       /\ (\A r : Other(c, r)' = Other(c, r)) /\ (early' = {} => early = {})
       /\ In(c, p)' = In(c, p) /\ In(c, q)' = In(c, q)
  BY <1>12, LinksStay DEF EstablishDoes, TypeOK, Kept, Unmoved, Other, From, To
<1>30. EndKept(c, q)
  BY <1>12, <1>13 DEF EndKept
<1>31. EndKept(c, p)
  BY <1>1, <1>2, <1>7, <1>9, <1>10, <1>12 DEF EndKept, Calls, Takes, Local, PlaceInv, JobRules
<1>32. BoxKept(c, p) /\ BoxKept(c, q)
  BY <1>12, <1>13, <1>14 DEF BoxKept, Other
<1>33. PhaseInv(c)' /\ EndInv(c)'
  BY <1>12, <1>14, <1>30, <1>31, <1>32, LinkKept
<1>34. LinkInv(c)'
  BY <1>12, <1>13, <1>14 DEF LinkInv
<1>35. KeyInv(c)'
  <2>1. key'[p] = key[p] /\ key'[q] = key[q]
    BY <1>9, <1>13
  <2>2. /\ p \in Open(c) => Keyed(In(c, p)', key[p])
        /\ q \in Open(c) => Keyed(In(c, q)', key[q])
    BY <1>9, <1>12, <1>13, <1>14 DEF KeyInv
  <2>3. /\ From(c) = p => Only(In(c, p)', {"accept", "reject", "ready"}) /\ Only(In(c, q)', {"request", "cancel", "ready"})
        /\ From(c) = q => Only(In(c, q)', {"accept", "reject", "ready"}) /\ Only(In(c, p)', {"request", "cancel", "ready"})
    BY <1>9, <1>12, <1>13, <1>14 DEF KeyInv
  <2> QED
    BY <1>12, <1>14, <2>1, <2>2, <2>3, KeyKept
<1>36. ReadyInv(c)'
  <2>1. early' = {} /\ sock[q] = c /\ Told(c, p, q) => Told(c, p, q)'
    BY <1>1, <1>2, <1>9, <1>12, <1>13, <1>14 DEF Told
  <2>2. early' = {} /\ sock[q] = c /\ Told(c, q, p) => Told(c, q, p)'
    BY <1>1, <1>2, <1>9, <1>12, <1>13, <1>14 DEF Told
  <2> QED
    BY <2>1, <2>2, <1>12, <1>13, <1>14, ReadyIs
<1> QED
  BY <1>33, <1>34, <1>35, <1>36

LEMMA RecvMsgRequestLink ==
    ASSUME TypeOK, TypeOK', NEW p \in Peers, NEW x, NEW c \in DOMAIN links, Local(p), TlsInv(p), OnLink(p),
           RecvMsgRequestDoes(p, x), mishaps' = {}, ~Doomed(p), ~Doomed(p)',
           online[p],
           c = sock[p], NEW q \in Peers, q = Other(c, p), Local(q), ReadyInv(c)
    PROVE  LinkInv(c)' /\ KeyInv(c)' /\ PhaseInv(c)' /\ EndInv(c)' /\ ReadyInv(c)'
<1>1. /\ Runs(p, "accept", "statusOn")' <=> Runs(p, "accept", "statusOn")
      /\ Runs(p, "initHigh", "statusOn")' <=> Runs(p, "initHigh", "statusOn")
      /\ Runs(p, "initLow", "statusOn")' <=> Runs(p, "initLow", "statusOn")
      /\ Runs(p, "statusOn", "statusOn")' <=> Runs(p, "statusOn", "statusOn")
      /\ Runs(p, "cancel", "reset")' <=> Runs(p, "cancel", "reset")
      /\ Runs(p, "reset", "reset")' <=> Runs(p, "reset", "reset")
      /\ Runs(p, "reject", "statusOff")' <=> Runs(p, "reject", "statusOff")
      /\ Runs(p, "reset", "statusOff")' <=> Runs(p, "reset", "statusOff")
      /\ Runs(p, "statusOff", "statusOff")' <=> Runs(p, "statusOff", "statusOff")
      /\ Runs(p, "reset", "close")' <=> Runs(p, "reset", "close")
      /\ Runs(p, "close", "close")' <=> Runs(p, "close", "close")
      /\ Runs(p, "reset", "unconnected")' <=> Runs(p, "reset", "unconnected")
      /\ Runs(p, "lost", "unconnected")' <=> Runs(p, "lost", "unconnected")
      /\ Runs(p, "unconnected", "unconnected")' <=> Runs(p, "unconnected", "unconnected")
      /\ Runs(p, "reset", "again")' <=> Runs(p, "reset", "again")
      /\ Runs(p, "lost", "again")' <=> Runs(p, "lost", "again")
      /\ Runs(p, "again", "again")' <=> Runs(p, "again", "again")
      /\ Runs(p, "stop", "stop")' <=> Runs(p, "stop", "stop")
      /\ Runs(p, "ready", "ready")' <=> Runs(p, "ready", "ready")
      /\ Runs(p, "initFileSenders", "initFileSenders")' <=> Runs(p, "initFileSenders", "initFileSenders")
      /\ \A y : Doing(p, "dial", "request", y)' <=> Doing(p, "dial", "request", y)
      /\ \A y : Doing(p, "exchange", "request", y)' <=> Doing(p, "exchange", "request", y)
      /\ \A y : Doing(p, "connect", "request", y)' <=> Doing(p, "connect", "request", y)
      /\ \A y : Doing(p, "recvMsg", "request", y)' => Doing(p, "recvMsg", "request", y)
      /\ \A y : Doing(p, "recvMsg", "request", y) => Doing(p, "recvMsg", "request", y)' \/ y = x
      /\ Doing(p, "recvMsg", "request", x)
      /\ Once(p) => ~Doing(p, "recvMsg", "request", x)'
      /\ \A y : Doing(p, "request", "request", y)' => Doing(p, "request", "request", y) \/ y = x
      /\ \A y : Doing(p, "request", "request", y) => Doing(p, "request", "request", y)'
      /\ Doing(p, "request", "request", x)'
      /\ \A y : Doing(p, "recvMsg", "established", y)' <=> Doing(p, "recvMsg", "established", y)
      /\ \A y : Doing(p, "established", "established", y)' <=> Doing(p, "established", "established", y)
      /\ \A y : Doing(p, "listen", "started", y)' <=> Doing(p, "listen", "started", y)
      /\ \A y : Doing(p, "started", "started", y)' <=> Doing(p, "started", "started", y)
  BY DEF RecvMsgRequestDoes, Advances, Runs
<1>2. /\ ToDial(p)' <=> ToDial(p)
      /\ \A y : Adopts(p, y)' <=> Adopts(p, y)
      /\ Starting(p)' <=> Starting(p)
      /\ \A y : Starts(p, y)' <=> Starts(p, y)
      /\ Agrees(p)' <=> Agrees(p)
      /\ TakesBack(p)' <=> TakesBack(p)
      /\ Leaves(p)' <=> Leaves(p)
      /\ Closes(p)' <=> Closes(p)
      /\ Resets(p)' <=> Resets(p)
      /\ Ended(p)' <=> Ended(p)
  BY <1>1 DEF Adopts, Agrees, Closes, Ended, Leaves, Resets, Starting, Starts, TakesBack, ToDial
<1>3. LinksKept /\ DOMAIN links' = DOMAIN links
  BY LinksStay DEF RecvMsgRequestDoes, TypeOK, LinksKept
<1>4. /\ Uses(p)' <=> Uses(p)
      /\ Calls(p)' <=> Calls(p)
      /\ Takes(p)' <=> Takes(p)
      /\ Uses(p) => /\ From(sock[p])' = From(sock[p]) /\ To(sock[p])' = To(sock[p])
                    /\ Other(sock[p], p)' = Other(sock[p], p)
  BY <1>3, SocketSame DEF RecvMsgRequestDoes
<1>7. PeerFacts(p) /\ JobRules(p) /\ JobRules(p)' /\ Says(p)
  BY PeerIs, JobsAre, EndSays
<1>8. /\ status'[p] \in {"waiting", "tls", "tcp"} /\ sock'[p] \in DOMAIN links' \cup {Fresh, Nobody}
      /\ Fresh # Nobody /\ Fresh \notin DOMAIN links' /\ Nobody \notin DOMAIN links'
      /\ DOMAIN links' \subseteq Nat
      /\ engine'[p].listening \in BOOLEAN /\ engine'[p].started \in BOOLEAN /\ engine'[p].senders \in BOOLEAN
  BY PeerIsNext
<1>9. /\ Once(p) => ~Doing(p, "recvMsg", "request", x)'
      /\ Once(p) /\ ~Doing(p, "request", "request", x) => Once(p)'
      /\ x \in Peers /\ x # p
      /\ UNCHANGED <<status[p], sock[p], online[p], dialing[p], target[p], connected[p], ids[p], partner[p], engine[p], ui[p], asked[p], key[p], candidate[p]>>
      /\ reading'[p] = TRUE
      /\ Reads(p)' = Reads(p) \cup {sock[p]}
  BY DEF RecvMsgRequestDoes
<1>11. /\ ToDial(p) => /\ sock[p] = Nobody /\ status[p] = "waiting"
                      /\ ~Resets(p) /\ ~Closes(p) /\ ~Runs(p, "stop", "stop")
       /\ ToDial(p)' => /\ sock'[p] = Nobody /\ status'[p] = "waiting"
                       /\ ~Resets(p)' /\ ~Closes(p)' /\ ~Runs(p, "stop", "stop")'
  BY DEF Doomed, Busy
<1>12. /\ q # p /\ Open(c) \subseteq {p, q} /\ sock'[p] = c /\ sock[p] = c /\ Uses(p)
       /\ (From(c) = p /\ To(c) = q) \/ (From(c) = q /\ To(c) = p)
       /\ In(c, p) \in Seq(Message) /\ In(c, q) \in Seq(Message)
       /\ LinkInv(c) /\ KeyInv(c) /\ PhaseInv(c) /\ EndInv(c)
  <2>1. Uses(p) /\ p \in {From(c), To(c)}
    BY DEF Uses, Local, SockInv
  <2> QED
    BY <2>1, <1>9, LinkIs DEF OnLink, TypeOK, Other, From, To
<1>13. /\ sock'[q] = sock[q] /\ key'[q] = key[q] /\ asked'[q] = asked[q] /\ connected'[q] = connected[q]
       /\ ui'[q] = ui[q] /\ engine'[q] = engine[q]
       /\ \A h, l : Runs(q, h, l)' <=> Runs(q, h, l)
       /\ (Begun(q)' <=> Begun(q)) /\ (Resets(q)' <=> Resets(q)) /\ JobRules(q)
  <2>1. Untouched(q) /\ SameKey(q)
    BY <1>12 DEF RecvMsgRequestDoes
  <2> QED
    BY <2>1, JobsSame, JobsAre DEF Untouched, SameKey
<1>14. /\ c \in DOMAIN links' /\ From(c)' = From(c) /\ To(c)' = To(c) /\ Open(c)' = Open(c) /\ Taken(c)' = Taken(c)
       /\ (\A r : Other(c, r)' = Other(c, r)) /\ (early' = {} => early = {})
       /\ In(c, p)' = In(c, p) /\ In(c, q)' = In(c, q)
  BY <1>12, LinksStay DEF RecvMsgRequestDoes, TypeOK, Kept, Unmoved, Other, From, To
<1>30. EndKept(c, q)
  BY <1>12, <1>13 DEF EndKept
<1>31. EndKept(c, p)
  BY <1>1, <1>2, <1>7, <1>9, <1>12 DEF EndKept, Calls, Takes, Local, PlaceInv, JobRules, Asks, Begun
<1>32. BoxKept(c, p) /\ BoxKept(c, q)
  BY <1>12, <1>13, <1>14 DEF BoxKept, Other
<1>33. PhaseInv(c)' /\ EndInv(c)'
  BY <1>12, <1>14, <1>30, <1>31, <1>32, LinkKept
<1>34. LinkInv(c)'
  BY <1>12, <1>13, <1>14 DEF LinkInv
<1>35. KeyInv(c)'
  <2>1. key'[p] = key[p] /\ key'[q] = key[q]
    BY <1>9, <1>13
  <2>2. /\ p \in Open(c) => Keyed(In(c, p)', key[p])
        /\ q \in Open(c) => Keyed(In(c, q)', key[q])
    BY <1>9, <1>12, <1>13, <1>14 DEF KeyInv
  <2>3. /\ From(c) = p => Only(In(c, p)', {"accept", "reject", "ready"}) /\ Only(In(c, q)', {"request", "cancel", "ready"})
        /\ From(c) = q => Only(In(c, q)', {"accept", "reject", "ready"}) /\ Only(In(c, p)', {"request", "cancel", "ready"})
    BY <1>9, <1>12, <1>13, <1>14 DEF KeyInv
  <2> QED
    BY <1>12, <1>14, <2>1, <2>2, <2>3, KeyKept
<1>36. ReadyInv(c)'
  <2>1. early' = {} /\ sock[q] = c /\ Told(c, p, q) => Told(c, p, q)'
    BY <1>1, <1>2, <1>9, <1>12, <1>13, <1>14 DEF Told
  <2>2. early' = {} /\ sock[q] = c /\ Told(c, q, p) => Told(c, q, p)'
    BY <1>1, <1>2, <1>9, <1>12, <1>13, <1>14 DEF Told
  <2> QED
    BY <2>1, <2>2, <1>12, <1>13, <1>14, ReadyIs
<1> QED
  BY <1>33, <1>34, <1>35, <1>36

LEMMA RecvMsgAcceptedLink ==
    ASSUME TypeOK, TypeOK', NEW p \in Peers, NEW x, NEW c \in DOMAIN links, Local(p), TlsInv(p), OnLink(p),
           RecvMsgAcceptedDoes(p, x), mishaps' = {}, ~Doomed(p), ~Doomed(p)',
           online[p],
           c = sock[p], NEW q \in Peers, q = Other(c, p), Local(q), ReadyInv(c)
    PROVE  LinkInv(c)' /\ KeyInv(c)' /\ PhaseInv(c)' /\ EndInv(c)' /\ ReadyInv(c)'
<1>1. /\ Runs(p, "accept", "statusOn")' <=> Runs(p, "accept", "statusOn")
      /\ Runs(p, "initHigh", "statusOn")' <=> Runs(p, "initHigh", "statusOn")
      /\ Runs(p, "initLow", "statusOn")' <=> Runs(p, "initLow", "statusOn")
      /\ Runs(p, "statusOn", "statusOn")' <=> Runs(p, "statusOn", "statusOn")
      /\ Runs(p, "cancel", "reset")' <=> Runs(p, "cancel", "reset")
      /\ Runs(p, "reset", "reset")' <=> Runs(p, "reset", "reset")
      /\ Runs(p, "reject", "statusOff")' <=> Runs(p, "reject", "statusOff")
      /\ Runs(p, "reset", "statusOff")' <=> Runs(p, "reset", "statusOff")
      /\ Runs(p, "statusOff", "statusOff")' <=> Runs(p, "statusOff", "statusOff")
      /\ Runs(p, "reset", "close")' <=> Runs(p, "reset", "close")
      /\ Runs(p, "close", "close")' <=> Runs(p, "close", "close")
      /\ Runs(p, "reset", "unconnected")' <=> Runs(p, "reset", "unconnected")
      /\ Runs(p, "lost", "unconnected")' <=> Runs(p, "lost", "unconnected")
      /\ Runs(p, "unconnected", "unconnected")' <=> Runs(p, "unconnected", "unconnected")
      /\ Runs(p, "reset", "again")' <=> Runs(p, "reset", "again")
      /\ Runs(p, "lost", "again")' <=> Runs(p, "lost", "again")
      /\ Runs(p, "again", "again")' <=> Runs(p, "again", "again")
      /\ Runs(p, "stop", "stop")' <=> Runs(p, "stop", "stop")
      /\ Runs(p, "ready", "ready")' <=> Runs(p, "ready", "ready")
      /\ Runs(p, "initFileSenders", "initFileSenders")' <=> Runs(p, "initFileSenders", "initFileSenders")
      /\ \A y : Doing(p, "dial", "request", y)' <=> Doing(p, "dial", "request", y)
      /\ \A y : Doing(p, "exchange", "request", y)' <=> Doing(p, "exchange", "request", y)
      /\ \A y : Doing(p, "connect", "request", y)' <=> Doing(p, "connect", "request", y)
      /\ \A y : Doing(p, "recvMsg", "request", y)' <=> Doing(p, "recvMsg", "request", y)
      /\ \A y : Doing(p, "request", "request", y)' <=> Doing(p, "request", "request", y)
      /\ \A y : Doing(p, "recvMsg", "established", y)' => Doing(p, "recvMsg", "established", y)
      /\ \A y : Doing(p, "recvMsg", "established", y) => Doing(p, "recvMsg", "established", y)' \/ y = x
      /\ Doing(p, "recvMsg", "established", x)
      /\ Once(p) => ~Doing(p, "recvMsg", "established", x)'
      /\ \A y : Doing(p, "established", "established", y)' => Doing(p, "established", "established", y) \/ y = x
      /\ \A y : Doing(p, "established", "established", y) => Doing(p, "established", "established", y)'
      /\ Doing(p, "established", "established", x)'
      /\ \A y : Doing(p, "listen", "started", y)' <=> Doing(p, "listen", "started", y)
      /\ \A y : Doing(p, "started", "started", y)' <=> Doing(p, "started", "started", y)
  BY DEF RecvMsgAcceptedDoes, Advances, Runs
<1>2. /\ Begun(p)' <=> Begun(p)
      /\ \A y : Asks(p, y)' <=> Asks(p, y)
      /\ ToDial(p)' <=> ToDial(p)
      /\ Starting(p)' <=> Starting(p)
      /\ \A y : Starts(p, y)' <=> Starts(p, y)
      /\ Agrees(p)' <=> Agrees(p)
      /\ TakesBack(p)' <=> TakesBack(p)
      /\ Leaves(p)' <=> Leaves(p)
      /\ Closes(p)' <=> Closes(p)
      /\ Resets(p)' <=> Resets(p)
      /\ Ended(p)' <=> Ended(p)
  BY <1>1 DEF Agrees, Asks, Begun, Closes, Ended, Leaves, Resets, Starting, Starts, TakesBack, ToDial
<1>3. LinksKept /\ DOMAIN links' = DOMAIN links
  BY LinksStay DEF RecvMsgAcceptedDoes, TypeOK, LinksKept
<1>4. /\ Uses(p)' <=> Uses(p)
      /\ Calls(p)' <=> Calls(p)
      /\ Takes(p)' <=> Takes(p)
      /\ Uses(p) => /\ From(sock[p])' = From(sock[p]) /\ To(sock[p])' = To(sock[p])
                    /\ Other(sock[p], p)' = Other(sock[p], p)
  BY <1>3, SocketSame DEF RecvMsgAcceptedDoes
<1>7. PeerFacts(p) /\ JobRules(p) /\ JobRules(p)' /\ Says(p)
  BY PeerIs, JobsAre, EndSays
<1>8. /\ status'[p] \in {"waiting", "tls", "tcp"} /\ sock'[p] \in DOMAIN links' \cup {Fresh, Nobody}
      /\ Fresh # Nobody /\ Fresh \notin DOMAIN links' /\ Nobody \notin DOMAIN links'
      /\ DOMAIN links' \subseteq Nat
      /\ engine'[p].listening \in BOOLEAN /\ engine'[p].started \in BOOLEAN /\ engine'[p].senders \in BOOLEAN
  BY PeerIsNext
<1>9. /\ Once(p) => ~Doing(p, "recvMsg", "established", x)'
      /\ Once(p) /\ ~Doing(p, "established", "established", x) => Once(p)'
      /\ x \in Nat
      /\ UNCHANGED <<status[p], sock[p], online[p], dialing[p], target[p], connected[p], ids[p], partner[p], engine[p], ui[p], asked[p], key[p], candidate[p]>>
      /\ reading'[p] = TRUE
      /\ Reads(p)' = Reads(p) \cup {sock[p]}
  BY DEF RecvMsgAcceptedDoes
<1>11. /\ ToDial(p) => /\ sock[p] = Nobody /\ status[p] = "waiting"
                      /\ ~Resets(p) /\ ~Closes(p) /\ ~Runs(p, "stop", "stop")
       /\ ToDial(p)' => /\ sock'[p] = Nobody /\ status'[p] = "waiting"
                       /\ ~Resets(p)' /\ ~Closes(p)' /\ ~Runs(p, "stop", "stop")'
  BY DEF Doomed, Busy
<1>12. /\ q # p /\ Open(c) \subseteq {p, q} /\ sock'[p] = c /\ sock[p] = c /\ Uses(p)
       /\ (From(c) = p /\ To(c) = q) \/ (From(c) = q /\ To(c) = p)
       /\ In(c, p) \in Seq(Message) /\ In(c, q) \in Seq(Message)
       /\ LinkInv(c) /\ KeyInv(c) /\ PhaseInv(c) /\ EndInv(c)
  <2>1. Uses(p) /\ p \in {From(c), To(c)}
    BY DEF Uses, Local, SockInv
  <2> QED
    BY <2>1, <1>9, LinkIs DEF OnLink, TypeOK, Other, From, To
<1>13. /\ sock'[q] = sock[q] /\ key'[q] = key[q] /\ asked'[q] = asked[q] /\ connected'[q] = connected[q]
       /\ ui'[q] = ui[q] /\ engine'[q] = engine[q]
       /\ \A h, l : Runs(q, h, l)' <=> Runs(q, h, l)
       /\ (Begun(q)' <=> Begun(q)) /\ (Resets(q)' <=> Resets(q)) /\ JobRules(q)
  <2>1. Untouched(q) /\ SameKey(q)
    BY <1>12 DEF RecvMsgAcceptedDoes
  <2> QED
    BY <2>1, JobsSame, JobsAre DEF Untouched, SameKey
<1>14. /\ c \in DOMAIN links' /\ From(c)' = From(c) /\ To(c)' = To(c) /\ Open(c)' = Open(c) /\ Taken(c)' = Taken(c)
       /\ (\A r : Other(c, r)' = Other(c, r)) /\ (early' = {} => early = {})
       /\ In(c, p)' = In(c, p) /\ In(c, q)' = In(c, q)
  BY <1>12, LinksStay DEF RecvMsgAcceptedDoes, TypeOK, Kept, Unmoved, Other, From, To
<1>30. EndKept(c, q)
  BY <1>12, <1>13 DEF EndKept
<1>31. EndKept(c, p)
  BY <1>1, <1>2, <1>7, <1>9, <1>12 DEF EndKept, Calls, Takes, Local, PlaceInv, JobRules
<1>32. BoxKept(c, p) /\ BoxKept(c, q)
  BY <1>12, <1>13, <1>14 DEF BoxKept, Other
<1>33. PhaseInv(c)' /\ EndInv(c)'
  BY <1>12, <1>14, <1>30, <1>31, <1>32, LinkKept
<1>34. LinkInv(c)'
  BY <1>12, <1>13, <1>14 DEF LinkInv
<1>35. KeyInv(c)'
  <2>1. key'[p] = key[p] /\ key'[q] = key[q]
    BY <1>9, <1>13
  <2>2. /\ p \in Open(c) => Keyed(In(c, p)', key[p])
        /\ q \in Open(c) => Keyed(In(c, q)', key[q])
    BY <1>9, <1>12, <1>13, <1>14 DEF KeyInv
  <2>3. /\ From(c) = p => Only(In(c, p)', {"accept", "reject", "ready"}) /\ Only(In(c, q)', {"request", "cancel", "ready"})
        /\ From(c) = q => Only(In(c, q)', {"accept", "reject", "ready"}) /\ Only(In(c, p)', {"request", "cancel", "ready"})
    BY <1>9, <1>12, <1>13, <1>14 DEF KeyInv
  <2> QED
    BY <1>12, <1>14, <2>1, <2>2, <2>3, KeyKept
<1>36. ReadyInv(c)'
  <2>1. early' = {} /\ sock[q] = c /\ Told(c, p, q) => Told(c, p, q)'
    BY <1>1, <1>2, <1>9, <1>12, <1>13, <1>14 DEF Told
  <2>2. early' = {} /\ sock[q] = c /\ Told(c, q, p) => Told(c, q, p)'
    BY <1>1, <1>2, <1>9, <1>12, <1>13, <1>14 DEF Told
  <2> QED
    BY <2>1, <2>2, <1>12, <1>13, <1>14, ReadyIs
<1> QED
  BY <1>33, <1>34, <1>35, <1>36

LEMMA SendRequestLink ==
    ASSUME TypeOK, TypeOK', NEW p \in Peers, NEW x, NEW c \in DOMAIN links, Local(p), TlsInv(p), OnLink(p),
           SendRequestDoes(p, x), mishaps' = {}, ~Doomed(p), ~Doomed(p)',
           c = sock[p], NEW q \in Peers, q = Other(c, p), Local(q), ReadyInv(c)
    PROVE  LinkInv(c)' /\ KeyInv(c)' /\ PhaseInv(c)' /\ EndInv(c)' /\ ReadyInv(c)'
<1>1. /\ Runs(p, "accept", "statusOn")' <=> Runs(p, "accept", "statusOn")
      /\ Runs(p, "initHigh", "statusOn")' <=> Runs(p, "initHigh", "statusOn")
      /\ Runs(p, "initLow", "statusOn")' <=> Runs(p, "initLow", "statusOn")
      /\ Runs(p, "statusOn", "statusOn")' <=> Runs(p, "statusOn", "statusOn")
      /\ Runs(p, "cancel", "reset")' <=> Runs(p, "cancel", "reset")
      /\ Runs(p, "reset", "reset")' <=> Runs(p, "reset", "reset")
      /\ Runs(p, "reject", "statusOff")' <=> Runs(p, "reject", "statusOff")
      /\ Runs(p, "reset", "statusOff")' <=> Runs(p, "reset", "statusOff")
      /\ Runs(p, "statusOff", "statusOff")' <=> Runs(p, "statusOff", "statusOff")
      /\ Runs(p, "reset", "close")' <=> Runs(p, "reset", "close")
      /\ Runs(p, "close", "close")' <=> Runs(p, "close", "close")
      /\ Runs(p, "reset", "unconnected")' <=> Runs(p, "reset", "unconnected")
      /\ Runs(p, "lost", "unconnected")' <=> Runs(p, "lost", "unconnected")
      /\ Runs(p, "unconnected", "unconnected")' <=> Runs(p, "unconnected", "unconnected")
      /\ Runs(p, "reset", "again")' <=> Runs(p, "reset", "again")
      /\ Runs(p, "lost", "again")' <=> Runs(p, "lost", "again")
      /\ Runs(p, "again", "again")' <=> Runs(p, "again", "again")
      /\ Runs(p, "stop", "stop")' <=> Runs(p, "stop", "stop")
      /\ Runs(p, "ready", "ready")' <=> Runs(p, "ready", "ready")
      /\ Runs(p, "initFileSenders", "initFileSenders")' <=> Runs(p, "initFileSenders", "initFileSenders")
      /\ \A y : Doing(p, "dial", "request", y)' <=> Doing(p, "dial", "request", y)
      /\ \A y : Doing(p, "exchange", "request", y)' <=> Doing(p, "exchange", "request", y)
      /\ \A y : Doing(p, "connect", "request", y)' <=> Doing(p, "connect", "request", y)
      /\ \A y : Doing(p, "recvMsg", "request", y)' <=> Doing(p, "recvMsg", "request", y)
      /\ \A y : Doing(p, "request", "request", y)' => Doing(p, "request", "request", y)
      /\ \A y : Doing(p, "request", "request", y) => Doing(p, "request", "request", y)' \/ y = x
      /\ Doing(p, "request", "request", x)
      /\ Once(p) => ~Doing(p, "request", "request", x)'
      /\ \A y : Doing(p, "recvMsg", "established", y)' <=> Doing(p, "recvMsg", "established", y)
      /\ \A y : Doing(p, "established", "established", y)' <=> Doing(p, "established", "established", y)
      /\ \A y : Doing(p, "listen", "started", y)' <=> Doing(p, "listen", "started", y)
      /\ \A y : Doing(p, "started", "started", y)' <=> Doing(p, "started", "started", y)
  BY DEF SendRequestDoes, Finishes, Runs
<1>2. /\ ToDial(p)' <=> ToDial(p)
      /\ \A y : Adopts(p, y)' <=> Adopts(p, y)
      /\ Starting(p)' <=> Starting(p)
      /\ \A y : Starts(p, y)' <=> Starts(p, y)
      /\ Agrees(p)' <=> Agrees(p)
      /\ TakesBack(p)' <=> TakesBack(p)
      /\ Leaves(p)' <=> Leaves(p)
      /\ Closes(p)' <=> Closes(p)
      /\ Resets(p)' <=> Resets(p)
      /\ Ended(p)' <=> Ended(p)
  BY <1>1 DEF Adopts, Agrees, Closes, Ended, Leaves, Resets, Starting, Starts, TakesBack, ToDial
<1>3. LinksKept /\ DOMAIN links' = DOMAIN links
  BY DEF SendRequestDoes, LinksKept, Sends
<1>4. /\ Uses(p)' <=> Uses(p)
      /\ Calls(p)' <=> Calls(p)
      /\ Takes(p)' <=> Takes(p)
      /\ Uses(p) => /\ From(sock[p])' = From(sock[p]) /\ To(sock[p])' = To(sock[p])
                    /\ Other(sock[p], p)' = Other(sock[p], p)
  BY <1>3, SocketSame DEF SendRequestDoes
<1>7. PeerFacts(p) /\ JobRules(p) /\ JobRules(p)' /\ Says(p)
  BY PeerIs, JobsAre, EndSays
<1>8. /\ status'[p] \in {"waiting", "tls", "tcp"} /\ sock'[p] \in DOMAIN links' \cup {Fresh, Nobody}
      /\ Fresh # Nobody /\ Fresh \notin DOMAIN links' /\ Nobody \notin DOMAIN links'
      /\ DOMAIN links' \subseteq Nat
      /\ engine'[p].listening \in BOOLEAN /\ engine'[p].started \in BOOLEAN /\ engine'[p].senders \in BOOLEAN
  BY PeerIsNext
<1>9. /\ Once(p) => ~Doing(p, "request", "request", x)'
      /\ Once(p) => Once(p)'
      /\ x \in Peers /\ x # p
      /\ UNCHANGED <<status[p], sock[p], online[p], dialing[p], target[p], reading[p], connected[p], ids[p], engine[p], ui[p], asked[p], key[p], candidate[p], Reads(p)>>
      /\ partner'[p] = x
  BY DEF SendRequestDoes, Sends
<1>11. /\ ToDial(p) => /\ sock[p] = Nobody /\ status[p] = "waiting"
                      /\ ~Resets(p) /\ ~Closes(p) /\ ~Runs(p, "stop", "stop")
       /\ ToDial(p)' => /\ sock'[p] = Nobody /\ status'[p] = "waiting"
                       /\ ~Resets(p)' /\ ~Closes(p)' /\ ~Runs(p, "stop", "stop")'
  BY DEF Doomed, Busy
<1>12. /\ q # p /\ Open(c) \subseteq {p, q} /\ sock'[p] = c /\ sock[p] = c /\ Uses(p)
       /\ (From(c) = p /\ To(c) = q) \/ (From(c) = q /\ To(c) = p)
       /\ In(c, p) \in Seq(Message) /\ In(c, q) \in Seq(Message)
       /\ LinkInv(c) /\ KeyInv(c) /\ PhaseInv(c) /\ EndInv(c)
  <2>1. Uses(p) /\ p \in {From(c), To(c)}
    BY DEF Uses, Local, SockInv
  <2> QED
    BY <2>1, <1>9, LinkIs DEF OnLink, TypeOK, Other, From, To
<1>13. /\ sock'[q] = sock[q] /\ key'[q] = key[q] /\ asked'[q] = asked[q] /\ connected'[q] = connected[q]
       /\ ui'[q] = ui[q] /\ engine'[q] = engine[q]
       /\ \A h, l : Runs(q, h, l)' <=> Runs(q, h, l)
       /\ (Begun(q)' <=> Begun(q)) /\ (Resets(q)' <=> Resets(q)) /\ JobRules(q)
  <2>1. Untouched(q) /\ SameKey(q)
    BY <1>12 DEF SendRequestDoes
  <2> QED
    BY <2>1, JobsSame, JobsAre DEF Untouched, SameKey
<1>14. /\ c \in DOMAIN links' /\ From(c)' = From(c) /\ To(c)' = To(c) /\ Open(c)' = Open(c) /\ Taken(c)' = Taken(c)
       /\ (\A r : Other(c, r)' = Other(c, r)) /\ (early' = {} => early = {})
       /\ In(c, p)' = In(c, p)
       /\ In(c, q)' = IF online[p] /\ Open(c) = {p, q} THEN Append(In(c, q), [type |-> "request", key |-> key[p]]) ELSE In(c, q)
  <2>1. Kept(c) /\ Open(c)' = Open(c) /\ Taken(c)' = Taken(c) /\ c \in DOMAIN links'
    BY DEF SendRequestDoes, Sends
  <2>2. \A r : Other(c, r)' = Other(c, r)
    BY <2>1 DEF Kept, Other, From, To
  <2>3. IF online[p] /\ Open(c) = {p, q}
        THEN In(c, q)' = Append(In(c, q), [type |-> "request", key |-> key[p]]) /\ In(c, p)' = In(c, p)
        ELSE Unmoved(c)
    BY <1>12 DEF SendRequestDoes, Sends
  <2> QED
    BY <1>12, <2>1, <2>2, <2>3 DEF Kept, Unmoved, SendRequestDoes
<1>15. /\ \A ty : Holds(In(c, q)', ty) <=> Holds(In(c, q), ty) \/ (ty = "request" /\ online[p] /\ Open(c) = {p, q})
       /\ \A ty : AtMostOne(In(c, q), ty) /\ (ty = "request" => ~Holds(In(c, q), ty)) => AtMostOne(In(c, q)', ty)
       /\ \A k : Keyed(In(c, q), k) /\ (online[p] /\ Open(c) = {p, q} => key[p] = k) => Keyed(In(c, q)', k)
       /\ \A types : Only(In(c, q), types) /\ "request" \in types => Only(In(c, q)', types)
       /\ InOrder(In(c, q)) /\ ("request" = "request" => ~Holds(In(c, q), "cancel")) => InOrder(In(c, q)')
       /\ In(c, q)' = In(c, q) \/ Open(c) = {p, q}
  <2>1. CASE online[p] /\ Open(c) = {p, q}
    <3>1. PICK m \in Message : m.type = "request" /\ m.key = key[p] /\ In(c, q)' = Append(In(c, q), m)
      <4>1. [type |-> "request", key |-> key[p]] \in Message
        BY DEF TypeOK, Message, Types
      <4> QED
        BY <1>14, <2>1, <4>1
    <3> QED
      BY <1>12, <2>1, <3>1, MessageSent
  <2>2. CASE ~(online[p] /\ Open(c) = {p, q})
    BY <1>14, <2>2
  <2> QED
    BY <2>1, <2>2
<1>16. From(c) = p /\ To(c) = q
  BY <1>1, <1>2, <1>7, <1>9, <1>12 DEF PeerFacts, Local, PlaceInv, WindowInv, AskInv, Says, Calls, Takes, TakesBack, Begun, Asks, Adopts
<1>17. LinkInv(c)'
  BY <1>12, <1>13, <1>14 DEF LinkInv
<1>18. KeyInv(c)'
  <2>1. key'[p] = key[p] /\ key'[q] = key[q]
    BY <1>9, <1>13
  <2>2. /\ p \in Open(c) => Keyed(In(c, p)', key[p])
        /\ q \in Open(c) => Keyed(In(c, q)', key[q])
    BY <1>9, <1>12, <1>13, <1>14, <1>15, <1>16 DEF KeyInv
  <2>3. /\ From(c) = p => Only(In(c, p)', {"accept", "reject", "ready"}) /\ Only(In(c, q)', {"request", "cancel", "ready"})
        /\ From(c) = q => Only(In(c, q)', {"accept", "reject", "ready"}) /\ Only(In(c, p)', {"request", "cancel", "ready"})
    BY <1>9, <1>12, <1>13, <1>14, <1>15, <1>16 DEF KeyInv
  <2> QED
    BY <1>12, <1>14, <2>1, <2>2, <2>3, KeyKept
<1>30. CallerView(c, p, q) /\ CallerView(c, p, q)'
  BY <1>16, <1>12, <1>14, Views
<1>31. /\ Unsent(c)
       /\ ~Unsent(c)'
       /\ Underway(c)'
       /\ Shown(c)' <=> Shown(c)
       /\ Accepting(c)' <=> Accepting(c)
       /\ Rejecting(c)' <=> Rejecting(c)
       /\ Refusal(c)' <=> Refusal(c)
       /\ AcceptSent(c)' <=> AcceptSent(c)
       /\ AcceptHeld(c)' <=> AcceptHeld(c)
       /\ Agreeing(c)' <=> Agreeing(c)
       /\ Open(c) = {p, q} /\ online[p] /\ ~Runs(p, "reset", "reset")
       /\ ~Holds(In(c, q), "cancel") /\ ~(sock[q] = c /\ Resets(q))
  <2>1. /\ Begun(p) /\ Unsent(c) /\ To(c) = q /\ x \in Peers
        /\ Doing(p, "request", "request", x) /\ ~Doing(p, "request", "request", x)'
    BY <1>1, <1>9, <1>16, <1>30 DEF Begun, Asks, CallerView, Local, AskInv
  <2>2. ~Begun(p)'
    <3>1. \A y \in Peers : ~Doing(p, "exchange", "request", y) /\ ~Doing(p, "connect", "request", y)
      BY <1>7, <1>12 DEF Local, AskInv, PeerFacts
    <3>2. \A y \in Peers : Doing(p, "recvMsg", "request", y) \/ Doing(p, "request", "request", y) => y = x
      BY <2>1 DEF Local, AskInv
    <3>3. \A y \in Peers : ~Doing(p, "recvMsg", "request", y)
      BY <2>1, <3>2 DEF Local, AskInv
    <3> QED
      BY <1>1, <2>1, <3>1, <3>2, <3>3 DEF Begun, Asks
  <2>3. /\ q \in Open(c) /\ p \in Open(c) /\ ~Holds(In(c, q), "cancel") /\ ~(sock[q] = c /\ Resets(q))
    BY <1>12, <1>16, <2>1 DEF EndInv, CancelInv, LinkInv
  <2>4. online[p] /\ Open(c) = {p, q} /\ ~Runs(p, "reset", "reset")
    BY <1>7, <1>12, <2>1, <2>3 DEF Local, SockInv, AskInv, JobRules
  <2>5. ~Unsent(c)' /\ Underway(c)'
    BY <1>15, <1>30, <2>2, <2>4 DEF CallerView
  <2>6. /\ Shown(c)' <=> Shown(c)
        /\ Accepting(c)' <=> Accepting(c)
        /\ Rejecting(c)' <=> Rejecting(c)
        /\ Agreeing(c)' <=> Agreeing(c)
    BY <1>13, <1>30 DEF CallerView
  <2>7. /\ Refusal(c)' <=> Refusal(c)
        /\ AcceptSent(c)' <=> AcceptSent(c)
        /\ AcceptHeld(c)' <=> AcceptHeld(c)
    <3>1. /\ Runs(p, "reset", "statusOff")' <=> Runs(p, "reset", "statusOff")
          /\ Runs(p, "initLow", "statusOn")' <=> Runs(p, "initLow", "statusOn")
          /\ Runs(p, "statusOn", "statusOn")' <=> Runs(p, "statusOn", "statusOn")
          /\ connected'[p] = connected[p] /\ In(c, p)' = In(c, p)
      BY <1>1, <1>9, <1>14
    <3> QED
      BY <1>13, <1>30, <3>1 DEF CallerView
  <2> QED
    BY <2>1, <2>3, <2>4, <2>5, <2>6, <2>7
<1>32. PhaseInv(c)'
  BY <1>12, <1>13, <1>14, <1>15, <1>16, <1>30, <1>31 DEF PhaseInv, CallerView
<1>33. BothInv(c)'
  BY <1>1, <1>2, <1>7, <1>9, <1>12, <1>13, <1>14, <1>15, <1>16, <1>31 DEF EndInv, BothInv, LinkInv, JobRules
<1>34. AnswerInv(c)'
  BY <1>1, <1>2, <1>7, <1>9, <1>12, <1>13, <1>14, <1>15, <1>16, <1>31 DEF EndInv, AnswerInv, LinkInv, JobRules
<1>35. CancelInv(c)'
  <2>1. InOrder(In(c, q)')
    BY <1>12, <1>15, <1>16, <1>31 DEF EndInv, CancelInv
  <2>2. ~Holds(In(c, q)', "cancel")
    BY <1>15, <1>31
  <2>3. ~(sock'[q] = c /\ Runs(q, "reset", "reset")')
    BY <1>13, <1>31 DEF JobRules
  <2>4. p \in Open(c)' /\ ~Runs(p, "reset", "reset")'
    <3>1. Runs(p, "reset", "reset")' <=> Runs(p, "reset", "reset")
      BY <1>1
    <3> QED
      BY <1>14, <1>31, <3>1
  <2> QED
    BY <1>14, <1>16, <1>31, <2>1, <2>2, <2>3, <2>4 DEF CancelInv
<1>36. RejectInv(c)'
  BY <1>1, <1>2, <1>7, <1>9, <1>12, <1>13, <1>14, <1>15, <1>16, <1>31 DEF EndInv, RejectInv, LinkInv, JobRules
<1>37. UntakenInv(c)'
  BY <1>1, <1>2, <1>7, <1>9, <1>12, <1>13, <1>14, <1>15, <1>16, <1>31 DEF EndInv, UntakenInv, LinkInv, JobRules
<1>38. LastInv(c)'
  <2>1. /\ sock[p] = c /\ Runs(p, "reset", "again") => In(c, p) = << >> /\ q \notin Open(c)
        /\ sock[q] = c /\ Runs(q, "reset", "again") => In(c, q) = << >> /\ p \notin Open(c)
    <3>1. LastInv(c)
      BY <1>12 DEF EndInv
    <3> QED
      BY <3>1, <1>12, <1>14, LastIs
  <2>2. p \in Open(c)
    BY <1>12 DEF LinkInv
  <2>3. ~(sock'[q] = c /\ Runs(q, "reset", "again")')
    BY <1>13, <2>1, <2>2
  <2>4. sock'[p] = c /\ Runs(p, "reset", "again")' => In(c, p)' = << >> /\ q \notin Open(c)'
    <3>1. Runs(p, "reset", "again")' <=> Runs(p, "reset", "again")
      BY <1>1
    <3> QED
      BY <1>12, <1>14, <2>1, <3>1
  <2> QED
    BY <1>12, <1>14, <2>3, <2>4, LastIs
<1>39. ReadyInv(c)'
  <2>1. early' = {} /\ sock[q] = c /\ Told(c, p, q) => Told(c, p, q)'
    BY <1>1, <1>2, <1>9, <1>12, <1>13, <1>14, <1>15 DEF Told
  <2>2. early' = {} /\ sock[q] = c /\ Told(c, q, p) => Told(c, q, p)'
    BY <1>1, <1>2, <1>9, <1>12, <1>13, <1>14, <1>15 DEF Told
  <2> QED
    BY <2>1, <2>2, <1>12, <1>13, <1>14, ReadyIs
<1> QED
  BY <1>17, <1>18, <1>32, <1>33, <1>34, <1>35, <1>36, <1>37, <1>38, <1>39 DEF EndInv

LEMMA SendAcceptLink ==
    ASSUME TypeOK, TypeOK', NEW p \in Peers, NEW c \in DOMAIN links, Local(p), TlsInv(p), OnLink(p),
           SendAcceptDoes(p), mishaps' = {}, ~Doomed(p), ~Doomed(p)',
           c = sock[p], NEW q \in Peers, q = Other(c, p), Local(q), ReadyInv(c)
    PROVE  LinkInv(c)' /\ KeyInv(c)' /\ PhaseInv(c)' /\ EndInv(c)' /\ ReadyInv(c)'
<1>1. /\ Runs(p, "accept", "statusOn")
      /\ Once(p) => ~Runs(p, "accept", "statusOn")'
      /\ Runs(p, "initHigh", "statusOn")'
      /\ Runs(p, "initLow", "statusOn")' <=> Runs(p, "initLow", "statusOn")
      /\ Runs(p, "statusOn", "statusOn")' <=> Runs(p, "statusOn", "statusOn")
      /\ Runs(p, "cancel", "reset")' <=> Runs(p, "cancel", "reset")
      /\ Runs(p, "reset", "reset")' <=> Runs(p, "reset", "reset")
      /\ Runs(p, "reject", "statusOff")' <=> Runs(p, "reject", "statusOff")
      /\ Runs(p, "reset", "statusOff")' <=> Runs(p, "reset", "statusOff")
      /\ Runs(p, "statusOff", "statusOff")' <=> Runs(p, "statusOff", "statusOff")
      /\ Runs(p, "reset", "close")' <=> Runs(p, "reset", "close")
      /\ Runs(p, "close", "close")' <=> Runs(p, "close", "close")
      /\ Runs(p, "reset", "unconnected")' <=> Runs(p, "reset", "unconnected")
      /\ Runs(p, "lost", "unconnected")' <=> Runs(p, "lost", "unconnected")
      /\ Runs(p, "unconnected", "unconnected")' <=> Runs(p, "unconnected", "unconnected")
      /\ Runs(p, "reset", "again")' <=> Runs(p, "reset", "again")
      /\ Runs(p, "lost", "again")' <=> Runs(p, "lost", "again")
      /\ Runs(p, "again", "again")' <=> Runs(p, "again", "again")
      /\ Runs(p, "stop", "stop")' <=> Runs(p, "stop", "stop")
      /\ Runs(p, "ready", "ready")' <=> Runs(p, "ready", "ready")
      /\ Runs(p, "initFileSenders", "initFileSenders")' <=> Runs(p, "initFileSenders", "initFileSenders")
      /\ \A y : Doing(p, "dial", "request", y)' <=> Doing(p, "dial", "request", y)
      /\ \A y : Doing(p, "exchange", "request", y)' <=> Doing(p, "exchange", "request", y)
      /\ \A y : Doing(p, "connect", "request", y)' <=> Doing(p, "connect", "request", y)
      /\ \A y : Doing(p, "recvMsg", "request", y)' <=> Doing(p, "recvMsg", "request", y)
      /\ \A y : Doing(p, "request", "request", y)' <=> Doing(p, "request", "request", y)
      /\ \A y : Doing(p, "recvMsg", "established", y)' <=> Doing(p, "recvMsg", "established", y)
      /\ \A y : Doing(p, "established", "established", y)' <=> Doing(p, "established", "established", y)
      /\ \A y : Doing(p, "listen", "started", y)' <=> Doing(p, "listen", "started", y)
      /\ \A y : Doing(p, "started", "started", y)' <=> Doing(p, "started", "started", y)
  BY DEF SendAcceptDoes, Advances, Runs
<1>2. /\ Begun(p)' <=> Begun(p)
      /\ \A y : Asks(p, y)' <=> Asks(p, y)
      /\ ToDial(p)' <=> ToDial(p)
      /\ \A y : Adopts(p, y)' <=> Adopts(p, y)
      /\ Starting(p)' <=> Starting(p)
      /\ \A y : Starts(p, y)' <=> Starts(p, y)
      /\ TakesBack(p)' <=> TakesBack(p)
      /\ Leaves(p)' <=> Leaves(p)
      /\ Closes(p)' <=> Closes(p)
      /\ Resets(p)' <=> Resets(p)
      /\ Ended(p)' <=> Ended(p)
  BY <1>1 DEF Adopts, Asks, Begun, Closes, Ended, Leaves, Resets, Starting, Starts, TakesBack, ToDial
<1>3. LinksKept /\ DOMAIN links' = DOMAIN links
  BY DEF SendAcceptDoes, LinksKept, Sends
<1>4. /\ Uses(p)' <=> Uses(p)
      /\ Calls(p)' <=> Calls(p)
      /\ Takes(p)' <=> Takes(p)
      /\ Uses(p) => /\ From(sock[p])' = From(sock[p]) /\ To(sock[p])' = To(sock[p])
                    /\ Other(sock[p], p)' = Other(sock[p], p)
  BY <1>3, SocketSame DEF SendAcceptDoes
<1>7. PeerFacts(p) /\ JobRules(p) /\ JobRules(p)' /\ Says(p)
  BY PeerIs, JobsAre, EndSays
<1>8. /\ status'[p] \in {"waiting", "tls", "tcp"} /\ sock'[p] \in DOMAIN links' \cup {Fresh, Nobody}
      /\ Fresh # Nobody /\ Fresh \notin DOMAIN links' /\ Nobody \notin DOMAIN links'
      /\ DOMAIN links' \subseteq Nat
      /\ engine'[p].listening \in BOOLEAN /\ engine'[p].started \in BOOLEAN /\ engine'[p].senders \in BOOLEAN
  BY PeerIsNext
<1>9. /\ Once(p) => ~Doing(p, "accept", "statusOn", Nobody)'
      /\ Once(p) => Once(p)'
      /\ UNCHANGED <<status[p], sock[p], online[p], dialing[p], target[p], reading[p], connected[p], ids[p], partner[p], engine[p], ui[p], asked[p], key[p], candidate[p], Reads(p)>>
  BY DEF SendAcceptDoes, Sends
<1>11. /\ ToDial(p) => /\ sock[p] = Nobody /\ status[p] = "waiting"
                      /\ ~Resets(p) /\ ~Closes(p) /\ ~Runs(p, "stop", "stop")
       /\ ToDial(p)' => /\ sock'[p] = Nobody /\ status'[p] = "waiting"
                       /\ ~Resets(p)' /\ ~Closes(p)' /\ ~Runs(p, "stop", "stop")'
  BY DEF Doomed, Busy
<1>12. /\ q # p /\ Open(c) \subseteq {p, q} /\ sock'[p] = c /\ sock[p] = c /\ Uses(p)
       /\ (From(c) = p /\ To(c) = q) \/ (From(c) = q /\ To(c) = p)
       /\ In(c, p) \in Seq(Message) /\ In(c, q) \in Seq(Message)
       /\ LinkInv(c) /\ KeyInv(c) /\ PhaseInv(c) /\ EndInv(c)
  <2>1. Uses(p) /\ p \in {From(c), To(c)}
    BY DEF Uses, Local, SockInv
  <2> QED
    BY <2>1, <1>9, LinkIs DEF OnLink, TypeOK, Other, From, To
<1>13. /\ sock'[q] = sock[q] /\ key'[q] = key[q] /\ asked'[q] = asked[q] /\ connected'[q] = connected[q]
       /\ ui'[q] = ui[q] /\ engine'[q] = engine[q]
       /\ \A h, l : Runs(q, h, l)' <=> Runs(q, h, l)
       /\ (Begun(q)' <=> Begun(q)) /\ (Resets(q)' <=> Resets(q)) /\ JobRules(q)
  <2>1. Untouched(q) /\ SameKey(q)
    BY <1>12 DEF SendAcceptDoes
  <2> QED
    BY <2>1, JobsSame, JobsAre DEF Untouched, SameKey
<1>14. /\ c \in DOMAIN links' /\ From(c)' = From(c) /\ To(c)' = To(c) /\ Open(c)' = Open(c) /\ Taken(c)' = Taken(c)
       /\ (\A r : Other(c, r)' = Other(c, r)) /\ (early' = {} => early = {})
       /\ In(c, p)' = In(c, p)
       /\ In(c, q)' = IF online[p] /\ Open(c) = {p, q} THEN Append(In(c, q), [type |-> "accept", key |-> key[p]]) ELSE In(c, q)
  <2>1. Kept(c) /\ Open(c)' = Open(c) /\ Taken(c)' = Taken(c) /\ c \in DOMAIN links'
    BY DEF SendAcceptDoes, Sends
  <2>2. \A r : Other(c, r)' = Other(c, r)
    BY <2>1 DEF Kept, Other, From, To
  <2>3. IF online[p] /\ Open(c) = {p, q}
        THEN In(c, q)' = Append(In(c, q), [type |-> "accept", key |-> key[p]]) /\ In(c, p)' = In(c, p)
        ELSE Unmoved(c)
    BY <1>12 DEF SendAcceptDoes, Sends
  <2> QED
    BY <1>12, <2>1, <2>2, <2>3 DEF Kept, Unmoved, SendAcceptDoes
<1>15. /\ \A ty : Holds(In(c, q)', ty) <=> Holds(In(c, q), ty) \/ (ty = "accept" /\ online[p] /\ Open(c) = {p, q})
       /\ \A ty : AtMostOne(In(c, q), ty) /\ (ty = "accept" => ~Holds(In(c, q), ty)) => AtMostOne(In(c, q)', ty)
       /\ \A k : Keyed(In(c, q), k) /\ (online[p] /\ Open(c) = {p, q} => key[p] = k) => Keyed(In(c, q)', k)
       /\ \A types : Only(In(c, q), types) /\ "accept" \in types => Only(In(c, q)', types)
       /\ InOrder(In(c, q)) /\ ("accept" = "request" => ~Holds(In(c, q), "cancel")) => InOrder(In(c, q)')
       /\ In(c, q)' = In(c, q) \/ Open(c) = {p, q}
  <2>1. CASE online[p] /\ Open(c) = {p, q}
    <3>1. PICK m \in Message : m.type = "accept" /\ m.key = key[p] /\ In(c, q)' = Append(In(c, q), m)
      <4>1. [type |-> "accept", key |-> key[p]] \in Message
        BY DEF TypeOK, Message, Types
      <4> QED
        BY <1>14, <2>1, <4>1
    <3> QED
      BY <1>12, <2>1, <3>1, MessageSent
  <2>2. CASE ~(online[p] /\ Open(c) = {p, q})
    BY <1>14, <2>2
  <2> QED
    BY <2>1, <2>2
<1>16. From(c) = q /\ To(c) = p
  BY <1>1, <1>2, <1>7, <1>9, <1>12 DEF PeerFacts, Local, PlaceInv, WindowInv, AskInv, Says, Calls, Takes, TakesBack, Begun, Asks, Adopts
<1>17. LinkInv(c)'
  BY <1>12, <1>13, <1>14 DEF LinkInv
<1>18. KeyInv(c)'
  <2>1. key'[p] = key[p] /\ key'[q] = key[q]
    BY <1>9, <1>13
  <2>2. /\ p \in Open(c) => Keyed(In(c, p)', key[p])
        /\ q \in Open(c) => Keyed(In(c, q)', key[q])
    BY <1>9, <1>12, <1>13, <1>14, <1>15, <1>16 DEF KeyInv
  <2>3. /\ From(c) = p => Only(In(c, p)', {"accept", "reject", "ready"}) /\ Only(In(c, q)', {"request", "cancel", "ready"})
        /\ From(c) = q => Only(In(c, q)', {"accept", "reject", "ready"}) /\ Only(In(c, p)', {"request", "cancel", "ready"})
    BY <1>9, <1>12, <1>13, <1>14, <1>15, <1>16 DEF KeyInv
  <2> QED
    BY <1>12, <1>14, <2>1, <2>2, <2>3, KeyKept
<1>60. TakerView(c, p, q) /\ TakerView(c, p, q)'
  BY <1>16, <1>12, <1>14, Views
<1>61. /\ Unsent(c)' <=> Unsent(c)
       /\ Underway(c)' <=> Underway(c)
       /\ Shown(c)' <=> Shown(c)
       /\ Accepting(c)
       /\ ~Accepting(c)'
       /\ Rejecting(c)' <=> Rejecting(c)
       /\ Refusal(c)' <=> Refusal(c)
       /\ AcceptSent(c)'
       /\ AcceptHeld(c)' <=> AcceptHeld(c)
       /\ Agreeing(c)'
       /\ Open(c) = {p, q} /\ online[p]
       /\ ~Unsent(c)
  BY <1>1, <1>2, <1>7, <1>9, <1>12, <1>13, <1>14, <1>15, <1>16, <1>60 DEF TakerView, Local, PlaceInv, PeerFacts, Says, Calls, Takes, PhaseInv, AskInv, SendAcceptDoes
<1>62. PhaseInv(c)'
  BY <1>12, <1>13, <1>14, <1>15, <1>16, <1>60, <1>61 DEF PhaseInv, TakerView
<1>63. BothInv(c)'
  BY <1>1, <1>2, <1>7, <1>9, <1>12, <1>13, <1>14, <1>15, <1>16, <1>61 DEF EndInv, BothInv, LinkInv, JobRules
<1>64. AnswerInv(c)'
  BY <1>1, <1>2, <1>7, <1>9, <1>12, <1>13, <1>14, <1>15, <1>16, <1>61 DEF EndInv, AnswerInv, LinkInv, JobRules
<1>65. CancelInv(c)'
  BY <1>1, <1>2, <1>7, <1>9, <1>12, <1>13, <1>14, <1>15, <1>16, <1>61, <1>60 DEF EndInv, CancelInv, LinkInv, JobRules, TakerView
<1>66. RejectInv(c)'
  BY <1>1, <1>2, <1>7, <1>9, <1>12, <1>13, <1>14, <1>15, <1>16, <1>61 DEF EndInv, RejectInv, LinkInv, JobRules
<1>67. UntakenInv(c)'
  BY <1>1, <1>2, <1>7, <1>9, <1>12, <1>13, <1>14, <1>15, <1>16, <1>61 DEF EndInv, UntakenInv, LinkInv, JobRules
<1>68. LastInv(c)'
  <2>1. /\ sock[p] = c /\ Runs(p, "reset", "again") => In(c, p) = << >> /\ q \notin Open(c)
        /\ sock[q] = c /\ Runs(q, "reset", "again") => In(c, q) = << >> /\ p \notin Open(c)
    <3>1. LastInv(c)
      BY <1>12 DEF EndInv
    <3> QED
      BY <3>1, <1>12, <1>14, LastIs
  <2>2. p \in Open(c)
    BY <1>12 DEF LinkInv
  <2>3. ~(sock'[q] = c /\ Runs(q, "reset", "again")')
    BY <1>13, <2>1, <2>2
  <2>4. sock'[p] = c /\ Runs(p, "reset", "again")' => In(c, p)' = << >> /\ q \notin Open(c)'
    <3>1. Runs(p, "reset", "again")' <=> Runs(p, "reset", "again")
      BY <1>1
    <3> QED
      BY <1>12, <1>14, <2>1, <3>1
  <2> QED
    BY <1>12, <1>14, <2>3, <2>4, LastIs
<1>69. ReadyInv(c)'
  <2>1. early' = {} /\ sock[q] = c /\ Told(c, p, q) => Told(c, p, q)'
    BY <1>1, <1>2, <1>9, <1>12, <1>13, <1>14, <1>15 DEF Told
  <2>2. early' = {} /\ sock[q] = c /\ Told(c, q, p) => Told(c, q, p)'
    BY <1>1, <1>2, <1>9, <1>12, <1>13, <1>14, <1>15 DEF Told
  <2> QED
    BY <2>1, <2>2, <1>12, <1>13, <1>14, ReadyIs
<1> QED
  BY <1>17, <1>18, <1>62, <1>63, <1>64, <1>65, <1>66, <1>67, <1>68, <1>69 DEF EndInv

LEMMA SendRejectLink ==
    ASSUME TypeOK, TypeOK', NEW p \in Peers, NEW c \in DOMAIN links, Local(p), TlsInv(p), OnLink(p),
           SendRejectDoes(p), mishaps' = {}, ~Doomed(p), ~Doomed(p)',
           c = sock[p], NEW q \in Peers, q = Other(c, p), Local(q), ReadyInv(c)
    PROVE  LinkInv(c)' /\ KeyInv(c)' /\ PhaseInv(c)' /\ EndInv(c)' /\ ReadyInv(c)'
<1>1. /\ Runs(p, "accept", "statusOn")' <=> Runs(p, "accept", "statusOn")
      /\ Runs(p, "initHigh", "statusOn")' <=> Runs(p, "initHigh", "statusOn")
      /\ Runs(p, "initLow", "statusOn")' <=> Runs(p, "initLow", "statusOn")
      /\ Runs(p, "statusOn", "statusOn")' <=> Runs(p, "statusOn", "statusOn")
      /\ Runs(p, "cancel", "reset")' <=> Runs(p, "cancel", "reset")
      /\ Runs(p, "reset", "reset")' <=> Runs(p, "reset", "reset")
      /\ Runs(p, "reject", "statusOff")
      /\ Once(p) => ~Runs(p, "reject", "statusOff")'
      /\ Runs(p, "reset", "statusOff")'
      /\ Runs(p, "statusOff", "statusOff")' <=> Runs(p, "statusOff", "statusOff")
      /\ Runs(p, "reset", "close")' <=> Runs(p, "reset", "close")
      /\ Runs(p, "close", "close")' <=> Runs(p, "close", "close")
      /\ Runs(p, "reset", "unconnected")' <=> Runs(p, "reset", "unconnected")
      /\ Runs(p, "lost", "unconnected")' <=> Runs(p, "lost", "unconnected")
      /\ Runs(p, "unconnected", "unconnected")' <=> Runs(p, "unconnected", "unconnected")
      /\ Runs(p, "reset", "again")' <=> Runs(p, "reset", "again")
      /\ Runs(p, "lost", "again")' <=> Runs(p, "lost", "again")
      /\ Runs(p, "again", "again")' <=> Runs(p, "again", "again")
      /\ Runs(p, "stop", "stop")' <=> Runs(p, "stop", "stop")
      /\ Runs(p, "ready", "ready")' <=> Runs(p, "ready", "ready")
      /\ Runs(p, "initFileSenders", "initFileSenders")' <=> Runs(p, "initFileSenders", "initFileSenders")
      /\ \A y : Doing(p, "dial", "request", y)' <=> Doing(p, "dial", "request", y)
      /\ \A y : Doing(p, "exchange", "request", y)' <=> Doing(p, "exchange", "request", y)
      /\ \A y : Doing(p, "connect", "request", y)' <=> Doing(p, "connect", "request", y)
      /\ \A y : Doing(p, "recvMsg", "request", y)' <=> Doing(p, "recvMsg", "request", y)
      /\ \A y : Doing(p, "request", "request", y)' <=> Doing(p, "request", "request", y)
      /\ \A y : Doing(p, "recvMsg", "established", y)' <=> Doing(p, "recvMsg", "established", y)
      /\ \A y : Doing(p, "established", "established", y)' <=> Doing(p, "established", "established", y)
      /\ \A y : Doing(p, "listen", "started", y)' <=> Doing(p, "listen", "started", y)
      /\ \A y : Doing(p, "started", "started", y)' <=> Doing(p, "started", "started", y)
  BY DEF SendRejectDoes, Advances, Runs
<1>2. /\ Begun(p)' <=> Begun(p)
      /\ \A y : Asks(p, y)' <=> Asks(p, y)
      /\ ToDial(p)' <=> ToDial(p)
      /\ \A y : Adopts(p, y)' <=> Adopts(p, y)
      /\ Starting(p)' <=> Starting(p)
      /\ \A y : Starts(p, y)' <=> Starts(p, y)
      /\ Agrees(p)' <=> Agrees(p)
      /\ TakesBack(p)' <=> TakesBack(p)
      /\ Closes(p)' <=> Closes(p)
      /\ Ended(p)' <=> Ended(p)
  BY <1>1 DEF Adopts, Agrees, Asks, Begun, Closes, Ended, Starting, Starts, TakesBack, ToDial
<1>3. LinksKept /\ DOMAIN links' = DOMAIN links
  BY DEF SendRejectDoes, LinksKept, Sends
<1>4. /\ Uses(p)' <=> Uses(p)
      /\ Calls(p)' <=> Calls(p)
      /\ Takes(p)' <=> Takes(p)
      /\ Uses(p) => /\ From(sock[p])' = From(sock[p]) /\ To(sock[p])' = To(sock[p])
                    /\ Other(sock[p], p)' = Other(sock[p], p)
  BY <1>3, SocketSame DEF SendRejectDoes
<1>7. PeerFacts(p) /\ JobRules(p) /\ JobRules(p)' /\ Says(p)
  BY PeerIs, JobsAre, EndSays
<1>8. /\ status'[p] \in {"waiting", "tls", "tcp"} /\ sock'[p] \in DOMAIN links' \cup {Fresh, Nobody}
      /\ Fresh # Nobody /\ Fresh \notin DOMAIN links' /\ Nobody \notin DOMAIN links'
      /\ DOMAIN links' \subseteq Nat
      /\ engine'[p].listening \in BOOLEAN /\ engine'[p].started \in BOOLEAN /\ engine'[p].senders \in BOOLEAN
  BY PeerIsNext
<1>9. /\ Once(p) => ~Doing(p, "reject", "statusOff", Nobody)'
      /\ Once(p) => Once(p)'
      /\ UNCHANGED <<status[p], sock[p], online[p], dialing[p], target[p], reading[p], connected[p], ids[p], partner[p], engine[p], ui[p], asked[p], key[p], candidate[p], Reads(p)>>
  BY DEF SendRejectDoes, Sends
<1>11. /\ ToDial(p) => /\ sock[p] = Nobody /\ status[p] = "waiting"
                      /\ ~Resets(p) /\ ~Closes(p) /\ ~Runs(p, "stop", "stop")
       /\ ToDial(p)' => /\ sock'[p] = Nobody /\ status'[p] = "waiting"
                       /\ ~Resets(p)' /\ ~Closes(p)' /\ ~Runs(p, "stop", "stop")'
  BY DEF Doomed, Busy
<1>12. /\ q # p /\ Open(c) \subseteq {p, q} /\ sock'[p] = c /\ sock[p] = c /\ Uses(p)
       /\ (From(c) = p /\ To(c) = q) \/ (From(c) = q /\ To(c) = p)
       /\ In(c, p) \in Seq(Message) /\ In(c, q) \in Seq(Message)
       /\ LinkInv(c) /\ KeyInv(c) /\ PhaseInv(c) /\ EndInv(c)
  <2>1. Uses(p) /\ p \in {From(c), To(c)}
    BY DEF Uses, Local, SockInv
  <2> QED
    BY <2>1, <1>9, LinkIs DEF OnLink, TypeOK, Other, From, To
<1>13. /\ sock'[q] = sock[q] /\ key'[q] = key[q] /\ asked'[q] = asked[q] /\ connected'[q] = connected[q]
       /\ ui'[q] = ui[q] /\ engine'[q] = engine[q]
       /\ \A h, l : Runs(q, h, l)' <=> Runs(q, h, l)
       /\ (Begun(q)' <=> Begun(q)) /\ (Resets(q)' <=> Resets(q)) /\ JobRules(q)
  <2>1. Untouched(q) /\ SameKey(q)
    BY <1>12 DEF SendRejectDoes
  <2> QED
    BY <2>1, JobsSame, JobsAre DEF Untouched, SameKey
<1>14. /\ c \in DOMAIN links' /\ From(c)' = From(c) /\ To(c)' = To(c) /\ Open(c)' = Open(c) /\ Taken(c)' = Taken(c)
       /\ (\A r : Other(c, r)' = Other(c, r)) /\ (early' = {} => early = {})
       /\ In(c, p)' = In(c, p)
       /\ In(c, q)' = IF online[p] /\ Open(c) = {p, q} THEN Append(In(c, q), [type |-> "reject", key |-> key[p]]) ELSE In(c, q)
  <2>1. Kept(c) /\ Open(c)' = Open(c) /\ Taken(c)' = Taken(c) /\ c \in DOMAIN links'
    BY DEF SendRejectDoes, Sends
  <2>2. \A r : Other(c, r)' = Other(c, r)
    BY <2>1 DEF Kept, Other, From, To
  <2>3. IF online[p] /\ Open(c) = {p, q}
        THEN In(c, q)' = Append(In(c, q), [type |-> "reject", key |-> key[p]]) /\ In(c, p)' = In(c, p)
        ELSE Unmoved(c)
    BY <1>12 DEF SendRejectDoes, Sends
  <2> QED
    BY <1>12, <2>1, <2>2, <2>3 DEF Kept, Unmoved, SendRejectDoes
<1>15. /\ \A ty : Holds(In(c, q)', ty) <=> Holds(In(c, q), ty) \/ (ty = "reject" /\ online[p] /\ Open(c) = {p, q})
       /\ \A ty : AtMostOne(In(c, q), ty) /\ (ty = "reject" => ~Holds(In(c, q), ty)) => AtMostOne(In(c, q)', ty)
       /\ \A k : Keyed(In(c, q), k) /\ (online[p] /\ Open(c) = {p, q} => key[p] = k) => Keyed(In(c, q)', k)
       /\ \A types : Only(In(c, q), types) /\ "reject" \in types => Only(In(c, q)', types)
       /\ InOrder(In(c, q)) /\ ("reject" = "request" => ~Holds(In(c, q), "cancel")) => InOrder(In(c, q)')
       /\ In(c, q)' = In(c, q) \/ Open(c) = {p, q}
  <2>1. CASE online[p] /\ Open(c) = {p, q}
    <3>1. PICK m \in Message : m.type = "reject" /\ m.key = key[p] /\ In(c, q)' = Append(In(c, q), m)
      <4>1. [type |-> "reject", key |-> key[p]] \in Message
        BY DEF TypeOK, Message, Types
      <4> QED
        BY <1>14, <2>1, <4>1
    <3> QED
      BY <1>12, <2>1, <3>1, MessageSent
  <2>2. CASE ~(online[p] /\ Open(c) = {p, q})
    BY <1>14, <2>2
  <2> QED
    BY <2>1, <2>2
<1>16. From(c) = q /\ To(c) = p
  BY <1>1, <1>2, <1>7, <1>9, <1>12 DEF PeerFacts, Local, PlaceInv, WindowInv, AskInv, Says, Calls, Takes, TakesBack, Begun, Asks, Adopts
<1>17. LinkInv(c)'
  BY <1>12, <1>13, <1>14 DEF LinkInv
<1>18. KeyInv(c)'
  <2>1. key'[p] = key[p] /\ key'[q] = key[q]
    BY <1>9, <1>13
  <2>2. /\ p \in Open(c) => Keyed(In(c, p)', key[p])
        /\ q \in Open(c) => Keyed(In(c, q)', key[q])
    BY <1>9, <1>12, <1>13, <1>14, <1>15, <1>16 DEF KeyInv
  <2>3. /\ From(c) = p => Only(In(c, p)', {"accept", "reject", "ready"}) /\ Only(In(c, q)', {"request", "cancel", "ready"})
        /\ From(c) = q => Only(In(c, q)', {"accept", "reject", "ready"}) /\ Only(In(c, p)', {"request", "cancel", "ready"})
    BY <1>9, <1>12, <1>13, <1>14, <1>15, <1>16 DEF KeyInv
  <2> QED
    BY <1>12, <1>14, <2>1, <2>2, <2>3, KeyKept
<1>60. TakerView(c, p, q) /\ TakerView(c, p, q)'
  BY <1>16, <1>12, <1>14, Views
<1>61. /\ Unsent(c)' <=> Unsent(c)
       /\ Underway(c)' <=> Underway(c)
       /\ Shown(c)' <=> Shown(c)
       /\ Accepting(c)' <=> Accepting(c)
       /\ Rejecting(c)
       /\ ~Rejecting(c)'
       /\ Refusal(c)'
       /\ AcceptSent(c)' <=> AcceptSent(c)
       /\ AcceptHeld(c)' <=> AcceptHeld(c)
       /\ Agreeing(c)' <=> Agreeing(c)
       /\ online[p]
       /\ ~Unsent(c)
  BY <1>1, <1>2, <1>7, <1>9, <1>12, <1>13, <1>14, <1>15, <1>16, <1>60 DEF TakerView, Local, PlaceInv, PeerFacts, Says, Calls, Takes, PhaseInv, AskInv, SockInv
<1>62. PhaseInv(c)'
  BY <1>12, <1>13, <1>14, <1>15, <1>16, <1>60, <1>61 DEF PhaseInv, TakerView
<1>63. BothInv(c)'
  BY <1>1, <1>2, <1>7, <1>9, <1>12, <1>13, <1>14, <1>15, <1>16, <1>61 DEF EndInv, BothInv, LinkInv, JobRules
<1>64. AnswerInv(c)'
  BY <1>1, <1>2, <1>7, <1>9, <1>12, <1>13, <1>14, <1>15, <1>16, <1>61 DEF EndInv, AnswerInv, LinkInv, JobRules
<1>65. CancelInv(c)'
  BY <1>1, <1>2, <1>7, <1>9, <1>12, <1>13, <1>14, <1>15, <1>16, <1>61, <1>60 DEF EndInv, CancelInv, LinkInv, JobRules, TakerView
<1>66. RejectInv(c)'
  BY <1>1, <1>2, <1>7, <1>9, <1>12, <1>13, <1>14, <1>15, <1>16, <1>61 DEF EndInv, RejectInv, LinkInv, JobRules
<1>67. UntakenInv(c)'
  BY <1>1, <1>2, <1>7, <1>9, <1>12, <1>13, <1>14, <1>15, <1>16, <1>61 DEF EndInv, UntakenInv, LinkInv, JobRules
<1>68. LastInv(c)'
  <2>1. /\ sock[p] = c /\ Runs(p, "reset", "again") => In(c, p) = << >> /\ q \notin Open(c)
        /\ sock[q] = c /\ Runs(q, "reset", "again") => In(c, q) = << >> /\ p \notin Open(c)
    <3>1. LastInv(c)
      BY <1>12 DEF EndInv
    <3> QED
      BY <3>1, <1>12, <1>14, LastIs
  <2>2. p \in Open(c)
    BY <1>12 DEF LinkInv
  <2>3. ~(sock'[q] = c /\ Runs(q, "reset", "again")')
    BY <1>13, <2>1, <2>2
  <2>4. sock'[p] = c /\ Runs(p, "reset", "again")' => In(c, p)' = << >> /\ q \notin Open(c)'
    <3>1. Runs(p, "reset", "again")' <=> Runs(p, "reset", "again")
      BY <1>1
    <3> QED
      BY <1>12, <1>14, <2>1, <3>1
  <2> QED
    BY <1>12, <1>14, <2>3, <2>4, LastIs
<1>69. ReadyInv(c)'
  <2>1. early' = {} /\ sock[q] = c /\ Told(c, p, q) => Told(c, p, q)'
    BY <1>1, <1>2, <1>9, <1>12, <1>13, <1>14, <1>15 DEF Told
  <2>2. early' = {} /\ sock[q] = c /\ Told(c, q, p) => Told(c, q, p)'
    BY <1>1, <1>2, <1>9, <1>12, <1>13, <1>14, <1>15 DEF Told
  <2> QED
    BY <2>1, <2>2, <1>12, <1>13, <1>14, ReadyIs
<1> QED
  BY <1>17, <1>18, <1>62, <1>63, <1>64, <1>65, <1>66, <1>67, <1>68, <1>69 DEF EndInv
=============================================================================
