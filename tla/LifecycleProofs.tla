--------------------------- MODULE LifecycleProofs ---------------------------
(***************************************************************************)
(* Proofs about Lifecycle, for any number of requests.                     *)
(***************************************************************************)
EXTENDS LifecycleInvariants, TLAPS

\* Nothing of this is so in a process that has not started anything.
LEMMA InitIInv == Init => IInv
  BY LifecycleAssumption DEF InGRPC, Init, IInv, TypeOK, MainKnows, ListenerFirst, RequestsRight, AnswersRight, NothingCutOff, RefusedDidNotRun, RefusedOnlyAtTheEnd, Active, ViaHTTP

\* A step of main, of a goroutine or of the environment.
LEMMA ProcessKeepsIInv ==
  ASSUME IInv, Main \/ ServeGRPC \/ ServeHTTP \/ BreakGRPC \/ BreakHTTP \/ Signal \/ Kill
  PROVE  IInv'
<1>. USE LifecycleAssumption DEF IInv, Active, ViaHTTP, InGRPC, process, requests
<1>1. CASE Connect
  <2>. USE <1>1 DEF Connect, Fatal, End
  <2>1. TypeOK' BY DEF TypeOK
  <2>2. MainKnows' BY DEF TypeOK, MainKnows
  <2>3. ListenerFirst' BY DEF TypeOK, MainKnows, ListenerFirst, RequestsRight
  <2>4. RequestsRight' BY DEF TypeOK, MainKnows, ListenerFirst, RequestsRight
  <2>5. NothingCutOff' BY DEF TypeOK, MainKnows, RequestsRight, NothingCutOff
  <2>6. RefusedDidNotRun' BY DEF TypeOK, RequestsRight, RefusedDidNotRun
  <2>7. RefusedOnlyAtTheEnd' BY DEF TypeOK, MainKnows, ListenerFirst, RequestsRight, RefusedOnlyAtTheEnd
  <2>8. AnswersRight' BY DEF TypeOK, MainKnows, RequestsRight, AnswersRight
  <2>. QED BY <2>1, <2>2, <2>3, <2>4, <2>5, <2>6, <2>7, <2>8
<1>2. CASE Client
  <2>. USE <1>2 DEF Client, Fatal, End
  <2>1. TypeOK' BY DEF TypeOK
  <2>2. MainKnows' BY DEF TypeOK, MainKnows
  <2>3. ListenerFirst' BY DEF TypeOK, MainKnows, ListenerFirst, RequestsRight
  <2>4. RequestsRight' BY DEF TypeOK, MainKnows, ListenerFirst, RequestsRight
  <2>5. NothingCutOff' BY DEF TypeOK, MainKnows, RequestsRight, NothingCutOff
  <2>6. RefusedDidNotRun' BY DEF TypeOK, RequestsRight, RefusedDidNotRun
  <2>7. RefusedOnlyAtTheEnd' BY DEF TypeOK, MainKnows, ListenerFirst, RequestsRight, RefusedOnlyAtTheEnd
  <2>8. AnswersRight' BY DEF TypeOK, MainKnows, RequestsRight, AnswersRight
  <2>. QED BY <2>1, <2>2, <2>3, <2>4, <2>5, <2>6, <2>7, <2>8
<1>3. CASE Listen
  <2>. USE <1>3 DEF Listen, Fatal, End
  <2>1. TypeOK' BY DEF TypeOK
  <2>2. MainKnows' BY DEF TypeOK, MainKnows
  <2>3. ListenerFirst' BY DEF TypeOK, MainKnows, ListenerFirst, RequestsRight
  <2>4. RequestsRight' BY DEF TypeOK, MainKnows, ListenerFirst, RequestsRight
  <2>5. NothingCutOff' BY DEF TypeOK, MainKnows, RequestsRight, NothingCutOff
  <2>6. RefusedDidNotRun' BY DEF TypeOK, RequestsRight, RefusedDidNotRun
  <2>7. RefusedOnlyAtTheEnd' BY DEF TypeOK, MainKnows, ListenerFirst, RequestsRight, RefusedOnlyAtTheEnd
  <2>8. AnswersRight' BY DEF TypeOK, MainKnows, RequestsRight, AnswersRight
  <2>. QED BY <2>1, <2>2, <2>3, <2>4, <2>5, <2>6, <2>7, <2>8
<1>4. CASE Register
  <2>. USE <1>4 DEF Register, Fatal, End
  <2>1. TypeOK' BY DEF TypeOK
  <2>2. MainKnows' BY DEF TypeOK, MainKnows
  <2>3. ListenerFirst' BY DEF TypeOK, MainKnows, ListenerFirst, RequestsRight
  <2>4. RequestsRight' BY DEF TypeOK, MainKnows, ListenerFirst, RequestsRight
  <2>5. NothingCutOff' BY DEF TypeOK, MainKnows, RequestsRight, NothingCutOff
  <2>6. RefusedDidNotRun' BY DEF TypeOK, RequestsRight, RefusedDidNotRun
  <2>7. RefusedOnlyAtTheEnd' BY DEF TypeOK, MainKnows, ListenerFirst, RequestsRight, RefusedOnlyAtTheEnd
  <2>8. AnswersRight' BY DEF TypeOK, MainKnows, RequestsRight, AnswersRight
  <2>. QED BY <2>1, <2>2, <2>3, <2>4, <2>5, <2>6, <2>7, <2>8
<1>5. CASE Notify
  <2>. USE <1>5 DEF Notify
  <2>1. TypeOK' BY DEF TypeOK
  <2>2. MainKnows' BY DEF TypeOK, MainKnows
  <2>3. ListenerFirst' BY DEF TypeOK, MainKnows, ListenerFirst, RequestsRight
  <2>4. RequestsRight' BY DEF TypeOK, MainKnows, ListenerFirst, RequestsRight
  <2>5. NothingCutOff' BY DEF TypeOK, MainKnows, RequestsRight, NothingCutOff
  <2>6. RefusedDidNotRun' BY DEF TypeOK, RequestsRight, RefusedDidNotRun
  <2>7. RefusedOnlyAtTheEnd' BY DEF TypeOK, MainKnows, ListenerFirst, RequestsRight, RefusedOnlyAtTheEnd
  <2>8. AnswersRight' BY DEF TypeOK, MainKnows, RequestsRight, AnswersRight
  <2>. QED BY <2>1, <2>2, <2>3, <2>4, <2>5, <2>6, <2>7, <2>8
<1>6. CASE GracefulStop
  <2>. USE <1>6 DEF GracefulStop
  <2>1. TypeOK' BY DEF TypeOK
  <2>2. MainKnows' BY DEF TypeOK, MainKnows
  <2>3. ListenerFirst' BY DEF TypeOK, MainKnows, ListenerFirst, RequestsRight
  <2>4. RequestsRight' BY DEF TypeOK, MainKnows, ListenerFirst, RequestsRight
  <2>5. NothingCutOff' BY DEF TypeOK, MainKnows, RequestsRight, NothingCutOff
  <2>6. RefusedDidNotRun' BY DEF TypeOK, RequestsRight, RefusedDidNotRun
  <2>7. RefusedOnlyAtTheEnd' BY DEF TypeOK, MainKnows, ListenerFirst, RequestsRight, RefusedOnlyAtTheEnd
  <2>8. AnswersRight' BY DEF TypeOK, MainKnows, RequestsRight, AnswersRight
  <2>. QED BY <2>1, <2>2, <2>3, <2>4, <2>5, <2>6, <2>7, <2>8
<1>7. CASE Shutdown
  <2>. USE <1>7 DEF Shutdown
  <2>1. TypeOK' BY DEF TypeOK
  <2>2. MainKnows' BY DEF TypeOK, MainKnows
  <2>3. ListenerFirst' BY DEF TypeOK, MainKnows, ListenerFirst, RequestsRight
  <2>4. RequestsRight' BY DEF TypeOK, MainKnows, ListenerFirst, RequestsRight
  <2>5. NothingCutOff' BY DEF TypeOK, MainKnows, RequestsRight, NothingCutOff
  <2>6. RefusedDidNotRun' BY DEF TypeOK, RequestsRight, RefusedDidNotRun
  <2>7. RefusedOnlyAtTheEnd' BY DEF TypeOK, MainKnows, ListenerFirst, RequestsRight, RefusedOnlyAtTheEnd
  <2>8. AnswersRight' BY DEF TypeOK, MainKnows, RequestsRight, AnswersRight
  <2>. QED BY <2>1, <2>2, <2>3, <2>4, <2>5, <2>6, <2>7, <2>8
<1>8. CASE Return
  <2>. USE <1>8 DEF Return
  <2>1. TypeOK' BY DEF TypeOK
  <2>2. MainKnows' BY DEF TypeOK, MainKnows
  <2>3. ListenerFirst' BY DEF TypeOK, MainKnows, ListenerFirst, RequestsRight
  <2>4. RequestsRight' BY DEF TypeOK, MainKnows, ListenerFirst, RequestsRight
  <2>5. NothingCutOff' BY DEF TypeOK, MainKnows, RequestsRight, NothingCutOff
  <2>6. RefusedDidNotRun' BY DEF TypeOK, RequestsRight, RefusedDidNotRun
  <2>7. RefusedOnlyAtTheEnd' BY DEF TypeOK, MainKnows, ListenerFirst, RequestsRight, RefusedOnlyAtTheEnd
  <2>8. AnswersRight' BY DEF TypeOK, MainKnows, RequestsRight, AnswersRight
  <2>. QED BY <2>1, <2>2, <2>3, <2>4, <2>5, <2>6, <2>7, <2>8
<1>9. CASE Exit
  <2>. USE <1>9 DEF Exit, End
  <2>1. TypeOK' BY DEF TypeOK
  <2>2. MainKnows' BY DEF TypeOK, MainKnows
  <2>3. ListenerFirst' BY DEF TypeOK, MainKnows, ListenerFirst, RequestsRight
  <2>4. RequestsRight' BY DEF TypeOK, MainKnows, ListenerFirst, RequestsRight
  <2>5. NothingCutOff' BY DEF TypeOK, MainKnows, RequestsRight, NothingCutOff
  <2>6. RefusedDidNotRun' BY DEF TypeOK, RequestsRight, RefusedDidNotRun
  <2>7. RefusedOnlyAtTheEnd' BY DEF TypeOK, MainKnows, ListenerFirst, RequestsRight, RefusedOnlyAtTheEnd
  <2>8. AnswersRight' BY DEF TypeOK, MainKnows, RequestsRight, AnswersRight
  <2>. QED BY <2>1, <2>2, <2>3, <2>4, <2>5, <2>6, <2>7, <2>8
<1>10. CASE ServeGRPC
  <2>. USE <1>10 DEF ServeGRPC
  <2>1. TypeOK' BY DEF TypeOK
  <2>2. MainKnows' BY DEF TypeOK, MainKnows
  <2>3. ListenerFirst' BY DEF TypeOK, MainKnows, ListenerFirst, RequestsRight
  <2>4. RequestsRight' BY DEF TypeOK, MainKnows, ListenerFirst, RequestsRight
  <2>5. NothingCutOff' BY DEF TypeOK, MainKnows, RequestsRight, NothingCutOff
  <2>6. RefusedDidNotRun' BY DEF TypeOK, RequestsRight, RefusedDidNotRun
  <2>7. RefusedOnlyAtTheEnd' BY DEF TypeOK, MainKnows, ListenerFirst, RequestsRight, RefusedOnlyAtTheEnd
  <2>8. AnswersRight' BY DEF TypeOK, MainKnows, RequestsRight, AnswersRight
  <2>. QED BY <2>1, <2>2, <2>3, <2>4, <2>5, <2>6, <2>7, <2>8
<1>11. CASE ServeHTTP
  <2>. USE <1>11 DEF ServeHTTP
  <2>1. TypeOK' BY DEF TypeOK
  <2>2. MainKnows' BY DEF TypeOK, MainKnows
  <2>3. ListenerFirst' BY DEF TypeOK, MainKnows, ListenerFirst, RequestsRight
  <2>4. RequestsRight' BY DEF TypeOK, MainKnows, ListenerFirst, RequestsRight
  <2>5. NothingCutOff' BY DEF TypeOK, MainKnows, RequestsRight, NothingCutOff
  <2>6. RefusedDidNotRun' BY DEF TypeOK, RequestsRight, RefusedDidNotRun
  <2>7. RefusedOnlyAtTheEnd' BY DEF TypeOK, MainKnows, ListenerFirst, RequestsRight, RefusedOnlyAtTheEnd
  <2>8. AnswersRight' BY DEF TypeOK, MainKnows, RequestsRight, AnswersRight
  <2>. QED BY <2>1, <2>2, <2>3, <2>4, <2>5, <2>6, <2>7, <2>8
<1>12. CASE BreakGRPC
  <2>. USE <1>12 DEF BreakGRPC
  <2>1. TypeOK' BY DEF TypeOK
  <2>2. MainKnows' BY DEF TypeOK, MainKnows
  <2>3. ListenerFirst' BY DEF TypeOK, MainKnows, ListenerFirst, RequestsRight
  <2>4. RequestsRight' BY DEF TypeOK, MainKnows, ListenerFirst, RequestsRight
  <2>5. NothingCutOff' BY DEF TypeOK, MainKnows, RequestsRight, NothingCutOff
  <2>6. RefusedDidNotRun' BY DEF TypeOK, RequestsRight, RefusedDidNotRun
  <2>7. RefusedOnlyAtTheEnd' BY DEF TypeOK, MainKnows, ListenerFirst, RequestsRight, RefusedOnlyAtTheEnd
  <2>8. AnswersRight' BY DEF TypeOK, MainKnows, RequestsRight, AnswersRight
  <2>. QED BY <2>1, <2>2, <2>3, <2>4, <2>5, <2>6, <2>7, <2>8
<1>13. CASE BreakHTTP
  <2>. USE <1>13 DEF BreakHTTP
  <2>1. TypeOK' BY DEF TypeOK
  <2>2. MainKnows' BY DEF TypeOK, MainKnows
  <2>3. ListenerFirst' BY DEF TypeOK, MainKnows, ListenerFirst, RequestsRight
  <2>4. RequestsRight' BY DEF TypeOK, MainKnows, ListenerFirst, RequestsRight
  <2>5. NothingCutOff' BY DEF TypeOK, MainKnows, RequestsRight, NothingCutOff
  <2>6. RefusedDidNotRun' BY DEF TypeOK, RequestsRight, RefusedDidNotRun
  <2>7. RefusedOnlyAtTheEnd' BY DEF TypeOK, MainKnows, ListenerFirst, RequestsRight, RefusedOnlyAtTheEnd
  <2>8. AnswersRight' BY DEF TypeOK, MainKnows, RequestsRight, AnswersRight
  <2>. QED BY <2>1, <2>2, <2>3, <2>4, <2>5, <2>6, <2>7, <2>8
<1>14. CASE Signal
  <2>. USE <1>14 DEF Signal, End
  <2>1. TypeOK' BY DEF TypeOK
  <2>2. MainKnows' BY DEF TypeOK, MainKnows
  <2>3. ListenerFirst' BY DEF TypeOK, MainKnows, ListenerFirst, RequestsRight
  <2>4. RequestsRight' BY DEF TypeOK, MainKnows, ListenerFirst, RequestsRight
  <2>5. NothingCutOff' BY DEF TypeOK, MainKnows, RequestsRight, NothingCutOff
  <2>6. RefusedDidNotRun' BY DEF TypeOK, RequestsRight, RefusedDidNotRun
  <2>7. RefusedOnlyAtTheEnd' BY DEF TypeOK, MainKnows, ListenerFirst, RequestsRight, RefusedOnlyAtTheEnd
  <2>8. AnswersRight' BY DEF TypeOK, MainKnows, RequestsRight, AnswersRight
  <2>. QED BY <2>1, <2>2, <2>3, <2>4, <2>5, <2>6, <2>7, <2>8
<1>15. CASE Kill
  <2>. USE <1>15 DEF Kill, End
  <2>1. TypeOK' BY DEF TypeOK
  <2>2. MainKnows' BY DEF TypeOK, MainKnows
  <2>3. ListenerFirst' BY DEF TypeOK, MainKnows, ListenerFirst, RequestsRight
  <2>4. RequestsRight' BY DEF TypeOK, MainKnows, ListenerFirst, RequestsRight
  <2>5. NothingCutOff' BY DEF TypeOK, MainKnows, RequestsRight, NothingCutOff
  <2>6. RefusedDidNotRun' BY DEF TypeOK, RequestsRight, RefusedDidNotRun
  <2>7. RefusedOnlyAtTheEnd' BY DEF TypeOK, MainKnows, ListenerFirst, RequestsRight, RefusedOnlyAtTheEnd
  <2>8. AnswersRight' BY DEF TypeOK, MainKnows, RequestsRight, AnswersRight
  <2>. QED BY <2>1, <2>2, <2>3, <2>4, <2>5, <2>6, <2>7, <2>8
<1>. QED BY <1>1, <1>2, <1>3, <1>4, <1>5, <1>6, <1>7, <1>8, <1>9, <1>10, <1>11, <1>12, <1>13, <1>14, <1>15 DEF Main

\* What may become of a request, but for the end of the process.
RequestStep(r) ==
  \/ Accept(r) \/ Ask(r) \/ CloseIdle(r) \/ Read(r) \/ Run(r) \/ Take(r) \/ Receive(r)
  \/ Refuse(r) \/ Handle(r) \/ Respond(r)

\* A step of a request.
LEMMA RequestKeepsIInv ==
  ASSUME IInv, NEW r \in Request, RequestStep(r)
  PROVE  IInv'
<1>. USE LifecycleAssumption DEF IInv, Active, ViaHTTP, InGRPC, process, requests, Moves
<1>1. CASE Accept(r)
  <2>. USE <1>1 DEF Accept
  <2>1. TypeOK' BY DEF TypeOK
  <2>2. MainKnows' BY DEF TypeOK, MainKnows
  <2>3. ListenerFirst' BY DEF TypeOK, MainKnows, ListenerFirst, RequestsRight
  <2>4. RequestsRight' BY DEF TypeOK, MainKnows, ListenerFirst, RequestsRight
  <2>5. NothingCutOff' BY DEF TypeOK, MainKnows, RequestsRight, NothingCutOff
  <2>6. RefusedDidNotRun' BY DEF TypeOK, RequestsRight, RefusedDidNotRun
  <2>7. RefusedOnlyAtTheEnd' BY DEF TypeOK, MainKnows, ListenerFirst, RequestsRight, RefusedOnlyAtTheEnd
  <2>8. AnswersRight' BY DEF TypeOK, MainKnows, RequestsRight, AnswersRight
  <2>. QED BY <2>1, <2>2, <2>3, <2>4, <2>5, <2>6, <2>7, <2>8
<1>2. CASE Ask(r)
  <2>. USE <1>2 DEF Ask
  <2>1. TypeOK' BY DEF TypeOK
  <2>2. MainKnows' BY DEF TypeOK, MainKnows
  <2>3. ListenerFirst' BY DEF TypeOK, MainKnows, ListenerFirst, RequestsRight
  <2>4. RequestsRight' BY DEF TypeOK, MainKnows, ListenerFirst, RequestsRight
  <2>5. NothingCutOff' BY DEF TypeOK, MainKnows, RequestsRight, NothingCutOff
  <2>6. RefusedDidNotRun' BY DEF TypeOK, RequestsRight, RefusedDidNotRun
  <2>7. RefusedOnlyAtTheEnd' BY DEF TypeOK, MainKnows, ListenerFirst, RequestsRight, RefusedOnlyAtTheEnd
  <2>8. AnswersRight' BY DEF TypeOK, MainKnows, RequestsRight, AnswersRight
  <2>. QED BY <2>1, <2>2, <2>3, <2>4, <2>5, <2>6, <2>7, <2>8
<1>3. CASE CloseIdle(r)
  <2>. USE <1>3 DEF CloseIdle
  <2>1. TypeOK' BY DEF TypeOK
  <2>2. MainKnows' BY DEF TypeOK, MainKnows
  <2>3. ListenerFirst' BY DEF TypeOK, MainKnows, ListenerFirst, RequestsRight
  <2>4. RequestsRight' BY DEF TypeOK, MainKnows, ListenerFirst, RequestsRight
  <2>5. NothingCutOff' BY DEF TypeOK, MainKnows, RequestsRight, NothingCutOff
  <2>6. RefusedDidNotRun' BY DEF TypeOK, RequestsRight, RefusedDidNotRun
  <2>7. RefusedOnlyAtTheEnd' BY DEF TypeOK, MainKnows, ListenerFirst, RequestsRight, RefusedOnlyAtTheEnd
  <2>8. AnswersRight' BY DEF TypeOK, MainKnows, RequestsRight, AnswersRight
  <2>. QED BY <2>1, <2>2, <2>3, <2>4, <2>5, <2>6, <2>7, <2>8
<1>4. CASE Read(r)
  <2>. USE <1>4 DEF Read, Done
  <2>1. TypeOK' BY DEF TypeOK
  <2>2. MainKnows' BY DEF TypeOK, MainKnows
  <2>3. ListenerFirst' BY DEF TypeOK, MainKnows, ListenerFirst, RequestsRight
  <2>4. RequestsRight' BY DEF TypeOK, MainKnows, ListenerFirst, RequestsRight
  <2>5. NothingCutOff' BY DEF TypeOK, MainKnows, RequestsRight, NothingCutOff
  <2>6. RefusedDidNotRun' BY DEF TypeOK, RequestsRight, RefusedDidNotRun
  <2>7. RefusedOnlyAtTheEnd' BY DEF TypeOK, MainKnows, ListenerFirst, RequestsRight, RefusedOnlyAtTheEnd
  <2>8. AnswersRight' BY DEF TypeOK, MainKnows, RequestsRight, AnswersRight
  <2>. QED BY <2>1, <2>2, <2>3, <2>4, <2>5, <2>6, <2>7, <2>8
<1>5. CASE Run(r)
  <2>. USE <1>5 DEF Run
  <2>1. TypeOK' BY DEF TypeOK
  <2>2. MainKnows' BY DEF TypeOK, MainKnows
  <2>3. ListenerFirst' BY DEF TypeOK, MainKnows, ListenerFirst, RequestsRight
  <2>4. RequestsRight' BY DEF TypeOK, MainKnows, ListenerFirst, RequestsRight
  <2>5. NothingCutOff' BY DEF TypeOK, MainKnows, RequestsRight, NothingCutOff
  <2>6. RefusedDidNotRun' BY DEF TypeOK, RequestsRight, RefusedDidNotRun
  <2>7. RefusedOnlyAtTheEnd' BY DEF TypeOK, MainKnows, ListenerFirst, RequestsRight, RefusedOnlyAtTheEnd
  <2>8. AnswersRight' BY DEF TypeOK, MainKnows, RequestsRight, AnswersRight
  <2>. QED BY <2>1, <2>2, <2>3, <2>4, <2>5, <2>6, <2>7, <2>8
<1>6. CASE Take(r)
  <2>. USE <1>6 DEF Take
  <2>1. TypeOK' BY DEF TypeOK
  <2>2. MainKnows' BY DEF TypeOK, MainKnows
  <2>3. ListenerFirst' BY DEF TypeOK, MainKnows, ListenerFirst, RequestsRight
  <2>4. RequestsRight' BY DEF TypeOK, MainKnows, ListenerFirst, RequestsRight
  <2>5. NothingCutOff' BY DEF TypeOK, MainKnows, RequestsRight, NothingCutOff
  <2>6. RefusedDidNotRun' BY DEF TypeOK, RequestsRight, RefusedDidNotRun
  <2>7. RefusedOnlyAtTheEnd' BY DEF TypeOK, MainKnows, ListenerFirst, RequestsRight, RefusedOnlyAtTheEnd
  <2>8. AnswersRight' BY DEF TypeOK, MainKnows, RequestsRight, AnswersRight
  <2>. QED BY <2>1, <2>2, <2>3, <2>4, <2>5, <2>6, <2>7, <2>8
<1>7. CASE Receive(r)
  <2>. USE <1>7 DEF Receive
  <2>1. TypeOK' BY DEF TypeOK
  <2>2. MainKnows' BY DEF TypeOK, MainKnows
  <2>3. ListenerFirst' BY DEF TypeOK, MainKnows, ListenerFirst, RequestsRight
  <2>4. RequestsRight' BY DEF TypeOK, MainKnows, ListenerFirst, RequestsRight
  <2>5. NothingCutOff' BY DEF TypeOK, MainKnows, RequestsRight, NothingCutOff
  <2>6. RefusedDidNotRun' BY DEF TypeOK, RequestsRight, RefusedDidNotRun
  <2>7. RefusedOnlyAtTheEnd' BY DEF TypeOK, MainKnows, ListenerFirst, RequestsRight, RefusedOnlyAtTheEnd
  <2>8. AnswersRight' BY DEF TypeOK, MainKnows, RequestsRight, AnswersRight
  <2>. QED BY <2>1, <2>2, <2>3, <2>4, <2>5, <2>6, <2>7, <2>8
<1>8. CASE Refuse(r)
  <2>. USE <1>8 DEF Refuse, Done
  <2>1. TypeOK' BY DEF TypeOK
  <2>2. MainKnows' BY DEF TypeOK, MainKnows
  <2>3. ListenerFirst' BY DEF TypeOK, MainKnows, ListenerFirst, RequestsRight
  <2>4. RequestsRight' BY DEF TypeOK, MainKnows, ListenerFirst, RequestsRight
  <2>5. NothingCutOff' BY DEF TypeOK, MainKnows, RequestsRight, NothingCutOff
  <2>6. RefusedDidNotRun' BY DEF TypeOK, RequestsRight, RefusedDidNotRun
  <2>7. RefusedOnlyAtTheEnd' BY DEF TypeOK, MainKnows, ListenerFirst, RequestsRight, RefusedOnlyAtTheEnd
  <2>8. AnswersRight' BY DEF TypeOK, MainKnows, RequestsRight, AnswersRight
  <2>. QED BY <2>1, <2>2, <2>3, <2>4, <2>5, <2>6, <2>7, <2>8
<1>9. CASE Handle(r)
  <2>. USE <1>9 DEF Handle, Done
  <2>1. TypeOK' BY DEF TypeOK
  <2>2. MainKnows' BY DEF TypeOK, MainKnows
  <2>3. ListenerFirst' BY DEF TypeOK, MainKnows, ListenerFirst, RequestsRight
  <2>4. RequestsRight' BY DEF TypeOK, MainKnows, ListenerFirst, RequestsRight
  <2>5. NothingCutOff' BY DEF TypeOK, MainKnows, RequestsRight, NothingCutOff
  <2>6. RefusedDidNotRun' BY DEF TypeOK, RequestsRight, RefusedDidNotRun
  <2>7. RefusedOnlyAtTheEnd' BY DEF TypeOK, MainKnows, ListenerFirst, RequestsRight, RefusedOnlyAtTheEnd
  <2>8. AnswersRight' BY DEF TypeOK, MainKnows, RequestsRight, AnswersRight
  <2>. QED BY <2>1, <2>2, <2>3, <2>4, <2>5, <2>6, <2>7, <2>8
<1>10. CASE Respond(r)
  <2>. USE <1>10 DEF Respond
  <2>1. TypeOK' BY DEF TypeOK
  <2>2. MainKnows' BY DEF TypeOK, MainKnows
  <2>3. ListenerFirst' BY DEF TypeOK, MainKnows, ListenerFirst, RequestsRight
  <2>4. RequestsRight' BY DEF TypeOK, MainKnows, ListenerFirst, RequestsRight
  <2>5. NothingCutOff' BY DEF TypeOK, MainKnows, RequestsRight, NothingCutOff
  <2>6. RefusedDidNotRun' BY DEF TypeOK, RequestsRight, RefusedDidNotRun
  <2>7. RefusedOnlyAtTheEnd' BY DEF TypeOK, MainKnows, ListenerFirst, RequestsRight, RefusedOnlyAtTheEnd
  <2>8. AnswersRight' BY DEF TypeOK, MainKnows, RequestsRight, AnswersRight
  <2>. QED BY <2>1, <2>2, <2>3, <2>4, <2>5, <2>6, <2>7, <2>8
<1>. QED BY <1>1, <1>2, <1>3, <1>4, <1>5, <1>6, <1>7, <1>8, <1>9, <1>10 DEF RequestStep

\* The invariant that says what may be going on at each point of main is inductive.
THEOREM LifecycleInductive == Spec => []IInv
<1>1. Init => IInv
  BY InitIInv
<1>2. IInv /\ [Next]_vars => IInv'
  <2>1. CASE UNCHANGED vars
    BY <2>1 DEF vars, process, requests, IInv, Active, ViaHTTP, InGRPC, TypeOK, MainKnows, ListenerFirst, RequestsRight, AnswersRight, NothingCutOff, RefusedDidNotRun, RefusedOnlyAtTheEnd
  <2>2. CASE Next
    BY <2>2, ProcessKeepsIInv, RequestKeepsIInv DEF Next, Serving, Clients, RequestStep
  <2>. QED BY <2>1, <2>2
<1>. QED BY <1>1, <1>2, PTL DEF Spec

\* The process and its requests have the shapes of the types (cmd/server/main.go).
THEOREM LifecycleTyped == Spec => []TypeOK
<1>1. IInv => TypeOK
  BY DEF IInv
<1>. QED BY <1>1, LifecycleInductive, PTL

\* A replica that stops by itself cuts nobody off.
THEOREM NothingIsCutOff == Spec => []NothingCutOff
<1>1. IInv => NothingCutOff
  BY DEF IInv
<1>. QED BY <1>1, LifecycleInductive, PTL

\* No handler runs with a closed pool: main closes it last, and the process that runs the
\* handlers is gone when main does not.
THEOREM ThePoolOutlivesHandlers == Spec => []HandlersHaveThePool
<1>1. IInv => HandlersHaveThePool
  BY DEF IInv, HandlersHaveThePool, RequestsRight, MainKnows, InGRPC
<1>. QED BY <1>1, LifecycleInductive, PTL

\* What was refused did not run.
THEOREM RefusedMayBeSentAgain == Spec => []RefusedDidNotRun
<1>1. IInv => RefusedDidNotRun
  BY DEF IInv
<1>. QED BY <1>1, LifecycleInductive, PTL

\* The gateway refuses nobody while the replica starts.
THEOREM RefusesOnlyAtTheEnd == Spec => []RefusedOnlyAtTheEnd
<1>1. IInv => RefusedOnlyAtTheEnd
  BY DEF IInv
<1>. QED BY <1>1, LifecycleInductive, PTL

-----------------------------------------------------------------------------
(* The process keeps the promises of Replica *)

\* It starts as Replica does.
LEMMA ReplicaStarts == Init => R!RInit
  BY DEF Init, R!RInit, PhaseOf, Fates, FateOf, Come, Held, Active, ViaHTTP

\* What became of a request is where it is.
LEMMA FatesSay ==
  ASSUME IInv, NEW r \in Request
  PROVE  /\ FateOf(r) = "working" <=> at[r] \in {"receiving", "running"}
         /\ FateOf(r) = "lost" => main = "ended" /\ ended # "returned" /\ at[r] = "cut"
         /\ at[r] \in {"new", "connected", "reading", "accepted"} => FateOf(r) = "none"
         /\ at[r] \in {"responding", "answered"} => FateOf(r) \in {"served", "refused"}
<1>. USE DEF IInv, TypeOK, FateOf, Active
<1>1. FateOf(r) = "working" <=> at[r] \in {"receiving", "running"}
  BY DEF AnswersRight, RequestsRight
<1>2. FateOf(r) = "lost" => main = "ended" /\ at[r] = "cut"
  BY DEF AnswersRight, RequestsRight
<1>3. at[r] = "cut" => ended # "returned"
  BY DEF NothingCutOff
<1>4. at[r] \in {"new", "connected", "reading", "accepted"} => FateOf(r) = "none"
  BY DEF RequestsRight
<1>5. at[r] \in {"responding", "answered"} => FateOf(r) \in {"served", "refused"}
  BY DEF AnswersRight
<1>. QED BY <1>1, <1>2, <1>3, <1>4, <1>5

\* A step that leaves the requests alone, and the process alive, only turns the phase.
LEMMA OnlyThePhase ==
  ASSUME IInv, UNCHANGED requests, main # "ended", main' # "ended"
  PROVE  Fates' = Fates /\ Come' = Come /\ Held' = Held
  BY DEF requests, Fates, FateOf, Come, Held

\* The end of the process, however it ends.
LEMMA EndingKeepsReplica ==
  ASSUME IInv, NEW how \in {"fatal", "signal", "killed", "returned"}, End(how),
         main # "ended", how = "returned" => main = "return"
  PROVE  R!RNext
<1>1. /\ main' = "ended" /\ ended' = how /\ UNCHANGED <<answer, taken>>
      /\ at' = [r \in Request |-> IF at[r] \in Active THEN "cut" ELSE at[r]]
  BY DEF End
<1>2. Come' = {} /\ Held' = {}
  BY <1>1 DEF Come, Held, Active, ViaHTTP
<1>3. Fates' = [r \in Request |-> IF Fates[r] = "working" THEN "lost" ELSE Fates[r]]
  BY <1>1 DEF Fates, FateOf
<1>4. CASE how = "returned"
  <2>1. PhaseOf = "closing" /\ PhaseOf' = "left"
    BY <1>1, <1>4 DEF PhaseOf
  <2>2. Come = {} /\ Held = {}
    BY <1>4 DEF IInv, RequestsRight, Come, Held, ViaHTTP
  <2>3. \A r \in Request : Fates[r] # "working"
    BY <1>4, FatesSay DEF Fates, IInv, RequestsRight, Active
  <2>4. Fates' = Fates
    BY <1>3, <2>3 DEF Fates
  <2>. QED
    BY <1>2, <2>1, <2>2, <2>3, <2>4 DEF R!RNext, R!Leave, R!Turn, R!Nobody
<1>5. CASE how # "returned"
  <2>1. PhaseOf \in R!Alive /\ PhaseOf' = "dead"
    BY <1>1, <1>5 DEF PhaseOf, R!Alive
  <2>. QED
    BY <1>2, <1>3, <2>1 DEF R!RNext, R!Die
<1>. QED BY <1>4, <1>5

\* A step of main, of a goroutine or of the environment.
LEMMA ProcessKeepsReplica ==
  ASSUME IInv, IInv', Main \/ ServeGRPC \/ ServeHTTP \/ BreakGRPC \/ BreakHTTP \/ Signal \/ Kill
  PROVE  R!RNext \/ UNCHANGED <<PhaseOf, Fates, Come, Held>>
<1>1. CASE Fatal /\ main # "ended"
  BY <1>1, EndingKeepsReplica DEF Fatal
<1>2. CASE Exit \/ Kill
  BY <1>2, EndingKeepsReplica DEF Exit, Kill
<1>3. CASE Signal
  <2>1. CASE main \in {"connect", "client", "listen", "register", "notify"} /\ End("signal")
    BY <2>1, EndingKeepsReplica
  <2>2. CASE main \in {"wait", "graceful", "shutdown", "return"}
             /\ UNCHANGED <<main, ended, grpcServer, requests>>
    BY <2>2, OnlyThePhase DEF PhaseOf
  <2>. QED
    BY <1>3, <2>1, <2>2 DEF Signal
<1>4. CASE (Connect \/ Client \/ Listen \/ Register \/ Notify) /\ ~ Fatal
  <2>1. /\ UNCHANGED <<ended, requests>> /\ main \notin {"ended", "shutdown", "return", "graceful"}
        /\ main' \notin {"ended", "shutdown", "return", "graceful"}
    BY <1>4 DEF Connect, Client, Listen, Register, Notify
  <2>2. UNCHANGED grpcServer \/ (grpcServer = "none" /\ grpcServer' = "started")
    BY <1>4 DEF Connect, Client, Listen, Register, Notify, IInv, MainKnows
  <2>. QED
    BY <2>1, <2>2, OnlyThePhase DEF PhaseOf
<1>5. CASE GracefulStop
  <2>1. PhaseOf \in {"starting", "open"} /\ PhaseOf' = "draining"
    BY <1>5 DEF GracefulStop, PhaseOf
  <2>2. Fates' = Fates /\ Come' = Come /\ Held' = Held
    BY <1>5, OnlyThePhase DEF GracefulStop
  <2>. QED
    BY <2>1, <2>2 DEF R!RNext, R!Drain, R!Turn
<1>6. CASE Shutdown
  <2>1. PhaseOf = "draining" /\ PhaseOf' = "closing"
    BY <1>6 DEF Shutdown, PhaseOf
  <2>2. Fates' = Fates /\ Come' = Come /\ Held' = Held
    BY <1>6, OnlyThePhase DEF Shutdown
  <2>3. \A r \in Request : Fates[r] # "working"
    BY <1>6, FatesSay DEF Shutdown, InGRPC, Fates
  <2>. QED
    BY <2>1, <2>2, <2>3 DEF R!RNext, R!Close, R!Turn, R!Nobody
<1>7. CASE Return
  <2>1. PhaseOf = "closing" /\ PhaseOf' = "closing"
    BY <1>7 DEF Return, PhaseOf
  <2>2. Fates' = Fates /\ Come' = Come /\ Held' = Held
    BY <1>7, OnlyThePhase DEF Return
  <2>. QED BY <2>1, <2>2
<1>8. CASE ServeGRPC \/ ServeHTTP \/ BreakGRPC \/ BreakHTTP
  <2>1. main # "ended" /\ UNCHANGED <<main, ended, requests>>
    BY <1>8 DEF ServeGRPC, ServeHTTP, BreakGRPC, BreakHTTP
  <2>2. \/ UNCHANGED grpcServer
        \/ grpcServer = "started" /\ grpcServer' = "serving"
        \/ grpcServer = "serving" /\ grpcServer' = "broken"
    BY <1>8 DEF ServeGRPC, ServeHTTP, BreakGRPC, BreakHTTP
  <2>3. Fates' = Fates /\ Come' = Come /\ Held' = Held
    BY <2>1, OnlyThePhase
  <2>4. PhaseOf' = PhaseOf \/ (PhaseOf = "starting" /\ PhaseOf' = "open")
    BY <2>1, <2>2 DEF PhaseOf
  <2>. QED
    BY <2>3, <2>4 DEF R!RNext, R!Open, R!Turn
<1>9. Connect \/ Client \/ Listen \/ Register \/ Notify => main # "ended"
  BY DEF Connect, Client, Listen, Register, Notify
<1>. QED
  BY <1>1, <1>2, <1>3, <1>4, <1>5, <1>6, <1>7, <1>8, <1>9 DEF Main

\* A step of a request changes what became of that request, or whether it is at the gateway.
LEMMA RequestKeepsReplica ==
  ASSUME IInv, IInv', NEW r \in Request, RequestStep(r)
  PROVE  R!RNext \/ UNCHANGED <<PhaseOf, Fates, Come, Held>>
<1>0. /\ main # "ended" /\ PhaseOf' = PhaseOf /\ PhaseOf \in R!Alive /\ UNCHANGED process
      /\ \A s \in Request : s # r => UNCHANGED <<at[s], answer[s]>> /\ (s \in taken' <=> s \in taken)
  BY DEF RequestStep, Accept, Ask, CloseIdle, Read, Run, Take, Receive, Refuse, Handle,
         Respond, Moves, Done, process, PhaseOf, R!Alive, IInv, TypeOK
<1>1. ASSUME NEW fate, FateOf(r)' = fate
      PROVE  Fates' = [Fates EXCEPT ![r] = fate]
  BY <1>0, <1>1 DEF Fates, FateOf, process
<1>2. ASSUME FateOf(r)' = FateOf(r)
      PROVE  Fates' = Fates
  BY <1>0, <1>2 DEF Fates, FateOf, process
<1>3. ASSUME at[r] \in Active <=> at'[r] \in Active,
             at[r] = "connected" <=> at'[r] = "connected"
      PROVE  Come' = Come /\ Held' = Held
  BY <1>0, <1>3 DEF Come, Held, ViaHTTP
<1>4. r \notin ViaHTTP => Come' = Come /\ Held' = Held
  BY <1>0 DEF Come, Held, ViaHTTP
<1>5. CASE Accept(r)
  <2>1. /\ at[r] = "new" /\ r \in ViaHTTP /\ at'[r] = "connected"
        /\ UNCHANGED <<answer, taken>>
    BY <1>5 DEF Accept, Moves, IInv, TypeOK
  <2>2. Fates' = Fates
    BY <1>0, <1>2, <2>1 DEF FateOf, process
  <2>3. Come' = Come \cup {r} /\ Held' = Held
    BY <1>0, <2>1 DEF Come, Held, Active, ViaHTTP
  <2>4. PhaseOf # "closing"
    BY <1>5 DEF Accept, PhaseOf, IInv, MainKnows
  <2>. QED
    BY <1>0, <2>2, <2>3, <2>4 DEF R!RNext, R!Come
<1>6. CASE Ask(r)
  <2>1. /\ at[r] = "connected" /\ at'[r] = "reading" /\ UNCHANGED <<answer, taken>>
    BY <1>6 DEF Ask, Moves, IInv, TypeOK
  <2>2. r \in ViaHTTP
    BY <2>1 DEF ViaHTTP, IInv, RequestsRight
  <2>3. Fates' = Fates /\ Fates[r] = "none"
    BY <1>0, <1>2, <2>1, FatesSay DEF Fates, FateOf, process
  <2>4. Come' = Come /\ Held' = Held \cup {r} /\ r \in Come \ Held
    BY <1>0, <2>1, <2>2 DEF Come, Held, Active, ViaHTTP
  <2>. QED
    BY <1>0, <2>3, <2>4 DEF R!RNext, R!Hold
<1>7. CASE CloseIdle(r)
  <2>1. /\ at[r] = "connected" /\ at'[r] = "new" /\ UNCHANGED <<answer, taken>>
    BY <1>7 DEF CloseIdle, Moves, IInv, TypeOK
  <2>2. r \in ViaHTTP
    BY <2>1 DEF ViaHTTP, IInv, RequestsRight
  <2>3. Fates' = Fates
    BY <1>0, <1>2, <2>1 DEF FateOf, process
  <2>4. Come' = Come \ {r} /\ Held' = Held /\ r \in Come \ Held
    BY <1>0, <2>1, <2>2 DEF Come, Held, Active, ViaHTTP
  <2>5. PhaseOf = "closing"
    BY <1>7 DEF CloseIdle, PhaseOf
  <2>. QED
    BY <1>0, <2>3, <2>4, <2>5 DEF R!RNext, R!SendAway
<1>8. CASE Read(r)
  <2>1. CASE Moves(r, "reading", "accepted") /\ UNCHANGED <<process, answer, taken>>
    <3>1. at[r] = "reading" /\ at'[r] = "accepted" /\ UNCHANGED <<answer, taken>>
      BY <2>1 DEF Moves, IInv, TypeOK
    <3>2. Fates' = Fates
      BY <1>0, <1>2, <3>1 DEF FateOf, process
    <3>. QED
      BY <1>0, <1>3, <3>1, <3>2 DEF Active
  <2>2. CASE Done(r, "reading", "responding", "InvalidArgument")
    <3>1. at[r] = "reading" /\ at'[r] = "responding" /\ answer'[r] = "InvalidArgument"
      BY <2>2 DEF Done, Moves, IInv, TypeOK
    <3>2. Fates[r] = "none" /\ FateOf(r)' = "refused"
      BY <3>1, FatesSay DEF Fates, FateOf
    <3>3. Fates' = [Fates EXCEPT ![r] = "refused"] /\ Come' = Come /\ Held' = Held
      BY <1>1, <1>3, <3>1, <3>2 DEF Active
    <3>. QED
      BY <1>0, <3>2, <3>3 DEF R!RNext, R!Refuse, R!Becomes
  <2>. QED
    BY <1>8, <2>1, <2>2 DEF Read
<1>9. CASE Run(r) \/ Take(r)
  <2>1. /\ at[r] \in {"new", "accepted"} /\ at'[r] \in {"receiving", "running"}
        /\ r \in taken' /\ UNCHANGED answer
        /\ r \in Direct \/ (at[r] = "accepted" /\ at'[r] = "running")
    BY <1>9 DEF Run, Take, Moves, IInv, TypeOK
  <2>2. Fates[r] = "none" /\ FateOf(r)' = "working"
    <3>1. Fates[r] = "none" /\ answer'[r] = "none"
      BY <2>1, FatesSay DEF Fates, IInv, RequestsRight
    <3>. QED BY <1>0, <2>1, <3>1 DEF FateOf, process
  <2>3. PhaseOf = "open"
    BY <1>9 DEF Run, Take, Moves, PhaseOf, IInv, MainKnows
  <2>4. Come' = Come /\ Held' = Held
    BY <1>3, <1>4, <2>1 DEF Active, ViaHTTP
  <2>5. Fates' = [Fates EXCEPT ![r] = "working"]
    BY <1>1, <2>2
  <2>. QED
    BY <1>0, <2>2, <2>3, <2>4, <2>5 DEF R!RNext, R!Begin, R!Becomes
<1>10. CASE Receive(r)
  <2>1. at[r] = "receiving" /\ at'[r] = "running" /\ UNCHANGED <<answer, taken>>
    BY <1>10 DEF Receive, Moves, IInv, TypeOK
  <2>2. Fates' = Fates
    BY <1>0, <1>2, <2>1 DEF FateOf, process
  <2>. QED
    BY <1>0, <1>3, <2>1, <2>2 DEF Active
<1>11. CASE Refuse(r)
  <2>1. /\ at[r] \in {"new", "accepted"} /\ at'[r] \in {"responding", "answered"}
        /\ answer'[r] = "Unavailable"
        /\ r \in Direct \/ (at[r] = "accepted" /\ at'[r] = "responding")
    BY <1>11 DEF Refuse, Done, Moves, IInv, TypeOK
  <2>2. Fates[r] = "none" /\ FateOf(r)' = "refused"
    BY <2>1, FatesSay DEF Fates, FateOf
  <2>3. Come' = Come /\ Held' = Held
    BY <1>3, <1>4, <2>1 DEF Active, ViaHTTP
  <2>4. Fates' = [Fates EXCEPT ![r] = "refused"]
    BY <1>1, <2>2
  <2>. QED
    BY <1>0, <2>2, <2>3, <2>4 DEF R!RNext, R!Refuse, R!Becomes
<1>12. CASE Handle(r)
  <2>1. at[r] = "running" /\ answer'[r] = "Served" /\ at'[r] = "responding"
    BY <1>12 DEF Handle, Done, Moves, IInv, TypeOK
  <2>2. Fates[r] = "working" /\ FateOf(r)' = "served"
    BY <2>1, FatesSay DEF Fates, FateOf
  <2>3. Come' = Come /\ Held' = Held
    BY <1>3, <2>1 DEF Active
  <2>4. Fates' = [Fates EXCEPT ![r] = "served"]
    BY <1>1, <2>2
  <2>. QED
    BY <1>0, <2>2, <2>3, <2>4 DEF R!RNext, R!Serve, R!Becomes
<1>13. CASE Respond(r)
  <2>1. at[r] = "responding" /\ at'[r] = "answered" /\ UNCHANGED <<answer, taken>>
    BY <1>13 DEF Respond, Moves, IInv, TypeOK
  <2>2. Fates' = Fates
    BY <1>0, <1>2, <2>1 DEF FateOf, process
  <2>3. CASE r \in ViaHTTP
    <3>1. r \in Held /\ Come' = Come \ {r} /\ Held' = Held \ {r}
      BY <1>0, <2>1, <2>3 DEF Come, Held, Active, ViaHTTP
    <3>2. Fates[r] \in {"served", "refused"}
      BY <2>1, FatesSay DEF Fates
    <3>. QED
      BY <1>0, <2>2, <3>1, <3>2 DEF R!RNext, R!Release
  <2>4. CASE r \notin ViaHTTP
    BY <1>0, <1>4, <2>2, <2>4
  <2>. QED BY <2>3, <2>4
<1>. QED
  BY <1>5, <1>6, <1>7, <1>8, <1>9, <1>10, <1>11, <1>12, <1>13 DEF RequestStep

LEMMA StepKeepsReplica ==
  ASSUME IInv, IInv', [Next]_vars
  PROVE  [R!RNext]_<<PhaseOf, Fates, Come, Held>>
<1>1. CASE Next
  BY <1>1, ProcessKeepsReplica, RequestKeepsReplica DEF Next, Serving, Clients, RequestStep
<1>2. CASE UNCHANGED vars
  BY <1>2 DEF vars, process, requests, PhaseOf, Fates, FateOf, Come, Held
<1>. QED BY <1>1, <1>2

\* The process, with all its goroutines, implements the replica of the abstract
\* specification.
THEOREM ReplicaIsKept == Spec => KeepsReplica
<1>1. Init => R!RInit
  BY ReplicaStarts
<1>2. IInv /\ IInv' /\ [Next]_vars => [R!RNext]_(R!vars)
  BY StepKeepsReplica DEF R!vars
<1>. QED
  BY <1>1, <1>2, LifecycleInductive, PTL DEF Spec, KeepsReplica, R!ReplicaSpec

\* What a step of Replica means.
LEMMA StepMeans ==
  ASSUME [R!RNext]_<<PhaseOf, Fates, Come, Held>>
  PROVE  R!FatesAreFinal /\ R!WaitsShrink
<1>. USE DEF R!FatesAreFinal, R!WaitsShrink
<1>0. Fates = [q \in Request |-> Fates[q]]
  BY DEF Fates
<1>1. ASSUME NEW r \in Request, NEW old \in {"none", "working"},
             NEW new \in {"working", "served", "refused"},
             R!Becomes(r, old, new), new = "working" => PhaseOf = "open"
      PROVE  R!FatesAreFinal /\ R!WaitsShrink
  <2>1. /\ Fates[r] = old /\ Fates' = [Fates EXCEPT ![r] = new]
        /\ PhaseOf' = PhaseOf /\ Come' = Come /\ Held' = Held
    BY <1>1 DEF R!Becomes
  <2>2. \A q \in Request : Fates'[q] = IF q = r THEN new ELSE Fates[q]
    BY <1>0, <2>1
  <2>. QED BY <1>1, <2>1, <2>2
<1>2. ASSUME NEW r \in Request, R!Begin(r) \/ R!Serve(r) \/ R!Refuse(r)
      PROVE  R!FatesAreFinal /\ R!WaitsShrink
  <2>1. \/ R!Becomes(r, "none", "working") /\ PhaseOf = "open"
        \/ R!Becomes(r, "working", "served")
        \/ R!Becomes(r, "none", "refused")
    BY <1>2 DEF R!Begin, R!Serve, R!Refuse
  <2>2. CASE R!Becomes(r, "none", "working") /\ PhaseOf = "open"
    BY <1>1, <2>2
  <2>3. CASE R!Becomes(r, "working", "served")
    BY <1>1, <2>3
  <2>4. CASE R!Becomes(r, "none", "refused")
    BY <1>1, <2>4
  <2>. QED BY <2>1, <2>2, <2>3, <2>4
<1>3. ASSUME NEW r \in Request, R!Come(r) \/ R!Hold(r) \/ R!SendAway(r) \/ R!Release(r)
      PROVE  R!FatesAreFinal /\ R!WaitsShrink
  BY <1>3 DEF R!Come, R!Hold, R!SendAway, R!Release
<1>4. CASE R!Open \/ R!Drain \/ R!Close \/ R!Leave
  BY <1>4 DEF R!Open, R!Drain, R!Close, R!Leave, R!Turn
<1>5. CASE R!Die
  BY <1>5 DEF R!Die
<1>6. CASE UNCHANGED <<PhaseOf, Fates, Come, Held>>
  BY <1>6
<1>. QED BY <1>2, <1>3, <1>4, <1>5, <1>6 DEF R!RNext

\* So, for the process of main.go: whatever became of a request is final, both waits of main
\* are for what was there or connected when they began, and a process that was not killed forgot nobody
\* (main.go:75-80, 107-119).
THEOREM ReplicaMeansIt == Spec => R!PromisesKept /\ []R!NobodyForgotten
<1>1. IInv /\ IInv' /\ [Next]_vars => [R!FatesAreFinal /\ R!WaitsShrink]_(R!vars)
  BY StepKeepsReplica, StepMeans
<1>2. IInv => R!NobodyForgotten
  BY FatesSay DEF R!NobodyForgotten, R!Nobody, Fates, PhaseOf
<1>. QED
  BY <1>1, <1>2, LifecycleInductive, PTL DEF Spec, R!PromisesKept
=============================================================================
