-------------------------- MODULE OrderTicketProofs --------------------------
(***************************************************************************)
(* For any symbols, number of keys, validity of a quote and review pause:  *)
(* one order at a time, confirmed while its facts are valid, approved      *)
(* after a pause.                                                          *)
(***************************************************************************)
EXTENDS OrderTicket, SequenceTheorems, TLAPS

-----------------------------------------------------------------------------
(* The lesser of two numbers. *)
LEMMA MinOfTwo ==
  ASSUME NEW a \in Nat, NEW b \in Nat
  PROVE  Min({a, b}) = IF a <= b THEN a ELSE b
<1>1. \E x \in {a, b} : \A y \in {a, b} : x <= y
  OBVIOUS
<1>2. Min({a, b}) \in {a, b} /\ \A y \in {a, b} : Min({a, b}) <= y
  BY <1>1 DEF Min
<1>3. QED
  BY <1>2

(* One tick later: a screen stays a screen, what is left shrinks to zero   *)
(* and an age grows up to its cap.                                         *)
LEMMA OlderAge ==
  ASSUME NEW a \in Ages \cup {None}
  PROVE  /\ Older(a) \in Ages \cup {None}
         /\ a = None <=> Older(a) = None
         /\ a # None => Older(a) = IF a <= Stale THEN a + 1 ELSE Stale + 1
<1> USE OrderTicketAssumption DEF OrderTicketAssumption, Ages
<1>1. CASE a = None
  BY <1>1 DEF Older
<1>2. CASE a # None
  <2>1. a \in Nat /\ a + 1 \in Nat /\ Stale + 1 \in Nat
    BY <1>2
  <2>2. Min({a + 1, Stale + 1}) = IF a + 1 <= Stale + 1 THEN a + 1 ELSE Stale + 1
    BY <2>1, MinOfTwo
  <2>3. QED BY <1>2, <2>1, <2>2 DEF Older
<1>3. QED BY <1>1, <1>2

(* A screen one tick later. *)
AgedScreen(s) == [s EXCEPT !.valid = Left(@), !.wait = Left(@), !.shown = Older(@)]

(* It is a screen of the same kind. *)
LEMMA AgedIsAScreen ==
  ASSUME NEW s \in Screen
  PROVE  /\ AgedScreen(s) \in Screen
         /\ AgedScreen(s).kind = s.kind /\ AgedScreen(s).flag = s.flag
         /\ AgedScreen(s).valid = Left(s.valid) /\ AgedScreen(s).wait = Left(s.wait)
         /\ AgedScreen(s).shown = Older(s.shown)
<1> USE OrderTicketAssumption DEF OrderTicketAssumption, Screen
<1>1. Older(s.shown) \in Ages \cup {None}
  BY OlderAge
<1>2. Left(s.valid) \in Ages \cup {None}
  BY DEF Left, Ages
<1>3. Left(s.wait) \in Ages \cup 0 .. Arm \cup {None}
  BY DEF Left, Ages
<1>4. QED BY <1>1, <1>2, <1>3 DEF AgedScreen

(* Aged makes a screen of a sequence one tick older, each of them. *)
LEMMA AgedSequence ==
  ASSUME NEW s \in Seq(Screen)
  PROVE  /\ Aged(s) \in Seq(Screen)
         /\ Len(Aged(s)) = Len(s)
         /\ \A i \in 1 .. Len(s) : Aged(s)[i] = AgedScreen(s[i])
<1>1. Len(s) \in Nat /\ DOMAIN s = 1 .. Len(s)
  BY LenProperties
<1>2. Aged(s) = [i \in 1 .. Len(s) |-> AgedScreen(s[i])]
  BY <1>1 DEF Aged, AgedScreen
<1>3. \A i \in 1 .. Len(s) : AgedScreen(s[i]) \in Screen
  BY ElementOfSeq, AgedIsAScreen
<1>4. Aged(s) \in [1 .. Len(s) -> Screen]
  BY <1>2, <1>3
<1>5. Aged(s) \in Seq(Screen)
  BY <1>1, <1>4, SeqDef
<1>6. DOMAIN Aged(s) = 1 .. Len(Aged(s)) /\ Len(Aged(s)) \in Nat
  BY <1>5, LenProperties
<1>7. Len(Aged(s)) = Len(s)
  BY <1>1, <1>2, <1>6
<1>8. QED BY <1>2, <1>5, <1>7

(* The screen on top, and what is left without it. *)
LEMMA FrontAndLast ==
  ASSUME NEW S, NEW s \in Seq(S), s # << >>
  PROVE  /\ Len(s) \in Nat \ {0} /\ Last(s) \in S /\ Last(s) = s[Len(s)]
         /\ Front(s) \in Seq(S) /\ Len(Front(s)) = Len(s) - 1
         /\ \A i \in 1 .. Len(s) - 1 : Front(s)[i] = s[i]
<1> DEFINE n == Len(s) - 1
<1>1. Len(s) \in Nat \ {0} /\ n \in Nat
  BY EmptySeq
<1>2. \A i \in 1 .. Len(s) : s[i] \in S
  BY ElementOfSeq
<1>3. \A i \in 1 .. n : s[i] \in S
  BY <1>1, <1>2
<1>4. Front(s) = SubSeq(s, 1, n)
  BY DEF Front
<1> HIDE DEF n
<1>5. /\ Front(s) \in Seq(S)
      /\ Len(Front(s)) = IF 1 <= n THEN n - 1 + 1 ELSE 0
      /\ \A i \in 1 .. n - 1 + 1 : Front(s)[i] = s[1 + i - 1]
  <2>1. 1 \in Int /\ n \in Int
    BY <1>1
  <2>2. QED BY <2>1, <1>3, <1>4, SubSeqProperties
<1>6. Len(Front(s)) = n /\ \A i \in 1 .. n : Front(s)[i] = s[i]
  <2>1. 1 .. n - 1 + 1 = 1 .. n /\ \A i \in 1 .. n : 1 + i - 1 = i
    BY <1>1
  <2>2. QED BY <1>1, <1>5, <2>1
<1>7. QED BY <1>1, <1>2, <1>5, <1>6 DEF Last, n

-----------------------------------------------------------------------------
(* What the operator sees of the facts is as old as their validity says.   *)
FactsAgree(s) ==
  s.kind # "ticket" =>
    /\ s.valid = None <=> s.shown = None
    /\ s.valid \notin {None, 0} => s.valid + s.shown = Stale

(* An approval is armed, or will be, a full pause after the last Enter. *)
PauseAhead(s) ==
  s.kind = "approval" =>
    IF s.flag THEN sinceEnter >= Arm ELSE s.wait \in 0 .. Arm /\ s.wait + sinceEnter >= Arm

(* Screens that are right about the facts and the pause. *)
GoodScreen == {s \in Screen : FactsAgree(s) /\ PauseAhead(s)}

(* The rest of the plain state, bounded by the clock.                      *)
Plain ==
  /\ symbol \in Symbols
  /\ age \in Ages \cup {None}
  /\ opening \in [Presses -> Symbols \cup {None}]
  /\ orders \in 0 .. MaxOrders
  /\ sinceEnter \in 0 .. Arm
  /\ confirmed \in Ages \cup {None}

(* At most one press is at its account request, one screen is up or one    *)
(* result is on its way.                                                   *)
OneAtATime ==
  /\ screens \in Seq(GoodScreen) /\ callbacks \in Seq(GoodScreen)
  /\ Len(screens) + Len(callbacks) <= 1
  /\ \A p \in Presses : opening[p] # None => screens = << >> /\ callbacks = << >>
  /\ \A p, q \in Presses : opening[p] # None /\ opening[q] # None => p = q

(* The inductive invariant of the ticket. *)
TicketInv == Plain /\ OneAtATime /\ ConfirmedWhileFactsValid

(* A tick keeps a screen good: what is left and what is shown move alike,  *)
(* and so do the pause and the time since the last Enter.                  *)
LEMMA GoodScreensAge ==
  ASSUME NEW s \in GoodScreen, sinceEnter \in 0 .. Arm,
         sinceEnter' = Min({sinceEnter + 1, Arm})
  PROVE  AgedScreen(s) \in GoodScreen'
<1> USE OrderTicketAssumption DEF OrderTicketAssumption
<1>1. s \in Screen /\ FactsAgree(s) /\ PauseAhead(s)
  BY DEF GoodScreen
<1>2. /\ AgedScreen(s) \in Screen
      /\ AgedScreen(s).kind = s.kind /\ AgedScreen(s).flag = s.flag
      /\ AgedScreen(s).valid = Left(s.valid) /\ AgedScreen(s).wait = Left(s.wait)
      /\ AgedScreen(s).shown = Older(s.shown)
  BY <1>1, AgedIsAScreen
<1>3. sinceEnter' = IF sinceEnter + 1 <= Arm THEN sinceEnter + 1 ELSE Arm
  BY MinOfTwo
<1>4. FactsAgree(AgedScreen(s))
  <2>1. s.shown \in Ages \cup {None} /\ s.valid \in Ages \cup {None}
    BY <1>1 DEF Screen
  <2>2. /\ s.shown = None <=> Older(s.shown) = None
        /\ s.shown # None => Older(s.shown) = IF s.shown <= Stale THEN s.shown + 1 ELSE Stale + 1
    BY <2>1, OlderAge
  <2>3. QED BY <1>1, <1>2, <2>1, <2>2 DEF FactsAgree, Left, Ages
<1>5. PauseAhead(AgedScreen(s))'
  BY <1>1, <1>2, <1>3 DEF PauseAhead, Left
<1>6. QED BY <1>2, <1>4, <1>5 DEF GoodScreen

(* With one screen up, dismissing it leaves none. *)
LEMMA OneScreen ==
  ASSUME NEW S, NEW s \in Seq(S), Len(s) <= 1, s # << >>
  PROVE  Len(s) = 1 /\ Front(s) = << >> /\ Last(s) = s[1] /\ s[1] \in S
<1>1. /\ Len(s) \in Nat \ {0} /\ Last(s) \in S /\ Last(s) = s[Len(s)]
      /\ Front(s) \in Seq(S) /\ Len(Front(s)) = Len(s) - 1
  BY FrontAndLast
<1>2. Len(s) = 1 /\ Len(Front(s)) = 0
  BY <1>1
<1>3. QED BY <1>1, <1>2, EmptySeq

(* The plain variables keep their ranges. *)
LEMMA PlainStep == TicketInv /\ [Next]_vars => Plain'
<1> SUFFICES ASSUME TicketInv, [Next]_vars PROVE Plain'
  OBVIOUS
<1> USE OrderTicketAssumption DEF OrderTicketAssumption, TicketInv, Plain, envVars, vars
<1>1. symbol' \in Symbols /\ opening' \in [Presses -> Symbols \cup {None}]
  BY DEF Next, Press, AccountAnswers, TicketOpens, OpenFails, ReleaseLock, Enter, Escape, TimerFires,
     CallbackRuns, PriceObserved, HealthChanges, SwitchDone, Tick
<1>2. age' \in Ages \cup {None}
  <2>1. Older(age) \in Ages \cup {None} /\ 0 \in Ages
    BY OlderAge DEF Ages
  <2>2. QED
    BY <2>1 DEF Next, Press, AccountAnswers, TicketOpens, OpenFails, Enter, Escape, TimerFires,
       CallbackRuns, PriceObserved, HealthChanges, SwitchDone, Tick
<1>3. orders' \in 0 .. MaxOrders
  <2>1. CASE Enter
    <3>1. orders' \in {orders, orders + 1} /\ orders < MaxOrders
      BY <2>1 DEF Enter, EnterOnTicket, EnterOnConfirm, EnterOnApproval
    <3>2. QED BY <3>1
  <2>2. CASE ~Enter
    BY <2>2 DEF Next, Press, AccountAnswers, TicketOpens, OpenFails, Escape, TimerFires,
       CallbackRuns, PriceObserved, HealthChanges, SwitchDone, Tick
  <2>3. QED BY <2>1, <2>2
<1>4. sinceEnter' \in 0 .. Arm
  <2>1. Min({sinceEnter + 1, Arm}) \in 0 .. Arm
    BY MinOfTwo
  <2>2. sinceEnter' \in {sinceEnter, 0, Min({sinceEnter + 1, Arm})}
    BY DEF Next, Press, AccountAnswers, TicketOpens, OpenFails, Enter, Escape, TimerFires,
       CallbackRuns, PriceObserved, HealthChanges, SwitchDone, Tick
  <2>3. QED BY <2>1, <2>2
<1>5. confirmed' \in Ages \cup {None}
  <2>1. CASE CallbackRuns
    <3>1. Head(callbacks) \in Screen
      BY <2>1, HeadTailProperties DEF OneAtATime, GoodScreen, CallbackRuns
    <3>2. QED BY <2>1, <3>1 DEF CallbackRuns, PreviewBuilt, PaperConfirmed, Screen
  <2>2. CASE ~CallbackRuns
    BY <2>2 DEF Next, Press, AccountAnswers, TicketOpens, OpenFails, Enter, EnterOnTicket,
       EnterOnConfirm, EnterOnApproval, Escape, TimerFires, PriceObserved, HealthChanges, SwitchDone, Tick
  <2>3. QED BY <2>1, <2>2
<1>6. QED BY <1>1, <1>2, <1>3, <1>4, <1>5

(* When no Enter is pressed and no tick passes, a good screen stays good. *)
LEMMA SameGoodScreens == sinceEnter' = sinceEnter => GoodScreen' = GoodScreen
BY DEF GoodScreen, PauseAhead

(* A ticket is only opened where nothing else is up. *)
LEMMA OpeningStep ==
  ASSUME NEW p \in Presses, TicketInv, Press(p) \/ AccountAnswers(p)
  PROVE  OneAtATime'
<1> USE OrderTicketAssumption DEF OrderTicketAssumption, TicketInv, Plain, OneAtATime
<1>1. GoodScreen' = GoodScreen
  BY SameGoodScreens DEF Press, AccountAnswers, TicketOpens, OpenFails
<1>2. CASE Press(p)
  BY <1>1, <1>2 DEF Press, TicketLockFree
<1>3. CASE OpenFails(p)
  BY <1>1, <1>3 DEF OpenFails, ReleaseLock
<1>4. CASE TicketOpens(p)
  <2> DEFINE ticket == [kind |-> "ticket", symbol |-> opening[p], valid |-> None,
                        shown |-> None, wait |-> None, flag |-> FALSE]
  <2>1. ticket \in GoodScreen
    BY <1>4 DEF TicketOpens, GoodScreen, Screen, FactsAgree, PauseAhead
  <2>2. screens = << >> /\ callbacks = << >> /\ \A q \in Presses : opening'[q] = None
    BY <1>4 DEF TicketOpens, ReleaseLock
  <2>3. screens' = Append(screens, ticket) /\ callbacks' = callbacks
    BY <1>4 DEF TicketOpens
  <2> HIDE DEF ticket
  <2>4. screens' \in Seq(GoodScreen) /\ Len(screens') = Len(screens) + 1
    BY <2>1, <2>3, AppendProperties
  <2>5. QED BY <1>1, <2>2, <2>3, <2>4
<1>5. QED BY <1>2, <1>3, <1>4 DEF AccountAnswers

(* A key on the one screen keeps it or moves it to the callbacks. *)
LEMMA KeyStep ==
  ASSUME TicketInv, Enter \/ Escape
  PROVE  OneAtATime'
<1> USE OrderTicketAssumption DEF OrderTicketAssumption, TicketInv, Plain, OneAtATime
<1>1. /\ screens # << >> /\ callbacks = << >> /\ opening' = opening
      /\ \A p \in Presses : opening[p] = None
  BY DEF Enter, Escape
<1>2. Len(screens) = 1 /\ Front(screens) = << >> /\ Top = screens[1] /\ Top \in GoodScreen
  <2>1. Len(screens) <= 1
    BY <1>1, LenProperties
  <2>2. QED BY <1>1, <2>1, OneScreen DEF Top
<1>3. CASE screens' = << >> /\ callbacks' = << >>
  BY <1>1, <1>3
<1>4. CASE Enter /\ Dismiss(<<Top>>) /\ Top.kind # "approval"
  <2>1. Top \in GoodScreen'
    BY <1>2, <1>4 DEF GoodScreen, PauseAhead
  <2>2. screens' = << >> /\ callbacks' = <<Top>>
    BY <1>1, <1>2, <1>4 DEF Dismiss
  <2>3. QED BY <1>1, <2>1, <2>2
<1>5. CASE Enter /\ UNCHANGED <<screens, callbacks>> /\ Top.kind # "approval"
  <2>1. Top \in GoodScreen'
    BY <1>2, <1>5 DEF GoodScreen, PauseAhead
  <2>2. screens = <<Top>>
    BY <1>2, ElementOfSeq
  <2>3. QED BY <1>1, <1>5, <2>1, <2>2
<1>6. CASE Enter /\ EnterOnApproval /\ ~Top.flag
  <2> DEFINE again == [Top EXCEPT !.wait = Arm]
  <2>1. again \in GoodScreen'
    BY <1>2, <1>6 DEF GoodScreen, Screen, PauseAhead, FactsAgree, Enter
  <2>2. screens' = <<again>> /\ callbacks' = << >>
    BY <1>1, <1>2, <1>6 DEF EnterOnApproval, WaitAfterEarlyEnter
  <2> HIDE DEF again
  <2>3. QED BY <1>1, <2>1, <2>2
<1>7. CASE (Enter /\ EnterOnApproval /\ Top.flag) \/ Escape
  BY <1>1, <1>2, <1>3, <1>7 DEF EnterOnApproval, Escape, Dismiss
<1>8. QED
  BY <1>4, <1>5, <1>6, <1>7 DEF Enter, EnterOnTicket, EnterOnConfirm, EnterOnApproval

(* The approval is a screen, with the facts of the confirmation. *)
LEMMA ApprovalOfScreen ==
  ASSUME NEW s \in Screen
  PROVE  LET plan == [s EXCEPT !.kind = "approval", !.wait = Arm, !.flag = FALSE]
         IN  /\ plan \in Screen /\ plan.kind = "approval" /\ plan.flag = FALSE
             /\ plan.wait = Arm /\ plan.valid = s.valid /\ plan.shown = s.shown
<1>1. Arm \in 0 .. Arm
  BY OrderTicketAssumption DEF OrderTicketAssumption
<1>2. QED BY <1>1 DEF Screen

(* A result that is handled gives at most the next screen. *)
LEMMA CallbackStep ==
  ASSUME TicketInv, CallbackRuns
  PROVE  OneAtATime' /\ ConfirmedWhileFactsValid'
<1> USE OrderTicketAssumption DEF OrderTicketAssumption, TicketInv, Plain, OneAtATime
<1>1. /\ callbacks # << >> /\ opening' = opening /\ sinceEnter' = sinceEnter
      /\ GoodScreen' = GoodScreen /\ \A p \in Presses : opening[p] = None
  BY SameGoodScreens DEF CallbackRuns
<1>2. Head(callbacks) \in GoodScreen /\ Len(callbacks) = 1 /\ screens = << >> /\ callbacks' = << >>
  <2>1. /\ Head(callbacks) \in GoodScreen /\ Tail(callbacks) \in Seq(GoodScreen)
        /\ Len(Tail(callbacks)) = Len(callbacks) - 1
    BY <1>1, HeadTailProperties
  <2>2. Len(callbacks) \in Nat \ {0} /\ Len(screens) \in Nat
    BY <1>1, EmptySeq, LenProperties
  <2>3. Len(callbacks) = 1 /\ Len(screens) = 0
    <3>1. Len(screens) + Len(callbacks) <= 1
      OBVIOUS
    <3>2. QED BY ONLY <2>2, <3>1
  <2>4. QED BY <2>1, <2>3, EmptySeq DEF CallbackRuns
<1>3. ASSUME NEW s \in GoodScreen, screens' = Append(screens, s)
      PROVE  OneAtATime'
  <2>1. screens' \in Seq(GoodScreen) /\ Len(screens') = 1
    BY <1>2, <1>3, AppendProperties
  <2>2. QED BY <1>1, <1>2, <2>1
<1>4. CASE PreviewBuilt
  <2> DEFINE confirm == [kind |-> "confirm", symbol |-> Head(callbacks).symbol,
                         valid |-> Validity, shown |-> age, wait |-> Validity, flag |-> FALSE]
  <2>1. Validity \in Ages \cup {None}
    BY DEF Validity, Ages
  <2>2. /\ Validity = None <=> age = None
        /\ Validity \notin {None, 0} => Validity + age = Stale
    BY DEF Validity, Ages
  <2>3. confirm \in GoodScreen
    BY <1>2, <2>1, <2>2 DEF GoodScreen, Screen, FactsAgree, PauseAhead
  <2>4. screens' = Append(screens, confirm) /\ confirmed' = confirmed
    BY <1>4 DEF PreviewBuilt
  <2> HIDE DEF confirm
  <2>5. QED BY <1>3, <2>3, <2>4 DEF ConfirmedWhileFactsValid
<1>5. CASE PaperConfirmed
  <2> DEFINE plan == [Head(callbacks) EXCEPT !.kind = "approval", !.wait = Arm, !.flag = FALSE]
  <2>1. plan \in GoodScreen
    <3>1. Head(callbacks) \in Screen /\ FactsAgree(Head(callbacks)) /\ Head(callbacks).kind = "confirm"
      BY <1>2, <1>5 DEF GoodScreen, PaperConfirmed
    <3>2. /\ plan \in Screen /\ plan.kind = "approval" /\ plan.flag = FALSE /\ plan.wait = Arm
          /\ plan.valid = Head(callbacks).valid /\ plan.shown = Head(callbacks).shown
      BY <3>1, ApprovalOfScreen
    <3> HIDE DEF plan
    <3>3. FactsAgree(plan) /\ PauseAhead(plan)
      BY <3>1, <3>2 DEF FactsAgree, PauseAhead
    <3>4. QED BY <3>2, <3>3 DEF GoodScreen
  <2>2. screens' = screens \/ screens' = Append(screens, plan)
    BY <1>5 DEF PaperConfirmed
  <2>3. ConfirmedWhileFactsValid'
    <3>1. /\ Head(callbacks).valid \in Nat \cup {None} /\ Head(callbacks).shown \in Nat \cup {None}
          /\ Head(callbacks).kind = "confirm" /\ FactsAgree(Head(callbacks))
      BY <1>2, <1>5 DEF GoodScreen, Screen, Ages, PaperConfirmed
    <3>2. CASE ~Confirmable(Head(callbacks))
      BY <1>5, <3>2 DEF PaperConfirmed, ConfirmedWhileFactsValid
    <3>3. CASE Confirmable(Head(callbacks))
      <4>1. confirmed' = Head(callbacks).shown /\ Head(callbacks).valid # 0
        BY <1>5, <3>3 DEF PaperConfirmed, Confirmable
      <4>2. CASE Head(callbacks).valid = None
        BY <3>1, <4>1, <4>2 DEF FactsAgree, ConfirmedWhileFactsValid
      <4>3. CASE Head(callbacks).valid # None
        <5>1. /\ Head(callbacks).valid \in Nat \ {0} /\ Head(callbacks).shown \in Nat \ {None}
              /\ Head(callbacks).valid + Head(callbacks).shown = Stale
          BY ONLY <3>1, <4>1, <4>3 DEF FactsAgree
        <5>2. Head(callbacks).shown <= Stale - 1 /\ Head(callbacks).shown # None
          <6>1. Stale \in Nat
            OBVIOUS
          <6>2. QED BY ONLY <5>1, <6>1
        <5>3. QED BY <4>1, <5>2 DEF ConfirmedWhileFactsValid, NotOlderThan
      <4>4. QED BY <4>2, <4>3
    <3>4. QED BY <3>2, <3>3
  <2> HIDE DEF plan
  <2>4. CASE screens' = screens
    BY <1>1, <1>2, <2>3, <2>4
  <2>5. CASE screens' = Append(screens, plan)
    <3>1. OneAtATime'
      BY ONLY <1>3, <2>1, <2>5
    <3>2. QED BY <2>3, <3>1
  <2>6. QED BY ONLY <2>2, <2>4, <2>5
<1>6. PreviewBuilt \/ PaperConfirmed
  BY DEF CallbackRuns
<1>7. QED BY ONLY <1>4, <1>5, <1>6

(* A screen whose timer fired differs in its flag. *)
LEMMA FiredIsAScreen ==
  ASSUME NEW s \in Screen
  PROVE  LET fired == [s EXCEPT !.flag = TRUE]
         IN  /\ fired \in Screen /\ fired.kind = s.kind /\ fired.flag = TRUE
             /\ fired.valid = s.valid /\ fired.shown = s.shown
BY DEF Screen

(* A tick ages every screen; a timer that fires has waited long enough. *)
LEMMA TimeStep ==
  ASSUME TicketInv, Tick \/ TimerFires
  PROVE  OneAtATime'
<1> USE OrderTicketAssumption DEF OrderTicketAssumption, TicketInv, Plain, OneAtATime
<1>1. /\ screens \in Seq(Screen) /\ callbacks \in Seq(Screen) /\ opening' = opening
      /\ Len(screens) \in Nat /\ Len(callbacks) \in Nat
  <2>1. \A i \in 1 .. Len(screens) : screens[i] \in Screen
    BY ElementOfSeq DEF GoodScreen
  <2>2. \A i \in 1 .. Len(callbacks) : callbacks[i] \in Screen
    BY ElementOfSeq DEF GoodScreen
  <2>3. screens \in Seq(Screen)
    BY <2>1, LenProperties, SeqDef
  <2>4. callbacks \in Seq(Screen)
    BY <2>2, LenProperties, SeqDef
  <2>5. QED BY <2>3, <2>4, LenProperties DEF Tick, TimerFires
<1>2. CASE Tick
  <2>1. ASSUME NEW s \in Seq(GoodScreen), s \in Seq(Screen)
        PROVE  Aged(s) \in Seq(GoodScreen') /\ Len(Aged(s)) = Len(s)
    <3>1. /\ Aged(s) \in Seq(Screen) /\ Len(Aged(s)) = Len(s) /\ Len(s) \in Nat
          /\ \A i \in 1 .. Len(s) : Aged(s)[i] = AgedScreen(s[i])
      BY <2>1, AgedSequence, LenProperties
    <3>2. \A i \in 1 .. Len(s) : s[i] \in GoodScreen
      BY ElementOfSeq
    <3>3. sinceEnter \in 0 .. Arm /\ sinceEnter' = Min({sinceEnter + 1, Arm})
      BY <1>2 DEF Tick
    <3>4. \A i \in 1 .. Len(s) : Aged(s)[i] \in GoodScreen'
      BY <3>1, <3>2, <3>3, GoodScreensAge
    <3>5. Aged(s) \in [1 .. Len(s) -> GoodScreen']
      BY <3>1, <3>4, LenProperties
    <3>6. Aged(s) \in Seq(GoodScreen')
      BY ONLY <3>1, <3>5, SeqDef
    <3>7. QED BY ONLY <3>1, <3>6
  <2>2. screens' \in Seq(GoodScreen') /\ callbacks' \in Seq(GoodScreen')
    BY <1>1, <1>2, <2>1 DEF Tick
  <2>3. Len(screens') = Len(screens) /\ Len(callbacks') = Len(callbacks)
    BY <1>1, <1>2, <2>1 DEF Tick
  <2>4. /\ screens = << >> => screens' = << >>
        /\ callbacks = << >> => callbacks' = << >>
    BY <1>1, <2>2, <2>3, EmptySeq
  <2>5. QED BY <1>1, <2>2, <2>3, <2>4
<1>3. CASE TimerFires
  <2>1. GoodScreen' = GoodScreen
    BY <1>3, SameGoodScreens DEF TimerFires
  <2>2. PICK i \in 1 .. Len(screens) : /\ screens[i].wait = 0 /\ ~screens[i].flag
                                      /\ screens' = [screens EXCEPT ![i].flag = TRUE]
                                      /\ callbacks' = callbacks /\ opening' = opening
    BY <1>3 DEF TimerFires
  <2>3. screens[i] \in GoodScreen
    BY ElementOfSeq
  <2> DEFINE fired == [screens[i] EXCEPT !.flag = TRUE]
  <2>4. fired \in GoodScreen
    <3>1. /\ fired \in Screen /\ fired.kind = screens[i].kind /\ fired.flag = TRUE
          /\ fired.valid = screens[i].valid /\ fired.shown = screens[i].shown
      BY <2>3, FiredIsAScreen DEF GoodScreen
    <3> HIDE DEF fired
    <3>2. FactsAgree(fired)
      BY <2>3, <3>1 DEF GoodScreen, FactsAgree
    <3>3. fired.kind = "approval" => sinceEnter >= Arm
      <4>1. PauseAhead(screens[i])
        BY <2>3 DEF GoodScreen
      <4>2. screens[i].kind = "approval" => screens[i].wait + sinceEnter >= Arm
        BY <2>2, <4>1, Zenon DEF PauseAhead
      <4>3. sinceEnter \in Nat /\ Arm \in Nat
        OBVIOUS
      <4>4. QED BY <2>2, <3>1, <4>2, <4>3
    <3>4. QED BY <3>1, <3>2, <3>3 DEF GoodScreen, PauseAhead
  <2>5. screens' = [screens EXCEPT ![i] = fired]
    BY <2>2
  <2> HIDE DEF fired
  <2>6. screens' \in Seq(GoodScreen) /\ Len(screens') = Len(screens)
    BY <2>4, <2>5, ExceptSeq
  <2>7. screens # << >>
    BY EmptySeq
  <2>8. QED BY <1>1, <2>1, <2>2, <2>6, <2>7
<1>4. QED BY <1>2, <1>3

(* The market and the switch of a symbol leave the screens alone. *)
LEMMA QuietStep ==
  ASSUME TicketInv, PriceObserved \/ HealthChanges \/ SwitchDone \/ UNCHANGED vars
  PROVE  OneAtATime'
<1>1. UNCHANGED <<opening, screens, callbacks, sinceEnter>>
  BY DEF PriceObserved, HealthChanges, SwitchDone, vars
<1>2. QED BY <1>1, SameGoodScreens DEF TicketInv, OneAtATime

(* The ticket flow starts empty and every step keeps its invariant. *)
LEMMA TicketInvariant == Spec => []TicketInv
<1>1. Init => TicketInv
  BY OrderTicketAssumption
     DEF OrderTicketAssumption, Init, TicketInv, Plain, OneAtATime, ConfirmedWhileFactsValid
<1>2. TicketInv /\ [Next]_vars => TicketInv'
  <2> SUFFICES ASSUME TicketInv, [Next]_vars PROVE TicketInv'
    OBVIOUS
  <2>1. Plain'
    BY PlainStep
  <2>2. OneAtATime'
    BY OpeningStep, KeyStep, CallbackStep, TimeStep, QuietStep DEF Next
  <2>3. ConfirmedWhileFactsValid'
    <3>1. CASE CallbackRuns
      BY <3>1, CallbackStep
    <3>2. CASE ~CallbackRuns
      <4>1. confirmed' = confirmed
        BY <3>2 DEF Next, Press, AccountAnswers, TicketOpens, OpenFails, Enter, EnterOnTicket,
           EnterOnConfirm, EnterOnApproval, Escape, TimerFires, PriceObserved, HealthChanges,
           SwitchDone, Tick, vars
      <4>2. QED BY <4>1 DEF TicketInv, ConfirmedWhileFactsValid, NotOlderThan
    <3>3. QED BY <3>1, <3>2
  <2>4. QED BY <2>1, <2>2, <2>3 DEF TicketInv
<1>3. QED BY <1>1, <1>2, PTL DEF Spec

(* The app, its screens and its callbacks never leave their types. *)
THEOREM TicketTypeCorrect == Spec => []TypeOK
<1> DEFINE Flags == healthy \in BOOLEAN /\ live \in BOOLEAN
<1>1. Init => Flags
  BY DEF Init
<1>2. Flags /\ [Next]_vars => Flags'
  <2> SUFFICES ASSUME Flags, [Next]_vars PROVE Flags'
    OBVIOUS
  <2>1. healthy' \in {healthy, ~healthy, FALSE} /\ live' = live
    BY DEF Next, Press, AccountAnswers, TicketOpens, OpenFails, Enter, Escape, TimerFires,
       CallbackRuns, PriceObserved, HealthChanges, SwitchDone, Tick, vars, envVars
  <2>2. QED BY <2>1
<1>3. TicketInv /\ Flags => TypeOK
  <2> SUFFICES ASSUME TicketInv, Flags PROVE TypeOK
    OBVIOUS
  <2>1. \A i \in 1 .. Len(screens) : screens[i] \in Screen
    BY ElementOfSeq DEF TicketInv, OneAtATime, GoodScreen
  <2>2. \A i \in 1 .. Len(callbacks) : callbacks[i] \in Screen
    BY ElementOfSeq DEF TicketInv, OneAtATime, GoodScreen
  <2>3. screens \in Seq(Screen) /\ Len(screens) \in Nat
    BY <2>1, LenProperties, SeqDef DEF TicketInv, OneAtATime
  <2>4. callbacks \in Seq(Screen) /\ Len(callbacks) \in Nat
    BY <2>2, LenProperties, SeqDef DEF TicketInv, OneAtATime
  <2>5. Len(screens) <= MaxScreens
    BY <2>3, <2>4, OrderTicketAssumption DEF OrderTicketAssumption, TicketInv, OneAtATime
  <2>6. QED BY <2>3, <2>4, <2>5 DEF TypeOK, TicketInv, Plain
<1>4. QED BY <1>1, <1>2, <1>3, TicketInvariant, PTL DEF Spec

(* However many keys are pressed while the account is read, one ticket,    *)
(* confirmation or approval is up at a time.                               *)
THEOREM OneOrder == Spec => []OneOrderAtATime
<1>1. TicketInv => OneOrderAtATime
  BY DEF TicketInv, OneAtATime, OneOrderAtATime
<1>2. QED BY <1>1, TicketInvariant, PTL

(* The quote behind a confirmation was valid, whichever timers were late.  *)
THEOREM ConfirmedInTime == Spec => []ConfirmedWhileFactsValid
<1>1. TicketInv => ConfirmedWhileFactsValid
  BY DEF TicketInv
<1>2. QED BY <1>1, TicketInvariant, PTL

(* A preview is built for the symbol that is active at that moment. *)
THEOREM PreviewOfActiveSymbol == Spec => PreviewIsOfActiveSymbol
<1>1. TicketInv /\ [Next]_vars =>
        (Len(callbacks') > Len(callbacks) /\ Last(callbacks').kind = "ticket" =>
           Last(callbacks').symbol = symbol)
  <2> SUFFICES ASSUME TicketInv, [Next]_vars, Len(callbacks') > Len(callbacks),
                      Last(callbacks').kind = "ticket"
               PROVE  Last(callbacks').symbol = symbol
    OBVIOUS
  <2>1. callbacks \in Seq(GoodScreen) /\ Len(callbacks) \in Nat
    BY LenProperties DEF TicketInv, OneAtATime
  <2>2. callbacks' # callbacks
    BY <2>1
  <2>3. CASE CallbackRuns
    <3>1. Len(callbacks') = Len(callbacks) - 1
      BY <2>1, <2>3, HeadTailProperties DEF CallbackRuns
    <3>2. QED BY <2>1, <3>1
  <2>4. CASE Tick
    <3>1. \A i \in 1 .. Len(callbacks) : callbacks[i] \in Screen
      BY <2>1, ElementOfSeq DEF GoodScreen
    <3>2. callbacks \in Seq(Screen)
      BY <2>1, <3>1, LenProperties, SeqDef
    <3>3. QED BY <2>1, <2>4, <3>2, AgedSequence DEF Tick
  <2>5. CASE Escape
    <3>1. callbacks' = << >>
      BY <2>5 DEF Escape, Dismiss
    <3>2. QED BY <2>2, <2>5, <3>1 DEF Escape
  <2>6. CASE Enter
    <3>1. callbacks = << >> /\ screens # << >> /\ screens \in Seq(GoodScreen)
      BY <2>6 DEF Enter, TicketInv, OneAtATime
    <3>2. CASE Dismiss(<<Top>>) /\ (StillActive(Top.symbol) \/ Top.kind # "ticket")
      <4>1. callbacks' = <<Top>>
        BY <3>1, <3>2 DEF Dismiss
      <4>2. Last(callbacks') = Top
        BY <4>1 DEF Last
      <4>3. QED BY <3>2, <4>2 DEF StillActive
    <3>3. CASE Dismiss(<< >>)
      BY <2>2, <3>1, <3>3 DEF Dismiss
    <3>4. QED
      BY <2>2, <2>6, <3>2, <3>3 DEF Enter, EnterOnTicket, EnterOnConfirm, EnterOnApproval
  <2>7. callbacks' = callbacks \/ CallbackRuns \/ Tick \/ Escape \/ Enter
    BY DEF Next, Press, AccountAnswers, TicketOpens, OpenFails, TimerFires, PriceObserved,
       HealthChanges, SwitchDone, vars
  <2>8. QED BY <2>2, <2>3, <2>4, <2>5, <2>6, <2>7
<1>2. QED BY <1>1, TicketInvariant, PTL DEF Spec, PreviewIsOfActiveSymbol

(* An approval always follows a pause without Enter. *)
THEOREM ApprovalAfterPause == Spec => ApprovedAfterAPause
<1>1. TicketInv /\ [Next]_vars => (orders' > orders => sinceEnter >= Arm)
  <2> SUFFICES ASSUME TicketInv, [Next]_vars, orders' > orders
               PROVE  sinceEnter >= Arm
    OBVIOUS
  <2>1. orders \in Nat /\ orders' # orders
    BY DEF TicketInv, Plain
  <2>2. Enter /\ EnterOnApproval /\ Top.flag
    BY <2>1 DEF Next, Press, AccountAnswers, TicketOpens, OpenFails, Enter, EnterOnTicket,
       EnterOnConfirm, EnterOnApproval, Escape, TimerFires, CallbackRuns, PriceObserved,
       HealthChanges, SwitchDone, Tick, vars
  <2>3. Top \in GoodScreen
    BY <2>2, FrontAndLast DEF TicketInv, OneAtATime, Enter, Top
  <2>4. QED BY <2>2, <2>3 DEF GoodScreen, PauseAhead, EnterOnApproval
<1>2. QED BY <1>1, TicketInvariant, PTL DEF Spec, ApprovedAfterAPause
=============================================================================
