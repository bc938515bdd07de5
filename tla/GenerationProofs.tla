-------------------------- MODULE GenerationProofs --------------------------
(***************************************************************************)
(* What Generation keeps for every set of unplaced ingredients and every   *)
(* latency of the provider: the request stays within its deadline, stores  *)
(* only what passed every check, and loses an accepted week to the         *)
(* deadline alone.                                                         *)
(***************************************************************************)
EXTENDS Generation, FiniteSetTheorems, TLAPS

(* The request is past the checks, or was when it asked for a category. *)
PastChecks ==
    /\ stage \in {"listing", "sorting", "writing", "stored"} \/ topic # Recipes
    /\ op # "cookAgain"

(* The four loops, where they meet: a counter is below its limit whenever  *)
(* the loop may go round again, and the answer to a category question      *)
(* never reaches the checks of a recipe.                                   *)
IInv ==
    /\ TypeOK
    /\ WithinDeadline
    /\ PastChecks => passed = Checks
    /\ stage = "checking" => topic = Recipes
    /\ stage = "backoff" => try < maxAttempts

USE DEF Operations, Stages, Topics, generationTimeout, callTimeout, maxAttempts,
        maxDislikeRetries

(* A call never outlasts the request. *)
LEMMA LimitBounded == now \in Nat /\ now <= generationTimeout
                        => Limit \in Nat /\ now + Limit <= generationTimeout
  BY DEF Limit

(* Giving up leads either out of the request or back to the list.          *)
LEMMA GiveUpKeeps ==
    ASSUME TypeOK, GiveUp
    PROVE  /\ stage' \in {"failed", "sorting"}
           /\ stage' = "sorting" => topic # Recipes
           /\ stage' = "failed" => topic = Recipes
           /\ pending' \in SUBSET Names
           /\ UNCHANGED <<topic, ask, try>>
  BY DEF TypeOK, GiveUp

LEMMA InitIInv == Init => IInv
  BY DEF Init, IInv, TypeOK, WithinDeadline, PastChecks, Checks

LEMMA StepIInv == IInv /\ [Next]_vars => IInv'
<1> SUFFICES ASSUME IInv, [Next]_vars PROVE IInv'
  OBVIOUS
<1> USE DEF IInv
<1>1. CASE Begin
  BY <1>1 DEF Begin, Ask, TypeOK, WithinDeadline, PastChecks
<1>2. CASE Reply
  <2>1. now' \in Nat /\ now' < generationTimeout
    BY <1>2, LimitBounded, LatenciesAssumption DEF Reply, TypeOK, WithinDeadline
  <2>2. CASE topic = Recipes
    BY <1>2, <2>1, <2>2 DEF Reply, PossibleReplies, TypeOK, WithinDeadline, PastChecks
  <2>3. CASE topic # Recipes
    BY <1>2, <2>1, <2>3 DEF Reply, TypeOK, WithinDeadline, PastChecks
  <2> QED BY <2>2, <2>3
<1>3. CASE InvalidReply
  <2>1. now' \in Nat /\ now' < generationTimeout
    BY <1>3, LimitBounded, LatenciesAssumption DEF InvalidReply, TypeOK, WithinDeadline
  <2>2. CASE Repair /\ UNCHANGED pending
    BY <1>3, <2>1, <2>2 DEF InvalidReply, Repair, Ask, TypeOK, WithinDeadline, PastChecks
  <2>3. CASE GiveUp
    BY <1>3, <2>1, <2>3, GiveUpKeeps DEF InvalidReply, TypeOK, WithinDeadline, PastChecks
  <2> QED BY <1>3, <2>2, <2>3 DEF InvalidReply
<1>4. CASE TransientError
  <2>1. now' \in Nat /\ now' < generationTimeout
    BY <1>4, LimitBounded, LatenciesAssumption DEF TransientError, TypeOK, WithinDeadline
  <2>2. CASE AttemptsLeft /\ stage' = "backoff" /\ UNCHANGED <<topic, ask, try, pending>>
    BY <1>4, <2>1, <2>2 DEF TransientError, AttemptsLeft, TypeOK, WithinDeadline, PastChecks
  <2>3. CASE GiveUp
    BY <1>4, <2>1, <2>3, GiveUpKeeps DEF TransientError, TypeOK, WithinDeadline, PastChecks
  <2> QED BY <1>4, <2>2, <2>3 DEF TransientError
<1>5. CASE PermanentError
  <2>1. now' \in Nat /\ now' < generationTimeout
    BY <1>5, LimitBounded, LatenciesAssumption DEF PermanentError, TypeOK, WithinDeadline
  <2> QED BY <1>5, <2>1, GiveUpKeeps DEF PermanentError, TypeOK, WithinDeadline, PastChecks
<1>6. CASE CallTimesOut
  <2>1. now' \in Nat /\ now' <= generationTimeout
    BY <1>6, LimitBounded DEF CallTimesOut, TypeOK, WithinDeadline
  <2> QED BY <1>6, <2>1, GiveUpKeeps DEF CallTimesOut, TypeOK, WithinDeadline, PastChecks
<1>7. CASE BackOff
  <2>0. backoff(try) \in Nat
    BY DEF backoff
  <2>1. CASE now + backoff(try) < generationTimeout
    BY <1>7, <2>0, <2>1 DEF BackOff, TypeOK, WithinDeadline, PastChecks
  <2>2. CASE now' = generationTimeout /\ GiveUp
    BY <1>7, <2>2, GiveUpKeeps DEF BackOff, TypeOK, WithinDeadline, PastChecks
  <2> QED BY <1>7, <2>1, <2>2 DEF BackOff
<1>8. CASE AskAgain
  BY <1>8 DEF AskAgain, Retriable, dislikeRetries, Ask, TypeOK, WithinDeadline, PastChecks
<1>9. CASE Accept
  BY <1>9 DEF Accept, Accepted, TypeOK, WithinDeadline, PastChecks
<1>10. CASE Reject
  BY <1>10 DEF Reject, TypeOK, WithinDeadline, PastChecks
<1>11. CASE ReadCache
  BY <1>11 DEF ReadCache, TypeOK, WithinDeadline, PastChecks
<1>12. CASE Categorize
  BY <1>12 DEF Categorize, Ask, TypeOK, WithinDeadline, PastChecks
<1>13. CASE ListBuilt
  BY <1>13 DEF ListBuilt, TypeOK, WithinDeadline, PastChecks
<1>14. CASE Store
  BY <1>14 DEF Store, TypeOK, WithinDeadline, PastChecks
<1>15. CASE UNCHANGED vars
  BY <1>15 DEF vars, TypeOK, WithinDeadline, PastChecks
<1> QED
  BY <1>1, <1>2, <1>3, <1>4, <1>5, <1>6, <1>7, <1>8, <1>9, <1>10, <1>11,
     <1>12, <1>13, <1>14, <1>15 DEF Next

LEMMA IInvAlways == Spec => []IInv
  BY InitIInv, StepIInv, PTL DEF Spec

(* The type of every variable, in particular the limits of the three       *)
(* counters: attempt (maxDislikeRetries), ask (one repair), try            *)
(* (maxAttempts).                                                          *)
THEOREM LoopsAreBounded == Spec => []TypeOK
  BY IInvAlways, PTL DEF IInv

(* Timeouts, retries, repairs and backoff add up to no more than           *)
(* generationTimeout, and a week is stored before it.                      *)
THEOREM DeadlineHolds == Spec => []WithinDeadline
  BY IInvAlways, PTL DEF IInv

(* GenerateWeek and SwapRecipe store only a reply that passes every check. *)
THEOREM OnlyCheckedWeeks == Spec => []FailClosed
<1>1. IInv => FailClosed
  BY DEF IInv, PastChecks, FailClosed
<1> QED BY <1>1, IInvAlways, PTL

(* Build never fails a request: past the checks only the deadline does.    *)
THEOREM CategorizerIsHarmless == Spec => OnlyTimeLosesAcceptedWeek
<1> DEFINE Harmless ==
      (stage' = "failed" /\ (topic \in Names \/ stage \in {"listing", "sorting", "writing"}))
        => now' = generationTimeout
<1>1. ASSUME IInv, Next PROVE Harmless
  <2> USE NamesAssumption DEF IInv
  <2>1. CASE GiveUp
    BY <2>1, GiveUpKeeps, <1>1 DEF GiveUp, Next, Begin, Reply, InvalidReply, TransientError,
       PermanentError, CallTimesOut, BackOff, AskAgain, Accept, Reject, ReadCache,
       Categorize, ListBuilt, Store, Ask, TypeOK, WithinDeadline
  <2>2. CASE ~GiveUp
    BY <2>2, <1>1 DEF Next, Begin, Reply, InvalidReply, TransientError,
       PermanentError, CallTimesOut, BackOff, AskAgain, Accept, Reject, ReadCache,
       Categorize, ListBuilt, Store, Ask, Repair, AttemptsLeft, TypeOK, WithinDeadline
  <2> QED BY <2>1, <2>2
<1>2. IInv /\ [Next]_vars => [Harmless]_vars
  BY <1>1
<1> QED BY <1>2, IInvAlways, PTL DEF Spec, OnlyTimeLosesAcceptedWeek

-----------------------------------------------------------------------------
(* What a tap can cost.  Each question to the model, of the recipes or of  *)
(* a category, takes 2 * maxAttempts calls at most: the questions that     *)
(* were closed and the calls that the present one has taken bound calls.   *)

(* Questions for recipes that the request may ask. *)
Rounds == IF op = "cookAgain" THEN 0 ELSE 1 + dislikeRetries

(* A provider call is under way, or will be after a pause. *)
Asking == stage \in {"calling", "backoff"}

Closed ==
    CASE stage = "idle" -> 0
      [] Asking /\ topic = Recipes -> attempt - 1
      [] stage = "checking" -> attempt
      [] stage = "listing" -> Rounds
      [] stage = "failed" -> Rounds + Cardinality(Names)
      [] OTHER -> Rounds + Cardinality(Names \ pending)

InHand ==
    CASE stage = "calling" -> maxAttempts * (ask - 1) + try - 1
      [] stage = "backoff" -> maxAttempts * (ask - 1) + try
      [] OTHER -> 0

(* A category is asked for once: its name is pending until it is answered. *)
BudgetInv ==
    /\ calls <= 2 * maxAttempts * Closed + InHand
    /\ op # "cookAgain" => attempt <= Rounds
    /\ (Asking /\ topic = Recipes) \/ stage = "checking" => op # "cookAgain"
    /\ Asking /\ topic # Recipes => topic \in pending

(* The names that are placed are counted, one by one. *)
LEMMA NamesLeft ==
    ASSUME NEW S \in SUBSET Names
    PROVE  /\ Cardinality(Names) \in Nat
           /\ Cardinality(Names \ S) \in 0 .. Cardinality(Names)
           /\ \A t \in S : Cardinality(Names \ (S \ {t})) = Cardinality(Names \ S) + 1
<1>1. IsFiniteSet(Names) /\ Cardinality(Names) \in Nat
  BY NamesAssumption, FS_CardinalityType
<1>2. IsFiniteSet(Names \ S) /\ Cardinality(Names \ S) <= Cardinality(Names)
  BY <1>1, FS_Subset
<1>3. Cardinality(Names \ S) \in Nat
  BY <1>2, FS_CardinalityType
<1>4. ASSUME NEW t \in S PROVE Cardinality(Names \ (S \ {t})) = Cardinality(Names \ S) + 1
  <2>1. Names \ (S \ {t}) = (Names \ S) \cup {t} /\ t \notin Names \ S
    OBVIOUS
  <2> QED
    BY <1>2, <2>1, FS_AddElement
<1> QED
  BY <1>1, <1>2, <1>3, <1>4

LEMMA InHandBounded == IInv /\ Asking => InHand \in 0 .. 2 * maxAttempts - 1
  BY DEF IInv, TypeOK, Asking, InHand

LEMMA RoundsBounded == op \in Operations => Rounds \in Nat
  BY DEF Rounds, dislikeRetries

(* The answer to a question, or the end of the attempts to get one. *)
LEMMA QuestionClosed ==
    ASSUME IInv, BudgetInv, Asking, calls' <= 2 * maxAttempts * (Closed + 1), calls' \in Nat,
           UNCHANGED <<op, attempt, topic>>,
           \/ topic = Recipes /\ stage' \in {"checking", "failed"} /\ pending' = pending
           \/ topic # Recipes /\ stage' = "sorting" /\ pending' = pending \ {topic}
    PROVE  BudgetInv'
<1>1. Rounds \in Nat /\ Rounds' = Rounds /\ attempt \in Nat /\ op' = op /\ attempt' = attempt
  BY RoundsBounded DEF IInv, TypeOK, Rounds, dislikeRetries
<1>2. CASE topic = Recipes
  <2>1. Closed = attempt - 1 /\ op # "cookAgain" /\ attempt <= Rounds
    BY <1>2 DEF Closed, Asking, BudgetInv
  <2>2. stage' \in {"checking", "failed"} /\ Cardinality(Names) \in Nat
    BY <1>2, NamesLeft
  <2>3. InHand' = 0 /\ Closed' >= attempt /\ Closed' \in Nat
    BY <1>1, <2>1, <2>2 DEF InHand, Closed, Asking
  <2>4. calls' <= 2 * maxAttempts * Closed' + InHand'
    <3>1. \A d, q, r \in Nat : d <= 2 * maxAttempts * q /\ q <= r => d <= 2 * maxAttempts * r + 0
      OBVIOUS
    <3>2. Closed + 1 = attempt
      BY <1>1, <2>1
    <3> QED
      BY <1>1, <2>3, <3>1, <3>2
  <2>5. op' # "cookAgain" => attempt' <= Rounds'
    BY <1>1, <2>1
  <2> QED
    BY <1>1, <2>1, <2>2, <2>4, <2>5 DEF BudgetInv, Asking
<1>3. CASE topic # Recipes
  <2>1. topic \in pending /\ pending \in SUBSET Names
    BY <1>3 DEF BudgetInv, IInv, TypeOK
  <2>2. stage' = "sorting" /\ pending' = pending \ {topic}
    BY <1>3
  <2>3. Closed = Rounds + Cardinality(Names \ pending)
    BY <1>3 DEF Closed, Asking
  <2>4. InHand' = 0 /\ Closed' = Rounds + Cardinality(Names \ pending')
    BY <1>1, <2>2 DEF InHand, Closed, Asking
  <2>5. Closed' = Closed + 1 /\ Closed \in Nat
    BY <1>1, <2>1, <2>2, <2>3, <2>4, NamesLeft
  <2> QED
    BY <1>1, <2>2, <2>4, <2>5 DEF BudgetInv, Asking
<1> QED
  BY <1>2, <1>3

(* Every call is one more of the question that it belongs to. *)
LEMMA NextCall ==
    ASSUME IInv, BudgetInv, stage = "calling"
    PROVE  /\ Closed \in Nat /\ InHand \in 0 .. 2 * maxAttempts - 1
           /\ calls + 1 <= 2 * maxAttempts * Closed + InHand + 1
           /\ calls + 1 <= 2 * maxAttempts * (Closed + 1)
<1>1. Closed \in Nat
  BY RoundsBounded, NamesLeft DEF Closed, Asking, IInv, TypeOK
<1>2. InHand \in 0 .. 2 * maxAttempts - 1
  BY InHandBounded DEF Asking
<1> QED
  BY <1>1, <1>2 DEF BudgetInv, IInv, TypeOK

(* A repair or a retry spends what the question has left. *)
LEMMA SameQuestion ==
    ASSUME IInv, BudgetInv, Asking, stage' \in {"calling", "backoff"}, calls' \in Nat,
           UNCHANGED <<op, attempt, topic, pending>>,
           calls' - calls <= InHand' - InHand, InHand' \in Nat
    PROVE  BudgetInv'
<1>1. Rounds' = Rounds /\ Rounds \in Nat
  BY RoundsBounded DEF IInv, TypeOK, Rounds, dislikeRetries
<1>2. Closed' = Closed /\ Closed \in Nat
  BY RoundsBounded, NamesLeft, <1>1 DEF Closed, Asking, IInv, TypeOK
<1>3. InHand \in Nat
  BY InHandBounded
<1>4. calls \in Nat /\ calls <= 2 * maxAttempts * Closed + InHand
  BY DEF BudgetInv, IInv, TypeOK
<1>5. calls' <= 2 * maxAttempts * Closed' + InHand'
  <2>1. \A c, d, q, h, i \in Nat : c <= 2 * maxAttempts * q + h /\ d - c <= i - h
                                  => d <= 2 * maxAttempts * q + i
    OBVIOUS
  <2> QED
    BY <1>2, <1>3, <1>4, <2>1
<1> QED
  BY <1>1, <1>5 DEF BudgetInv, Asking

LEMMA StepBudgetInv == IInv /\ IInv' /\ BudgetInv /\ [Next]_vars => BudgetInv'
<1> SUFFICES ASSUME IInv, IInv', BudgetInv, [Next]_vars PROVE BudgetInv'
  OBVIOUS
<1>0. /\ calls \in Nat /\ attempt \in 1 .. 3 /\ op \in Operations /\ pending \in SUBSET Names
      /\ ask \in 1 .. 2 /\ try \in 1 .. 3 /\ Rounds \in Nat
      /\ Cardinality(Names) \in Nat /\ Cardinality(Names \ pending) \in 0 .. Cardinality(Names)
  BY RoundsBounded, NamesLeft DEF IInv, TypeOK
<1>a. op' = op => Rounds' = Rounds
  BY DEF Rounds, dislikeRetries
<1>1. CASE Begin
  <2>1. op # "cookAgain" => stage' = "calling" /\ topic' = Recipes /\ ask' = 1 /\ try' = 1
    BY <1>1 DEF Begin, Ask
  <2>2. op = "cookAgain" => stage' = "listing" /\ Rounds = 0
    BY <1>1 DEF Begin, Rounds
  <2>3. UNCHANGED <<op, attempt, calls>> /\ stage = "idle"
    BY <1>1 DEF Begin
  <2>4. calls = 0 \/ calls <= 0
    BY <1>0, <2>3 DEF BudgetInv, Closed, InHand, Asking
  <2>5. CASE op = "cookAgain"
    BY <1>0, <1>a, <2>2, <2>3, <2>4, <2>5 DEF BudgetInv, Closed, InHand, Asking
  <2>6. CASE op # "cookAgain"
    BY <1>0, <1>a, <2>1, <2>3, <2>4, <2>6 DEF BudgetInv, Closed, InHand, Asking
  <2> QED
    BY <2>5, <2>6
<1>2. CASE Reply
  <2>1. stage = "calling" /\ calls' = calls + 1 /\ UNCHANGED <<op, attempt, topic>>
    BY <1>2 DEF Reply
  <2>2. \/ topic = Recipes /\ stage' = "checking" /\ pending' = pending
        \/ topic # Recipes /\ stage' = "sorting" /\ pending' = pending \ {topic}
    BY <1>2 DEF Reply
  <2> QED
    BY <1>0, <2>1, <2>2, NextCall, QuestionClosed DEF Asking
<1>3. ASSUME stage = "calling", calls' = calls + 1, UNCHANGED <<op, attempt>>, GiveUp
      PROVE  BudgetInv'
  <2>1. Asking /\ calls' \in Nat /\ calls' <= 2 * maxAttempts * (Closed + 1)
    BY <1>0, <1>3, NextCall DEF Asking
  <2>2. /\ UNCHANGED <<op, attempt, topic>>
        /\ \/ topic = Recipes /\ stage' \in {"checking", "failed"} /\ pending' = pending
           \/ topic # Recipes /\ stage' = "sorting" /\ pending' = pending \ {topic}
    BY <1>0, <1>3, NamesAssumption DEF GiveUp
  <2> QED
    BY <2>1, <2>2, QuestionClosed
<1>4. CASE InvalidReply
  <2>1. stage = "calling" /\ calls' = calls + 1 /\ UNCHANGED <<op, attempt>>
    BY <1>4 DEF InvalidReply
  <2>2. CASE Repair /\ UNCHANGED pending
    <3>1. ask = 1 /\ stage' = "calling" /\ topic' = topic /\ ask' = 2 /\ try' = 1
      BY <2>2 DEF Repair, Ask
    <3>2. InHand' = 3 /\ InHand \in 0 .. 2
      BY <1>0, <2>1, <3>1 DEF InHand
    <3> QED
      BY <1>0, <2>1, <2>2, <3>1, <3>2, SameQuestion DEF Asking
  <2> QED
    BY <1>3, <1>4, <2>1, <2>2 DEF InvalidReply
<1>5. CASE TransientError
  <2>1. stage = "calling" /\ calls' = calls + 1 /\ UNCHANGED <<op, attempt>>
    BY <1>5 DEF TransientError
  <2>2. CASE stage' = "backoff" /\ UNCHANGED <<topic, ask, try, pending>>
    <3>1. InHand' = InHand + 1 /\ InHand \in Nat
      BY <1>0, <2>1, <2>2 DEF InHand
    <3> QED
      BY <1>0, <2>1, <2>2, <3>1, SameQuestion DEF Asking
  <2> QED
    BY <1>3, <1>5, <2>1, <2>2 DEF TransientError
<1>6. CASE PermanentError
  BY <1>3, <1>6 DEF PermanentError
<1>7. CASE CallTimesOut
  BY <1>3, <1>7 DEF CallTimesOut
<1>8. CASE BackOff
  <2>1. stage = "backoff" /\ UNCHANGED <<op, attempt, calls>>
    BY <1>8 DEF BackOff
  <2>2. CASE GiveUp
    <3>1. Closed \in Nat /\ InHand \in 0 .. 5
      BY <1>0, <2>1, InHandBounded DEF Closed, Asking
    <3>2. calls' <= 6 * (Closed + 1) /\ calls' \in Nat
      BY <1>0, <2>1, <3>1 DEF BudgetInv
    <3>3. /\ UNCHANGED <<op, attempt, topic>>
          /\ \/ topic = Recipes /\ stage' \in {"checking", "failed"} /\ pending' = pending
             \/ topic # Recipes /\ stage' = "sorting" /\ pending' = pending \ {topic}
      BY <1>0, <2>1, <2>2, NamesAssumption DEF GiveUp
    <3> QED
      BY <2>1, <3>2, <3>3, QuestionClosed DEF Asking
  <2>3. CASE stage' = "calling" /\ try' = try + 1 /\ UNCHANGED <<topic, ask, pending>>
    <3>1. InHand' = InHand /\ InHand \in Nat
      BY <1>0, <2>1, <2>3 DEF InHand
    <3> QED
      BY <1>0, <2>1, <2>3, <3>1, SameQuestion DEF Asking
  <2> QED
    BY <1>8, <2>2, <2>3 DEF BackOff
<1>9. CASE AskAgain
  <2>1. /\ stage = "checking" /\ op # "cookAgain" /\ attempt <= dislikeRetries /\ attempt' = attempt + 1
        /\ stage' = "calling" /\ topic' = Recipes /\ ask' = 1 /\ try' = 1
        /\ UNCHANGED <<op, pending, calls>>
    BY <1>9 DEF AskAgain, Retriable, Ask, BudgetInv
  <2>2. Closed = attempt /\ InHand = 0 /\ Closed' = attempt /\ InHand' = 0
    BY <1>0, <2>1 DEF Closed, InHand, Asking
  <2>3. attempt' <= Rounds'
    BY <1>0, <1>a, <2>1 DEF Rounds, dislikeRetries
  <2> QED
    BY <1>0, <2>1, <2>2, <2>3 DEF BudgetInv, Asking
<1>10. CASE Accept
  <2>1. stage = "checking" /\ stage' = "listing" /\ op # "cookAgain" /\ UNCHANGED <<op, attempt, calls>>
    BY <1>10 DEF Accept, BudgetInv
  <2>2. Closed = attempt /\ InHand = 0 /\ Closed' = Rounds /\ InHand' = 0 /\ attempt <= Rounds
    BY <1>0, <1>a, <2>1 DEF Closed, InHand, Asking, BudgetInv
  <2> QED
    BY <1>0, <1>a, <2>1, <2>2 DEF BudgetInv, Asking
<1>11. CASE Reject
  <2>1. stage = "checking" /\ stage' = "failed" /\ op # "cookAgain" /\ UNCHANGED <<op, attempt, calls>>
    BY <1>11 DEF Reject, BudgetInv
  <2>2. /\ Closed = attempt /\ InHand = 0 /\ InHand' = 0 /\ attempt <= Rounds
        /\ Closed' = Rounds + Cardinality(Names)
    BY <1>0, <1>a, <2>1 DEF Closed, InHand, Asking, BudgetInv
  <2> QED
    BY <1>0, <1>a, <2>1, <2>2 DEF BudgetInv, Asking
<1>12. CASE ReadCache
  <2>1. stage = "listing" /\ stage' = "sorting" /\ pending' \in SUBSET Names /\ UNCHANGED <<op, attempt, calls>>
    BY <1>12 DEF ReadCache
  <2>2. /\ Closed = Rounds /\ InHand = 0 /\ InHand' = 0
        /\ Closed' = Rounds + Cardinality(Names \ pending')
    BY <1>0, <1>a, <2>1 DEF Closed, InHand, Asking
  <2>3. Cardinality(Names \ pending') \in Nat
    BY <2>1, NamesLeft
  <2> QED
    BY <1>0, <1>a, <2>1, <2>2, <2>3 DEF BudgetInv, Asking
<1>13. CASE Categorize
  <2>1. PICK name \in pending : Ask(name, 1)
    BY <1>13 DEF Categorize
  <2>2. /\ stage = "sorting" /\ stage' = "calling" /\ topic' \in pending /\ topic' # Recipes
        /\ ask' = 1 /\ try' = 1 /\ UNCHANGED <<op, attempt, pending, calls>>
    BY <1>0, <1>13, <2>1, NamesAssumption DEF Categorize, Ask
  <2>3. Closed' = Closed /\ InHand = 0 /\ InHand' = 0
    BY <1>0, <1>a, <2>2 DEF Closed, InHand, Asking
  <2> QED
    BY <1>0, <1>a, <2>2, <2>3 DEF BudgetInv, Asking
<1>14. CASE ListBuilt
  <2>1. stage = "sorting" /\ stage' = "writing" /\ UNCHANGED <<op, attempt, pending, calls>>
    BY <1>14 DEF ListBuilt
  <2> QED
    BY <1>0, <1>a, <2>1 DEF BudgetInv, Closed, InHand, Asking
<1>15. CASE Store
  <2>1. stage = "writing" /\ stage' \in {"stored", "failed"} /\ UNCHANGED <<op, attempt, pending, calls>>
    BY <1>15 DEF Store
  <2> QED
    BY <1>0, <1>a, <2>1 DEF BudgetInv, Closed, InHand, Asking
<1>16. CASE UNCHANGED vars
  BY <1>a, <1>16 DEF vars, BudgetInv, Closed, InHand, Asking
<1> QED
  BY <1>1, <1>2, <1>4, <1>5, <1>6, <1>7, <1>8, <1>9, <1>10, <1>11, <1>12, <1>13,
     <1>14, <1>15, <1>16 DEF Next

(* A request calls the provider at most 2 * maxAttempts times per round of *)
(* recipes and per name it cannot place, whatever fails in what order.     *)
THEOREM BudgetHolds == Spec => []CallBudget
<1>1. Init => BudgetInv
  BY DEF Init, BudgetInv, Closed, InHand, Asking, Rounds, dislikeRetries
<1>2. IInv /\ BudgetInv => CallBudget
  <2> SUFFICES ASSUME IInv, BudgetInv PROVE calls <= 6 * (Cardinality(Names) + Rounds)
    BY DEF CallBudget, Rounds
  <2>1. /\ calls \in Nat /\ attempt \in 1 .. 3 /\ op \in Operations /\ Rounds \in Nat
        /\ Cardinality(Names) \in Nat /\ Cardinality(Names \ pending) \in 0 .. Cardinality(Names)
    BY RoundsBounded, NamesLeft DEF IInv, TypeOK
  <2>2. CASE Asking
    <3>1. Closed + 1 <= Rounds + Cardinality(Names) /\ Closed \in Nat
      <4>1. CASE topic = Recipes
        <5>1. op # "cookAgain" /\ attempt <= Rounds /\ Closed = attempt - 1
          BY <2>2, <4>1 DEF Closed, BudgetInv, Asking
        <5> QED
          BY <2>1, <5>1
      <4>2. CASE topic # Recipes
        <5>1. topic \in pending /\ pending \in SUBSET Names
          BY <2>2, <4>2 DEF BudgetInv, IInv, TypeOK
        <5>2. Cardinality(Names \ (pending \ {topic})) = Cardinality(Names \ pending) + 1
          BY <5>1, NamesLeft
        <5>3. Cardinality(Names \ (pending \ {topic})) <= Cardinality(Names)
          <6>1. pending \ {topic} \in SUBSET Names
            BY <5>1
          <6>2. Cardinality(Names \ (pending \ {topic})) \in 0 .. Cardinality(Names)
            BY <6>1, NamesLeft
          <6> QED
            BY <2>1, <6>2
        <5> QED
          BY <2>1, <2>2, <4>2, <5>2, <5>3 DEF Closed, Asking
      <4> QED
        BY <4>1, <4>2
    <3>2. InHand \in 0 .. 5
      BY <2>2, InHandBounded
    <3> QED
      BY <2>1, <3>1, <3>2 DEF BudgetInv
  <2>3. CASE ~Asking
    <3>1. InHand = 0 /\ Closed <= Rounds + Cardinality(Names) /\ Closed \in Nat
      BY <2>1, <2>3 DEF InHand, Closed, Asking, BudgetInv
    <3> QED
      BY <2>1, <3>1 DEF BudgetInv
  <2> QED
    BY <2>2, <2>3
<1> QED
  BY <1>1, <1>2, StepBudgetInv, IInvAlways, PTL DEF Spec
=============================================================================
