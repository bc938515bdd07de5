-------------------------- MODULE DinnerRulesProofs --------------------------
(***************************************************************************)
(* The rules for dinners, for any recipes, any keywords, any household and *)
(* any sequence of requests: the proteins and the portions of a week, and  *)
(* what may not be in it, whatever words the texts are made of.            *)
(***************************************************************************)
EXTENDS DinnerRules, Integers, TLAPS

(* Only a week that is there can be changed. *)
IInv ==
    /\ TypeOK
    /\ op \in {"swap", "cookAgain"} => plan \in [Slots -> Dinners]

LEMMA EndIInv ==
    ASSUME IInv, NEW week \in [Slots -> Dinners] \cup {NoWeek}, End(week)
    PROVE  IInv'
  BY DEF IInv, TypeOK, End, Slots

LEMMA RetryIInv ==
    ASSUME IInv, NEW times \in {1, 2}, Retry(times)
    PROVE  IInv'
<1>1. plan \in [Slots -> Dinners] \cup {NoWeek}
  BY DEF IInv, TypeOK
<1>2. CASE attempt <= times
  BY <1>2 DEF IInv, TypeOK, Retry
<1>3. CASE ~(attempt <= times)
  BY <1>1, <1>3, EndIInv DEF Retry
<1> QED
  BY <1>2, <1>3

LEMMA InitIInv == Init => IInv
  BY DEF Init, IInv, TypeOK, Slots

LEMMA StepIInv == IInv /\ [Next]_vars => IInv'
<1> SUFFICES ASSUME IInv, [Next]_vars PROVE IInv'
  OBVIOUS
<1>1. plan \in [Slots -> Dinners] \cup {NoWeek}
  BY DEF IInv, TypeOK
<1>2. CASE UNCHANGED vars
  BY <1>2 DEF IInv, TypeOK, vars
<1>3. CASE EditProfile
  BY <1>3 DEF IInv, TypeOK, EditProfile
<1>4. ASSUME NEW o \in {"generate", "swap", "cookAgain"}, NEW i \in Slots, Begin(o, i)
      PROVE  IInv'
  BY <1>4 DEF IInv, TypeOK, Begin
<1>5. CASE WeekReplied
  <2>1. PICK week \in [Slots -> Dinners] : Retry(maxDislikeRetries) \/ End(week) \/ End(plan)
    BY <1>5 DEF WeekReplied
  <2> QED
    BY <1>1, <2>1, EndIInv, RetryIInv DEF maxDislikeRetries
<1>6. CASE DinnerReplied
  <2>1. PICK dinner \in Dinners :
          Retry(1) \/ End([plan EXCEPT ![slot] = dinner]) \/ End(plan)
    BY <1>6 DEF DinnerReplied
  <2>2. [plan EXCEPT ![slot] = dinner] \in [Slots -> Dinners]
    BY <1>6 DEF IInv, TypeOK, DinnerReplied
  <2> QED
    BY <1>1, <2>1, <2>2, EndIInv, RetryIInv
<1>7. CASE DinnerCopied
  <2>1. PICK dinner \in Dinners : End([plan EXCEPT ![slot] = dinner])
    BY <1>7 DEF DinnerCopied
  <2>2. [plan EXCEPT ![slot] = dinner] \in [Slots -> Dinners]
    BY <1>7 DEF IInv, TypeOK, DinnerCopied
  <2> QED
    BY <2>1, <2>2, EndIInv
<1>8. CASE Fail
  BY <1>1, <1>8, EndIInv DEF Fail
<1> QED
  BY <1>2, <1>3, <1>4, <1>5, <1>6, <1>7, <1>8 DEF Next

LEMMA Invariance == Spec => []IInv
  BY InitIInv, StepIInv, PTL DEF Spec

(* Every variable keeps its type; in particular a loop ends after the      *)
(* rounds that it has.                                                     *)
THEOREM TypeCorrect == Spec => []TypeOK
<1>1. IInv => TypeOK
  BY DEF IInv
<1> QED
  BY <1>1, Invariance, PTL

-----------------------------------------------------------------------------
(* A week that the model decided is a week it replied, or the old one with *)
(* a dinner it replied; either has passed its checks.                      *)
LEMMA DecidedByReply ==
    ASSUME IInv, [Next]_vars, ByTheModel
    PROVE  \/ /\ plan' \in [Slots -> Dinners]
              /\ portionsCovered(plan') /\ hasProteinVariety(plan')
           \/ /\ plan \in [Slots -> Dinners] /\ slot \in Slots
              /\ \E dinner \in Dinners :
                   /\ plan' = [plan EXCEPT ![slot] = dinner]
                   /\ dinner.servings >= targetServings
                   /\ swapHasProteinVariety(dinner)
<1>1. op \in {"generate", "swap"} /\ plan' # plan
  BY DEF ByTheModel
<1>2. WeekReplied \/ DinnerReplied
  BY <1>1 DEF Next, vars, EditProfile, Begin, DinnerCopied, Fail, End
<1>3. CASE WeekReplied
  BY <1>1, <1>3 DEF WeekReplied, Retry, End
<1>4. CASE DinnerReplied
  <2>1. plan \in [Slots -> Dinners] /\ slot \in Slots
    BY <1>4 DEF DinnerReplied, IInv, TypeOK
  <2> QED
    BY <1>1, <1>4, <2>1 DEF DinnerReplied, Retry, End
<1> QED
  BY <1>2, <1>3, <1>4

LEMMA SwapKeepsVariety ==
    ASSUME plan \in [Slots -> Dinners], slot \in Slots,
           NEW dinner \in Dinners, plan' = [plan EXCEPT ![slot] = dinner],
           swapHasProteinVariety(dinner),
           \A i \in Slots : inferProtein(plan'[i]) \in {Unknown, plan'[i].protein}
    PROVE  hasProteinVariety(plan')
<1> DEFINE guessed == {dinner.protein} \cup {inferProtein(d) : d \in Kept}
           named == {plan'[i].protein : i \in Slots}
<1>1. dinner.protein \in named
  <2>1. plan'[slot] = dinner
    OBVIOUS
  <2> QED
    BY <2>1
<1>2. ASSUME NEW d \in Kept PROVE inferProtein(d) \in {Unknown} \cup named
  <2>1. PICK i \in Slots \ {slot} : d = plan[i]
    BY DEF Kept
  <2>2. plan'[i] = d
    BY <2>1
  <2> QED
    BY <2>1, <2>2
<1>3. guessed \ {Unknown} \subseteq named \ {Unknown}
  BY <1>1, <1>2
<1>4. TwoOf(guessed)
  BY DEF swapHasProteinVariety
<1> QED
  BY <1>3, <1>4 DEF hasProteinVariety, TwoOf

(* A swap that the guess does not mislead keeps two proteins in the week.  *)
THEOREM VarietyIsKept == Spec => VarietyStands
<1>1. IInv /\ [Next]_vars =>
        [ByTheModel /\ (\A i \in Slots : inferProtein(plan'[i]) \in {Unknown, plan'[i].protein})
           => hasProteinVariety(plan')]_vars
  BY DecidedByReply, SwapKeepsVariety
<1> QED
  BY <1>1, Invariance, PTL DEF VarietyStands, Spec

LEMMA SwapCovers ==
    ASSUME TypeOK, plan \in [Slots -> Dinners], slot \in Slots,
           NEW dinner \in Dinners, plan' = [plan EXCEPT ![slot] = dinner],
           dinner.servings >= targetServings
    PROVE  Servings(plan') >= targetPortions(asked.people)
<1>1. /\ \A i \in Slots : plan[i].servings \in Nat
      /\ dinner.servings \in Nat
  BY DinnersAssumption
<1>2. asked.people \in Nat
  BY HouseholdsAssumption DEF TypeOK
<1>3. plan'[slot] = dinner /\ \A i \in Slots \ {slot} : plan'[i] = plan[i]
  OBVIOUS
<1>4. Servings(plan') = Servings(plan) - plan[slot].servings + dinner.servings
  <2>1. slot = 1 \/ slot = 2 \/ slot = 3
    BY DEF Slots
  <2> QED
    BY <1>1, <1>3, <2>1 DEF Servings, Slots
<1>5. Servings(plan) - plan[slot].servings \in Int
  BY <1>1 DEF Servings, Slots
<1> QED
  BY <1>1, <1>2, <1>4, <1>5 DEF targetServings, targetPortions

(* Whatever was cooked again and however the household has grown: the week *)
(* that the model had the last word in is enough for it.                   *)
THEOREM WeekStaysEnough == Spec => PortionsStand
<1>1. IInv /\ [Next]_vars =>
        [ByTheModel => Servings(plan') >= targetPortions(asked.people)]_vars
  BY DecidedByReply, SwapCovers DEF IInv, portionsCovered
<1> QED
  BY <1>1, Invariance, PTL DEF PortionsStand, Spec

-----------------------------------------------------------------------------
LEMMA Parts ==
    ASSUME NEW S, NEW t \in Seq(S), NEW a \in 1 .. Len(t), NEW b \in 1 .. Len(t), a <= b
    PROVE  /\ SubSeq(t, a, b) \in Seq(S)
           /\ Len(SubSeq(t, a, b)) = b - a + 1
           /\ \A k \in 1 .. b - a + 1 : SubSeq(t, a, b)[k] = t[a + k - 1]
<1>1. Len(t) \in Nat
  OBVIOUS
<1> QED
  BY <1>1

LEMMA RunsAreInside ==
    ASSUME NEW text \in Texts, NEW run \in Runs(text)
    PROVE  /\ run[1] \in 1 .. Len(text) /\ run[2] \in 1 .. Len(text) /\ run[1] <= run[2]
           /\ run = <<run[1], run[2]>>
           /\ \A k \in run[1] .. run[2] : k \in 1 .. Len(text) /\ text[k] \in Letters
  BY DEF Runs, Begins, Ends, Texts

(* A word without its diacritics is a word. *)
LEMMA TokensAreWords ==
    ASSUME NEW text \in Texts, NEW word \in Tokens(text)
    PROVE  word \in Seq(Letters)
<1>1. PICK run \in Runs(text) : word = Fold(SubSeq(text, run[1], run[2]))
  BY DEF Tokens
<1> DEFINE raw == SubSeq(text, run[1], run[2])
           n == run[2] - run[1] + 1
<1>2. /\ run[1] \in 1 .. Len(text) /\ run[2] \in 1 .. Len(text) /\ run[1] <= run[2]
      /\ \A k \in run[1] .. run[2] : k \in 1 .. Len(text) /\ text[k] \in Letters
  BY RunsAreInside
<1>3. n \in Nat /\ DOMAIN raw = 1 .. n /\ \A k \in 1 .. n : raw[k] \in Letters
  <2>1. /\ raw \in Seq(Letters \cup Separators) /\ Len(raw) = n
        /\ \A k \in 1 .. n : raw[k] = text[run[1] + k - 1]
    BY <1>2, Parts DEF Texts
  <2>2. n \in Nat /\ \A k \in 1 .. n : run[1] + k - 1 \in run[1] .. run[2]
    BY <1>2
  <2>3. \A k \in 1 .. n : text[run[1] + k - 1] \in Letters
    BY <1>2, <2>2
  <2> HIDE DEF raw, n
  <2>4. DOMAIN raw = 1 .. n
    BY <2>1
  <2> QED
    BY <2>1, <2>2, <2>3, <2>4
<1>4. word = [k \in 1 .. n |-> Folded[raw[k]]]
  BY <1>1, <1>3 DEF Fold
<1>5. \A k \in 1 .. n : Folded[raw[k]] \in Letters
  BY <1>3, FoldedAssumption
<1> HIDE DEF raw, n
<1> QED
  BY <1>3, <1>4, <1>5

(* Where a term is named its words are words of the text: no letter before *)
(* or after it makes them longer.                                          *)
LEMMA NamedWords ==
    ASSUME NEW hay \in Texts, NEW needle \in Texts, Names(hay, needle)
    PROVE  HasWords(hay, needle)
<1>0. Len(hay) \in Nat /\ Len(needle) \in Nat
  BY DEF Texts
<1>1. PICK n \in 0 .. Len(hay) :
        /\ At(hay, n, needle)
        /\ n > 0 => hay[n] \notin Letters
        /\ n + Len(needle) < Len(hay) => hay[n + Len(needle) + 1] \notin Letters
  BY DEF Names
<1>2. n + Len(needle) <= Len(hay) /\ \A k \in 1 .. Len(needle) : hay[n + k] = needle[k]
  BY <1>1 DEF At
<1>3. ASSUME NEW run \in Runs(needle)
      PROVE  /\ <<n + run[1], n + run[2]>> \in Runs(hay)
             /\ SubSeq(hay, n + run[1], n + run[2]) = SubSeq(needle, run[1], run[2])
  <2> DEFINE i == run[1]
             j == run[2]
  <2>1. i \in 1 .. Len(needle) /\ j \in 1 .. Len(needle) /\ i <= j
    BY RunsAreInside
  <2>2. \A k \in i .. j : k \in 1 .. Len(needle) /\ needle[k] \in Letters
    BY RunsAreInside
  <2>3. /\ i > 1 => needle[i - 1] \notin Letters
        /\ j < Len(needle) => needle[j + 1] \notin Letters
    BY DEF Runs, Begins, Ends
  <2> HIDE DEF i, j
  <2>4. n + i \in 1 .. Len(hay) /\ n + j \in 1 .. Len(hay) /\ n + i <= n + j
    BY <1>0, <1>2, <2>1
  <2>5. ASSUME NEW k \in n + i .. n + j PROVE hay[k] \in Letters
    <3>1. k - n \in i .. j /\ n + (k - n) = k
      BY <2>1
    <3>2. k - n \in 1 .. Len(needle) /\ needle[k - n] \in Letters
      BY <2>2, <3>1
    <3> QED
      BY <1>2, <3>1, <3>2
  <2>6. n + i > 1 => hay[(n + i) - 1] \notin Letters
    <3>1. CASE i > 1
      <4>1. i - 1 \in 1 .. Len(needle) /\ n + (i - 1) = (n + i) - 1
        BY <2>1, <3>1
      <4> QED
        BY <1>2, <2>3, <3>1, <4>1
    <3>2. CASE i = 1
      <4>1. (n + i) - 1 = n /\ (n + i > 1 => n > 0)
        BY <3>2
      <4> QED
        BY <1>1, <4>1
    <3> QED
      BY <2>1, <3>1, <3>2
  <2>7. n + j < Len(hay) => hay[n + j + 1] \notin Letters
    <3>1. CASE j < Len(needle)
      <4>1. j + 1 \in 1 .. Len(needle) /\ n + (j + 1) = n + j + 1
        BY <1>0, <2>1, <3>1
      <4> QED
        BY <1>2, <2>3, <3>1, <4>1
    <3>2. CASE j = Len(needle)
      BY <1>1, <3>2
    <3> QED
      BY <1>0, <2>1, <3>1, <3>2
  <2>8. n + i \in Begins(hay)
    <3>1. n + i \in DOMAIN hay /\ hay[n + i] \in Letters
      BY <2>1, <2>4, <2>5 DEF Texts
    <3> QED
      BY <2>6, <3>1 DEF Begins
  <2>9. n + j \in Ends(hay)
    <3>1. n + j \in DOMAIN hay /\ hay[n + j] \in Letters
      BY <2>1, <2>4, <2>5 DEF Texts
    <3> QED
      BY <2>7, <3>1 DEF Ends
  <2>10. <<n + i, n + j>> \in Runs(hay)
    BY <2>4, <2>5, <2>8, <2>9 DEF Runs
  <2>11. SubSeq(hay, n + i, n + j) = SubSeq(needle, i, j)
    <3> DEFINE m == j - i + 1
               S == Letters \cup Separators
    <3>1. m \in Nat /\ (n + j) - (n + i) + 1 = m
      BY <2>1
    <3>2. /\ SubSeq(hay, n + i, n + j) \in Seq(S) /\ Len(SubSeq(hay, n + i, n + j)) = m
          /\ \A k \in 1 .. m : SubSeq(hay, n + i, n + j)[k] = hay[(n + i) + k - 1]
      BY <2>4, <3>1, Parts DEF Texts
    <3>3. /\ SubSeq(needle, i, j) \in Seq(S) /\ Len(SubSeq(needle, i, j)) = m
          /\ \A k \in 1 .. m : SubSeq(needle, i, j)[k] = needle[i + k - 1]
      BY <2>1, Parts DEF Texts
    <3>4. ASSUME NEW k \in 1 .. m PROVE hay[(n + i) + k - 1] = needle[i + k - 1]
      <4>1. i + k - 1 \in 1 .. Len(needle) /\ n + (i + k - 1) = (n + i) + k - 1
        BY <1>0, <2>1
      <4> QED
        BY <1>2, <4>1
    <3> HIDE DEF m, S
    <3>5. \A u, v \in Seq(S) : Len(u) = m /\ Len(v) = m /\ (\A k \in 1 .. m : u[k] = v[k]) => u = v
      BY <3>1
    <3> QED
      BY <3>2, <3>3, <3>4, <3>5
  <2> QED
    BY <2>10, <2>11 DEF i, j
<1>4. ASSUME NEW word \in Tokens(needle) PROVE word \in Tokens(hay)
  <2>1. PICK run \in Runs(needle) : word = Fold(SubSeq(needle, run[1], run[2]))
    BY DEF Tokens
  <2> DEFINE there == <<n + run[1], n + run[2]>>
  <2>2. there \in Runs(hay) /\ SubSeq(hay, there[1], there[2]) = SubSeq(needle, run[1], run[2])
    BY <1>3
  <2> HIDE DEF there
  <2> QED
    BY <2>1, <2>2 DEF Tokens
<1>5. Tokens(needle) # {}
  BY DEF Names, Tokens
<1> QED
  BY <1>4, <1>5 DEF HasWords

(* The week's check finds every word that is there, in any spelling. *)
LEMMA WordsAreMatched ==
    ASSUME NEW hay \in Texts, NEW needle \in Texts, HasWords(hay, needle)
    PROVE  ContainsTerm(hay, needle)
<1>1. ASSUME NEW word \in Tokens(needle) PROVE MatchAny(Tokens(hay), word)
  <2>1. word \in Tokens(hay) /\ word \in Seq(Letters)
    BY TokensAreWords DEF HasWords
  <2>2. IsPrefix(word, word)
    BY <2>1 DEF IsPrefix
  <2> QED
    BY <2>1, <2>2 DEF MatchAny
<1> QED
  BY <1>1 DEF HasWords, ContainsTerm

(* The swap's check finds what stands there as it was typed. *)
LEMMA NamedIsFound ==
    ASSUME NEW hay \in Texts, NEW needle \in Texts, Names(hay, needle)
    PROVE  ContainsText(hay, needle)
<1>1. \E n \in 0 .. Len(hay) : At(hay, n, needle)
  BY DEF Names
<1>2. needle # <<>>
  <2>1. PICK run \in Runs(needle) : TRUE
    BY DEF Names
  <2>2. 1 .. Len(needle) # {}
    BY <2>1, RunsAreInside
  <2> QED
    BY <2>2
<1> QED
  BY <1>1, <1>2 DEF ContainsText

-----------------------------------------------------------------------------
LEMMA IngredientsAreTexts == \A d \in Dinners : \A name \in Ingredients(d) : name \in Texts
  BY DinnersAssumption DEF Ingredients

(* What enters the week by a reply has passed the check of that reply: the *)
(* week by words, the swap by letters.                                     *)
LEMMA ReplyChecked ==
    ASSUME IInv, [Next]_vars, ByTheModel, NEW i \in Slots, New(i)
    PROVE  /\ plan'[i] \in Dinners
           /\ \A t \in asked.disliked, name \in Ingredients(plan'[i]) :
                IF op = "generate" THEN ~ContainsTerm(name, t) ELSE ~ContainsText(name, t)
<1>1. op \in {"generate", "swap"} /\ plan' # plan
  BY DEF ByTheModel
<1>2. WeekReplied \/ DinnerReplied
  BY <1>1 DEF Next, vars, EditProfile, Begin, DinnerCopied, Fail, End
<1>3. CASE WeekReplied
  <2>1. PICK week \in [Slots -> Dinners] : dislikeViolations(week) = {} /\ plan' = week
    BY <1>1, <1>3 DEF WeekReplied, Retry, End
  <2>2. op = "generate"
    BY <1>3 DEF WeekReplied
  <2> QED
    BY <2>1, <2>2 DEF dislikeViolations
<1>4. CASE DinnerReplied
  <2>1. PICK dinner \in Dinners :
          dislikeViolationsRecipe(dinner) = {} /\ plan' = [plan EXCEPT ![slot] = dinner]
    BY <1>1, <1>4 DEF DinnerReplied, Retry, End
  <2>2. plan \in [Slots -> Dinners] /\ op = "swap"
    BY <1>4 DEF DinnerReplied, IInv, TypeOK
  <2>3. plan'[i] = dinner
    BY <2>1, <2>2 DEF New
  <2> QED
    BY <2>1, <2>2, <2>3 DEF dislikeViolationsRecipe
<1> QED
  BY <1>2, <1>3, <1>4

(* A dislike that a recipe names as the household typed it keeps it out of *)
(* the week, whichever check it meets, and one whose words it has in any   *)
(* spelling keeps it out of a new week.                                    *)
THEOREM DislikesStayOut == Spec => NothingForbidden
<1> DEFINE Clean == ByTheModel =>
             \A i \in Slots : New(i) =>
               \A t \in asked.disliked, name \in Ingredients(plan'[i]) :
                 ~Names(name, t) /\ (op = "generate" => ~HasWords(name, t))
<1>1. ASSUME IInv, [Next]_vars, ByTheModel, NEW i \in Slots, New(i),
             NEW t \in asked.disliked, NEW name \in Ingredients(plan'[i])
      PROVE  ~Names(name, t) /\ (op = "generate" => ~HasWords(name, t))
  <2>1. /\ plan'[i] \in Dinners
        /\ IF op = "generate" THEN ~ContainsTerm(name, t) ELSE ~ContainsText(name, t)
    BY <1>1, ReplyChecked
  <2>2. name \in Texts
    BY <2>1, IngredientsAreTexts
  <2>3. t \in Texts
    BY <1>1, TermsAssumption DEF IInv, TypeOK
  <2>4. /\ HasWords(name, t) => ContainsTerm(name, t)
        /\ Names(name, t) => HasWords(name, t) /\ ContainsText(name, t)
    BY <2>2, <2>3, WordsAreMatched, NamedWords, NamedIsFound
  <2> QED
    BY <2>1, <2>4
<1>2. IInv /\ [Next]_vars => [Clean]_vars
  BY <1>1
<1> QED
  BY <1>2, Invariance, PTL DEF NothingForbidden, Spec
=============================================================================
