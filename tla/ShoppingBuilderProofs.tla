------------------------ MODULE ShoppingBuilderProofs ------------------------
(***************************************************************************)
(* What the shared cache of sections keeps for any number of overlapping   *)
(* builds, any weeks, any dictionary and any replies of the model; and     *)
(* that a finished list is what the week's recipes need, by induction over *)
(* the ingredients that Consolidate goes through.                          *)
(***************************************************************************)
EXTENDS ShoppingBuilder, FiniteSetTheorems, WellFoundedInduction, TLAPS

(* What a build holds, by phase: nothing before the cache was read; after  *)
(* it only names that were not cached are asked for, and what is about to  *)
(* be saved is an answer.                                                  *)
Progress(b) ==
    /\ pc[b] \in {"idle", "reading"} => cached[b] = NoSections
    /\ pc[b] \in {"resolving", "asking", "saving"} =>
         \A n \in pending[b] : cached[b][n] = None
    /\ pc[b] \in {"asking", "saving"} => topic[b] \in Names /\ cached[b][topic[b]] = None
    /\ pc[b] = "saving" => out[b][topic[b]] \in answers[topic[b]]

(* What was read is still cached and is what the list will show. *)
ReadStays(b) ==
    \A n \in Names : cached[b][n] # None => cached[b][n] = cache[n] /\ out[b][n] = cache[n]

IInv ==
    /\ TypeOK
    /\ CacheHoldsAnswers
    /\ \A b \in Builds : Progress(b) /\ ReadStays(b)

LEMMA NormalizedIsCategory == \A c : NormalizeCategory(c) \in Categories
  BY DEF NormalizeCategory, Categories

LEMMA NoSectionsOK == /\ NoSections \in [Names -> Categories \cup {None}]
                      /\ \A n \in Names : NoSections[n] = None
  BY DEF NoSections

LEMMA InitIInv == Init => IInv
  BY NoSectionsOK DEF Init, IInv, TypeOK, Phases, CacheHoldsAnswers, Progress, ReadStays

LEMMA StepIInv == IInv /\ [Next]_vars => IInv'
<1> SUFFICES ASSUME IInv, [Next]_vars PROVE IInv'
  OBVIOUS
<1> USE NoSectionsOK DEF Phases
<1>0. CASE UNCHANGED vars
  BY <1>0 DEF vars, IInv, TypeOK, CacheHoldsAnswers, Progress, ReadStays
<1>1. ASSUME NEW b \in Builds, Start(b) PROVE IInv'
  <2>1. PICK w \in Weeks :
          /\ week' = [week EXCEPT ![b] = w]
          /\ pending' = [pending EXCEPT ![b] = Unresolved(Consolidate(w))]
          /\ pc' = [pc EXCEPT ![b] = IF Unresolved(Consolidate(w)) = {} THEN "done" ELSE "reading"]
    BY <1>1 DEF Start
  <2>2. Unresolved(Consolidate(w)) \in SUBSET Names
    BY DEF Unresolved
  <2> DEFINE names == Unresolved(Consolidate(w))
  <2> HIDE DEF names
  <2>3. TypeOK'
    BY <1>1, <2>1, <2>2 DEF names, IInv, TypeOK, Start
  <2>4. CacheHoldsAnswers'
    BY <1>1 DEF IInv, CacheHoldsAnswers, Start
  <2>5. ASSUME NEW c \in Builds PROVE (Progress(c) /\ ReadStays(c))'
    BY <1>1, <2>1, <2>5 DEF IInv, TypeOK, Start, Progress, ReadStays
  <2> QED BY <2>3, <2>4, <2>5 DEF IInv
<1>2. ASSUME NEW b \in Builds, ReadCache(b) PROVE IInv'
  <2>1. PICK found \in {NoSections,
                        [n \in Names |-> IF n \in pending[b] THEN cache[n] ELSE None]} :
          /\ cached' = [cached EXCEPT ![b] = found]
          /\ out' = [out EXCEPT ![b] = found]
          /\ pending' = [pending EXCEPT ![b] = {n \in @ : found[n] = None}]
    BY <1>2 DEF ReadCache
  <2>2. /\ found \in [Names -> Categories \cup {None}]
        /\ \A n \in Names : found[n] # None => found[n] = cache[n]
    BY DEF IInv, TypeOK
  <2>3. TypeOK'
    BY <1>2, <2>1, <2>2 DEF IInv, TypeOK, ReadCache
  <2>4. CacheHoldsAnswers'
    BY <1>2 DEF IInv, CacheHoldsAnswers, ReadCache
  <2>5. ASSUME NEW c \in Builds PROVE (Progress(c) /\ ReadStays(c))'
    BY <1>2, <2>1, <2>2, <2>5 DEF IInv, TypeOK, ReadCache, Progress, ReadStays
  <2> QED BY <2>3, <2>4, <2>5 DEF IInv
<1>3. ASSUME NEW b \in Builds, Ask(b) PROVE IInv'
  BY <1>3 DEF IInv, TypeOK, CacheHoldsAnswers, Progress, ReadStays, Ask
<1>4. ASSUME NEW b \in Builds, Answer(b) PROVE IInv'
  <2>1. PICK c \in Categories :
          /\ Settle(b, c)
          /\ answers' = [answers EXCEPT ![topic[b]] = @ \cup {c}]
    BY <1>4, NormalizedIsCategory DEF Answer
  <2>2. topic[b] \in Names /\ cached[b][topic[b]] = None
    BY <1>4 DEF IInv, Progress, Answer
  <2>3. TypeOK'
    BY <1>4, <2>1, <2>2 DEF IInv, TypeOK, Answer, Settle
  <2>4. CacheHoldsAnswers'
    BY <1>4, <2>1, <2>2 DEF IInv, TypeOK, CacheHoldsAnswers, Answer
  <2>5. ASSUME NEW d \in Builds PROVE (Progress(d) /\ ReadStays(d))'
    BY <1>4, <2>1, <2>2, <2>5 DEF IInv, TypeOK, Answer, Settle, Progress, ReadStays
  <2> QED BY <2>3, <2>4, <2>5 DEF IInv
<1>5. ASSUME NEW b \in Builds, NoAnswer(b) PROVE IInv'
  <2>2. topic[b] \in Names /\ cached[b][topic[b]] = None
    BY <1>5 DEF IInv, Progress, NoAnswer
  <2>3. TypeOK'
    BY <1>5, <2>2 DEF IInv, TypeOK, NoAnswer, Settle, Categories
  <2>4. CacheHoldsAnswers'
    BY <1>5 DEF IInv, CacheHoldsAnswers, NoAnswer
  <2>5. ASSUME NEW d \in Builds PROVE (Progress(d) /\ ReadStays(d))'
    BY <1>5, <2>2, <2>5 DEF IInv, TypeOK, NoAnswer, Settle, Progress, ReadStays
  <2> QED BY <2>3, <2>4, <2>5 DEF IInv
<1>6. ASSUME NEW b \in Builds, SaveCategory(b) PROVE IInv'
  <2>1. /\ topic[b] \in Names
        /\ out[b][topic[b]] \in answers[topic[b]]
        /\ out[b][topic[b]] \in Categories
    BY <1>6 DEF IInv, TypeOK, Progress, SaveCategory
  <2>2. /\ cache' \in [Names -> Categories \cup {None}]
        /\ \A n \in Names : cache[n] # None => cache'[n] = cache[n]
        /\ \A n \in Names : cache'[n] # None => cache'[n] \in answers[n]
    BY <1>6, <2>1 DEF IInv, TypeOK, CacheHoldsAnswers, SaveCategory, CacheAfter
  <2>3. TypeOK'
    BY <1>6, <2>2 DEF IInv, TypeOK, SaveCategory
  <2>4. CacheHoldsAnswers'
    BY <1>6, <2>2 DEF CacheHoldsAnswers, SaveCategory
  <2>5. ASSUME NEW d \in Builds PROVE (Progress(d) /\ ReadStays(d))'
    BY <1>6, <2>2, <2>5 DEF IInv, TypeOK, SaveCategory, Progress, ReadStays
  <2> QED BY <2>3, <2>4, <2>5 DEF IInv
<1>7. ASSUME NEW b \in Builds, Finish(b) PROVE IInv'
  BY <1>7 DEF IInv, TypeOK, CacheHoldsAnswers, Progress, ReadStays, Finish
<1>8. ASSUME NEW b \in Builds, Abort(b) PROVE IInv'
  BY <1>8 DEF IInv, TypeOK, CacheHoldsAnswers, Progress, ReadStays, Abort
<1> QED
  BY <1>0, <1>1, <1>2, <1>3, <1>4, <1>5, <1>6, <1>7, <1>8 DEF Next

LEMMA IInvAlways == Spec => []IInv
  BY InitIInv, StepIInv, PTL DEF Spec

-----------------------------------------------------------------------------
(* Only sections of the store enter the cache and the lists, whatever the  *)
(* model replies.                                                          *)
THEOREM OnlySections == Spec => []TypeOK
  BY IInvAlways, PTL DEF IInv

(* A failed question never leaves a section in the cache. *)
THEOREM FailuresNotCached == Spec => []CacheHoldsAnswers
  BY IInvAlways, PTL DEF IInv

(* A build that found a section in the cache shows it, and the cache never *)
(* says otherwise afterwards.                                              *)
THEOREM CachedSectionsAgree == Spec => []ListsAgree
<1>1. IInv => ListsAgree
  BY DEF IInv, ReadStays, ListsAgree, Finished
<1> QED BY <1>1, IInvAlways, PTL

-----------------------------------------------------------------------------
(* Every set of numbers has a least one: the induction of what follows is  *)
(* over the first counterexample.                                          *)
LEMMA NatMin == ASSUME NEW T \in SUBSET Nat, T # {}
                PROVE  \E n \in T : \A m \in T : n <= m
<1> DEFINE R == OpToRel(<, Nat)
<1>1. \A m, n \in Nat : m < n => <<m, n>> \in R
  BY DEF OpToRel
<1>2. IsWellFoundedOn(R, Nat)
  BY NatLessThanWellFounded
<1> HIDE DEF R
<1>3. PICK n \in T : \A m \in T : ~(<<m, n>> \in R)
  BY <1>2, WFMin
<1>4. ASSUME NEW m \in T PROVE n <= m
  <2>1. m \in Nat /\ n \in Nat /\ ~(m < n)
    BY <1>1, <1>3
  <2> QED
    BY <2>1
<1> QED
  BY <1>4

(* sum adds up the weights g of any of the places 1 .. n. *)
IsSum(sum, g, n) ==
    /\ sum \in [SUBSET (1 .. n) -> Nat]
    /\ sum[{}] = 0
    /\ \A s \in SUBSET (1 .. n) : \A x \in s : sum[s] = g[x] + sum[s \ {x}]

LEMMA SumExists ==
    ASSUME NEW n \in Nat, NEW g \in [1 .. n -> Nat]
    PROVE  \E sum : IsSum(sum, g, n)
<1> DEFINE Bad == {m \in 0 .. n : ~ \E sum : IsSum(sum, g, m)}
<1> SUFFICES ASSUME Bad # {} PROVE FALSE
  <2>1. n \in 0 .. n
    OBVIOUS
  <2> QED
    BY <2>1
<1>1. PICK m \in Bad : \A l \in Bad : m <= l
  <2>1. Bad \in SUBSET Nat
    OBVIOUS
  <2> HIDE DEF Bad
  <2> QED
    BY <2>1, NatMin
<1>2. CASE m = 0
  <2>1. IsSum([s \in SUBSET (1 .. 0) |-> 0], g, 0)
    <3>1. 1 .. 0 = {}
      OBVIOUS
    <3> QED
      BY <3>1 DEF IsSum
  <2> QED
    BY <1>2, <2>1
<1>3. CASE m # 0
  <2>1. m - 1 \in 0 .. n /\ m - 1 \notin Bad /\ m \in 1 .. n
    BY <1>1, <1>3
  <2>2. PICK sum : IsSum(sum, g, m - 1)
    BY <2>1
  <2> DEFINE more == [s \in SUBSET (1 .. m) |->
                        IF m \in s THEN g[m] + sum[s \ {m}] ELSE sum[s]]
  <2>3. \A s \in SUBSET (1 .. m) : s \ {m} \in SUBSET (1 .. m - 1)
    BY <2>1
  <2>4. \A s \in SUBSET (1 .. m) : m \notin s => s \in SUBSET (1 .. m - 1)
    BY <2>1
  <2>5. \A s \in SUBSET (1 .. m - 1) : sum[s] \in Nat
    BY <2>2 DEF IsSum
  <2>6. more \in [SUBSET (1 .. m) -> Nat]
    BY <2>1, <2>3, <2>4, <2>5
  <2>7. more[{}] = 0
    BY <2>2 DEF IsSum
  <2>8. ASSUME NEW s \in SUBSET (1 .. m), NEW x \in s PROVE more[s] = g[x] + more[s \ {x}]
    <3>0. x \in 1 .. m /\ g[x] \in Nat /\ g[m] \in Nat /\ s \ {x} \in SUBSET (1 .. m)
      BY <2>1
    <3>1. CASE x = m
      BY <3>0, <3>1, <2>3
    <3>2. CASE x # m /\ m \in s
      <4>1. s \ {m} \in SUBSET (1 .. m - 1) /\ x \in s \ {m} /\ (s \ {m}) \ {x} = (s \ {x}) \ {m}
        BY <2>3, <3>2
      <4>2. sum[s \ {m}] = g[x] + sum[(s \ {x}) \ {m}]
        BY <2>2, <4>1 DEF IsSum
      <4>3. more[s] = g[m] + sum[s \ {m}] /\ more[s \ {x}] = g[m] + sum[(s \ {x}) \ {m}]
        BY <3>0, <3>2
      <4>4. sum[(s \ {x}) \ {m}] \in Nat
        BY <2>5, <4>1
      <4> QED
        BY <3>0, <4>2, <4>3, <4>4
    <3>3. CASE m \notin s
      <4>1. s \in SUBSET (1 .. m - 1)
        BY <2>4, <3>3
      <4>2. sum[s] = g[x] + sum[s \ {x}]
        BY <2>2, <4>1 DEF IsSum
      <4> QED
        BY <3>0, <3>3, <4>2
    <3> QED
      BY <3>1, <3>2, <3>3
  <2> HIDE DEF more
  <2>9. IsSum(more, g, m)
    BY <2>6, <2>7, <2>8 DEF IsSum
  <2> QED
    BY <2>9
<1> QED
  BY <1>2, <1>3

-----------------------------------------------------------------------------
(* Consolidate, one ingredient after the other. *)
Added(w, f, i) ==
    IF i = 0 THEN [k \in {} |-> 0]
    ELSE IF Normalize(w[i].name) \in Staples THEN f[i - 1] ELSE Merge(f[i - 1], w[i])

LEMMA ConsolidateStepwise ==
    ASSUME NEW w \in Seq(Ingredients)
    PROVE  \E f : f = [i \in 0 .. Len(w) |-> Added(w, f, i)] /\ Consolidate(w) = f[Len(w)]
<1>1. Len(w) \in Nat
  OBVIOUS
<1> DEFINE Bad == {m \in 0 .. Len(w) : ~ \E f : f = [i \in 0 .. m |-> Added(w, f, i)]}
<1>2. Bad = {}
  <2> SUFFICES ASSUME Bad # {} PROVE FALSE
    OBVIOUS
  <2>1. PICK m \in Bad : \A l \in Bad : m <= l
    <3>1. Bad \in SUBSET Nat
      BY <1>1
    <3> HIDE DEF Bad
    <3> QED
      BY <3>1, NatMin
  <2>2. CASE m = 0
    <3> DEFINE f == [i \in 0 .. 0 |-> [k \in {} |-> 0]]
    <3>1. f = [i \in 0 .. 0 |-> Added(w, f, i)]
      BY DEF Added
    <3> QED
      BY <2>2, <3>1
  <2>3. CASE m # 0
    <3>1. m - 1 \in 0 .. Len(w) /\ m - 1 \notin Bad /\ m \in 1 .. Len(w)
      BY <1>1, <2>1, <2>3
    <3>2. PICK g : g = [i \in 0 .. m - 1 |-> Added(w, g, i)]
      BY <3>1
    <3> DEFINE f == [i \in 0 .. m |-> IF i = m THEN Added(w, g, m) ELSE g[i]]
    <3>3. ASSUME NEW i \in 0 .. m PROVE f[i] = Added(w, f, i)
      <4>1. i # 0 => f[i - 1] = g[i - 1]
        BY <3>1
      <4>2. Added(w, f, i) = Added(w, g, i)
        BY <4>1 DEF Added
      <4>3. i # m => g[i] = Added(w, g, i)
        <5>1. i # m => i \in 0 .. m - 1
          BY <3>1
        <5> QED
          BY <3>2, <5>1
      <4> QED
        BY <4>2, <4>3
    <3>4. f = [i \in 0 .. m |-> Added(w, f, i)]
      BY <3>3
    <3> HIDE DEF f
    <3> QED
      BY <3>4
  <2> QED
    BY <2>2, <2>3
<1>3. PICK g : g = [i \in 0 .. Len(w) |-> Added(w, g, i)]
  <2>1. Len(w) \in 0 .. Len(w) /\ Len(w) \notin Bad
    BY <1>1, <1>2
  <2> QED
    BY <2>1
<1> DEFINE after == CHOOSE f : f = [i \in 0 .. Len(w) |-> Added(w, f, i)]
<1>4. Consolidate(w) = after[Len(w)]
  BY DEF Consolidate, Added
<1>5. after = [i \in 0 .. Len(w) |-> Added(w, after, i)]
  BY <1>3
<1> HIDE DEF after
<1> QED
  BY <1>4, <1>5

(* The places of the first n ingredients that line k is made of. *)
PlacesOf(w, n, k) ==
    {j \in 1 .. n : Normalize(w[j].name) \notin Staples /\ LineKey(w[j]) = k}

(* In base units, what each place contributes. *)
Weight(w) == [j \in 1 .. Len(w) |-> w[j].amount * w[j].unit.factor]

(* A line has the name and token of one of its ingredients and the amount  *)
(* of all of them.                                                         *)
MadeOf(line, w, n, sum, k) ==
    \E j \in PlacesOf(w, n, k) :
      line = [name |-> w[j].name, class |-> w[j].unit.class,
              token |-> w[j].unit.token, quantity |-> sum[PlacesOf(w, n, k)]]

(* The lines of the first n ingredients: one for each key that they have.  *)
LinesOf(w, n, sum, lines) ==
    /\ DOMAIN lines = {LineKey(w[j]) : j \in {i \in 1 .. n : Normalize(w[i].name) \notin Staples}}
    /\ \A k \in DOMAIN lines : MadeOf(lines[k], w, n, sum, k)

LEMMA UnitFacts ==
    \A u \in Units : /\ u.factor \in Nat \ {0}
                     /\ \/ u.class = "mass" /\ u.token = "g" /\ u.factor = 1
                        \/ u.class = "mass" /\ u.token = "kg" /\ u.factor = 1000
                        \/ u.class = "count" /\ u.token = "pcs" /\ u.factor = 1
                        \/ u.class = "opaque" /\ u.token = "pinch" /\ u.factor = 1
  BY DEF Units

LEMMA IngredientFacts ==
    ASSUME NEW w \in Seq(Ingredients)
    PROVE  /\ Len(w) \in Nat
           /\ \A j \in 1 .. Len(w) : /\ w[j].name \in Names \X Spellings
                                     /\ w[j].unit \in Units /\ w[j].amount \in Nat
           /\ Weight(w) \in [1 .. Len(w) -> Nat]
<1>1. \A j \in 1 .. Len(w) : w[j] \in Ingredients
  OBVIOUS
<1>2. \A j \in 1 .. Len(w) : w[j].name \in Names \X Spellings /\ w[j].unit \in Units /\ w[j].amount \in Nat
  BY <1>1 DEF Ingredients
<1>3. \A j \in 1 .. Len(w) : w[j].amount * w[j].unit.factor \in Nat
  <2> TAKE j \in 1 .. Len(w)
  <2>1. w[j].amount \in Nat /\ w[j].unit.factor \in Nat
    BY <1>2, UnitFacts
  <2>2. \A m, n \in Nat : m * n \in Nat
    OBVIOUS
  <2> QED
    BY <2>1, <2>2
<1> QED
  BY <1>2, <1>3 DEF Weight

LEMMA MergeKeepsLines ==
    ASSUME NEW w \in Seq(Ingredients), NEW n \in 1 .. Len(w), NEW sum,
           IsSum(sum, Weight(w), Len(w)), NEW lines, LinesOf(w, n - 1, sum, lines)
    PROVE  LinesOf(w, n, sum, IF Normalize(w[n].name) \in Staples THEN lines ELSE Merge(lines, w[n]))
<1>0. /\ n \in Nat /\ n - 1 \in Nat /\ 1 .. n = (1 .. n - 1) \cup {n} /\ n \notin 1 .. n - 1
      /\ 1 .. n \subseteq 1 .. Len(w)
  BY IngredientFacts
<1> DEFINE Kept(m) == {i \in 1 .. m : Normalize(w[i].name) \notin Staples}
           key == LineKey(w[n])
<1>1. CASE Normalize(w[n].name) \in Staples
  <2>1. Kept(n) = Kept(n - 1)
    BY <1>0, <1>1
  <2>2. \A k : PlacesOf(w, n, k) = PlacesOf(w, n - 1, k)
    BY <1>0, <1>1 DEF PlacesOf
  <2>3. DOMAIN lines = {LineKey(w[j]) : j \in Kept(n - 1)}
    BY DEF LinesOf
  <2>4. DOMAIN lines = {LineKey(w[j]) : j \in Kept(n)}
    BY <2>1, <2>3
  <2>5. LinesOf(w, n, sum, lines)
    <3>1. \A k \in DOMAIN lines : MadeOf(lines[k], w, n, sum, k)
      BY <2>2 DEF LinesOf, MadeOf
    <3> QED
      BY <2>4, <3>1 DEF LinesOf
  <2> QED
    BY <1>1, <2>5
<1>2. CASE Normalize(w[n].name) \notin Staples
  <2> DEFINE more == Merge(lines, w[n])
             quantity == w[n].amount * w[n].unit.factor
             line == IF key \in DOMAIN lines THEN [lines[key] EXCEPT !.quantity = @ + quantity]
                     ELSE [name |-> w[n].name, class |-> w[n].unit.class,
                           token |-> w[n].unit.token, quantity |-> quantity]
  <2>1. more = [k \in DOMAIN lines \cup {key} |-> IF k = key THEN line ELSE lines[k]]
    BY DEF Merge
  <2>2. DOMAIN more = {LineKey(w[j]) : j \in Kept(n)}
    <3>1. Kept(n) = Kept(n - 1) \cup {n}
      BY <1>0, <1>2
    <3>2. DOMAIN lines = {LineKey(w[j]) : j \in Kept(n - 1)}
      BY DEF LinesOf
    <3> QED
      BY <2>1, <3>1, <3>2
  <2>3. PlacesOf(w, n, key) = PlacesOf(w, n - 1, key) \cup {n}
    BY <1>0, <1>2 DEF PlacesOf
  <2>4. \A k : k # key => PlacesOf(w, n, k) = PlacesOf(w, n - 1, k)
    BY <1>0 DEF PlacesOf
  <2>5. sum[PlacesOf(w, n, key)] = quantity + sum[PlacesOf(w, n - 1, key)]
    <3>1. PlacesOf(w, n, key) \in SUBSET (1 .. Len(w)) /\ n \in PlacesOf(w, n, key)
      BY <1>0, <2>3 DEF PlacesOf
    <3>2. PlacesOf(w, n, key) \ {n} = PlacesOf(w, n - 1, key)
      BY <1>0, <2>3 DEF PlacesOf
    <3>3. Weight(w)[n] = quantity
      BY <1>0 DEF Weight
    <3> QED
      BY <3>1, <3>2, <3>3 DEF IsSum
  <2>6. quantity \in Nat /\ sum[PlacesOf(w, n - 1, key)] \in Nat
    <3>1. Weight(w)[n] = quantity /\ Weight(w)[n] \in Nat
      BY <1>0, IngredientFacts DEF Weight
    <3>2. PlacesOf(w, n - 1, key) \in SUBSET (1 .. Len(w))
      BY <1>0 DEF PlacesOf
    <3> QED
      BY <3>1, <3>2 DEF IsSum
  <2>7. ASSUME NEW k \in DOMAIN more
        PROVE  MadeOf(more[k], w, n, sum, k)
    <3>1. CASE k # key
      <4>1. k \in DOMAIN lines /\ more[k] = lines[k]
        BY <2>1, <3>1
      <4>2. MadeOf(lines[k], w, n - 1, sum, k)
        BY <4>1 DEF LinesOf
      <4> HIDE DEF more
      <4> QED
        BY <2>4, <3>1, <4>1, <4>2 DEF MadeOf
    <3>2. CASE k = key /\ key \in DOMAIN lines
      <4>1. PICK j \in PlacesOf(w, n - 1, key) :
              lines[key] = [name |-> w[j].name, class |-> w[j].unit.class,
                            token |-> w[j].unit.token, quantity |-> sum[PlacesOf(w, n - 1, key)]]
        BY <3>2 DEF LinesOf, MadeOf
      <4>2. more[k] = [name |-> w[j].name, class |-> w[j].unit.class, token |-> w[j].unit.token,
                       quantity |-> sum[PlacesOf(w, n - 1, key)] + quantity]
        BY <2>1, <3>2, <4>1
      <4>3. j \in PlacesOf(w, n, k)
        BY <2>3, <3>2, <4>1
      <4> HIDE DEF more, quantity
      <4>4. sum[PlacesOf(w, n, k)] = sum[PlacesOf(w, n - 1, key)] + quantity
        BY <2>5, <2>6, <3>2
      <4> QED
        BY <4>2, <4>3, <4>4 DEF MadeOf
    <3>3. CASE k = key /\ key \notin DOMAIN lines
      <4>1. PlacesOf(w, n - 1, key) = {}
        BY <3>3 DEF LinesOf, PlacesOf
      <4>2. sum[PlacesOf(w, n, k)] = quantity
        <5>1. sum[PlacesOf(w, n - 1, key)] = 0
          BY <4>1 DEF IsSum
        <5> HIDE DEF quantity
        <5> QED
          BY <2>5, <2>6, <3>3, <5>1
      <4>3. more[k] = [name |-> w[n].name, class |-> w[n].unit.class,
                       token |-> w[n].unit.token, quantity |-> quantity]
        BY <2>1, <3>3
      <4>4. n \in PlacesOf(w, n, k)
        BY <2>3, <3>3
      <4> QED
        BY <4>2, <4>3, <4>4 DEF MadeOf
    <3> QED
      BY <3>1, <3>2, <3>3
  <2> HIDE DEF more
  <2>8. LinesOf(w, n, sum, more)
    BY <2>2, <2>7 DEF LinesOf
  <2> QED
    BY <1>2, <2>8 DEF more
<1> QED
  BY <1>1, <1>2

LEMMA ConsolidateLines ==
    ASSUME NEW w \in Seq(Ingredients), NEW sum, IsSum(sum, Weight(w), Len(w))
    PROVE  LinesOf(w, Len(w), sum, Consolidate(w))
<1>1. Len(w) \in Nat
  OBVIOUS
<1>2. PICK f : f = [i \in 0 .. Len(w) |-> Added(w, f, i)] /\ Consolidate(w) = f[Len(w)]
  BY ConsolidateStepwise
<1>3. \A i \in 0 .. Len(w) : f[i] = Added(w, f, i)
  BY <1>2
<1> DEFINE Bad == {m \in 0 .. Len(w) : ~ LinesOf(w, m, sum, f[m])}
<1>4. Bad = {}
  <2> SUFFICES ASSUME Bad # {} PROVE FALSE
    OBVIOUS
  <2>1. PICK m \in Bad : \A l \in Bad : m <= l
    <3>1. Bad \in SUBSET Nat
      BY <1>1
    <3> HIDE DEF Bad
    <3> QED
      BY <3>1, NatMin
  <2>2. CASE m = 0
    <3>1. f[0] = [k \in {} |-> 0]
      BY <1>1, <1>3 DEF Added
    <3>2. 1 .. 0 = {}
      OBVIOUS
    <3>3. LinesOf(w, 0, sum, f[0])
      BY <3>1, <3>2 DEF LinesOf
    <3> QED
      BY <2>1, <2>2, <3>3
  <2>3. CASE m # 0
    <3>1. m - 1 \in 0 .. Len(w) /\ m \in 1 .. Len(w) /\ m - 1 \notin Bad
      BY <1>1, <2>1, <2>3
    <3>2. f[m] = IF Normalize(w[m].name) \in Staples THEN f[m - 1] ELSE Merge(f[m - 1], w[m])
      BY <1>3, <3>1 DEF Added
    <3>3. LinesOf(w, m, sum, f[m])
      BY <3>1, <3>2, MergeKeepsLines
    <3> QED
      BY <2>1, <3>3
  <2> QED
    BY <2>2, <2>3
<1>5. Len(w) \in 0 .. Len(w) /\ Len(w) \notin Bad
  BY <1>1, <1>4
<1> QED
  BY <1>2, <1>5

(* What a week needs of an ingredient is such a sum, in whatever order the *)
(* fold adds it up.                                                        *)
LEMMA NeededIsSum ==
    ASSUME NEW w \in Seq(Ingredients), NEW sum, IsSum(sum, Weight(w), Len(w)),
           NEW i \in 1 .. Len(w)
    PROVE  Needed(w, i) = sum[{j \in 1 .. Len(w) : Alike(w[i], w[j])}]
<1> DEFINE S == {j \in 1 .. Len(w) : Alike(w[i], w[j])}
           Body(h, s) == IF s = {} THEN 0
                         ELSE LET x == CHOOSE j \in s : TRUE
                              IN  w[x].amount * w[x].unit.factor + h[s \ {x}]
           iter == CHOOSE h : h = [s \in SUBSET S |-> Body(h, s)]
           Sums == [s \in SUBSET S |-> sum[s]]
<1>0. Len(w) \in Nat /\ DOMAIN w = 1 .. Len(w) /\ S \in SUBSET (1 .. Len(w))
  OBVIOUS
<1>1. Needed(w, i) = iter[S]
  BY <1>0 DEF Needed, MapThenFoldSet
<1>2. \A x \in 1 .. Len(w) : Weight(w)[x] = w[x].amount * w[x].unit.factor
  BY DEF Weight
<1> HIDE DEF S
<1>3. Sums = [s \in SUBSET S |-> Body(Sums, s)]
  <2>1. ASSUME NEW s \in SUBSET S PROVE sum[s] = Body(Sums, s)
    <3>1. s \in SUBSET (1 .. Len(w))
      BY <1>0
    <3>2. CASE s = {}
      BY <3>2 DEF IsSum
    <3>3. CASE s # {}
      <4> DEFINE x == CHOOSE j \in s : TRUE
      <4>1. x \in s
        BY <3>3
      <4>2. Body(Sums, s) = w[x].amount * w[x].unit.factor + sum[s \ {x}]
        BY <3>3
      <4> HIDE DEF x, Body, Sums
      <4>3. sum[s] = Weight(w)[x] + sum[s \ {x}]
        BY <3>1, <4>1 DEF IsSum
      <4> QED
        BY <1>2, <3>1, <4>1, <4>2, <4>3
    <3> QED
      BY <3>2, <3>3
  <2> HIDE DEF Body
  <2> QED
    BY <2>1
<1>4. iter = [s \in SUBSET S |-> Body(iter, s)]
  BY <1>3
<1> HIDE DEF iter, Sums
<1> DEFINE Bad == {k \in Nat : \E s \in SUBSET S : Cardinality(s) = k /\ iter[s] # sum[s]}
<1>5. \A s \in SUBSET S : IsFiniteSet(s) /\ Cardinality(s) \in Nat /\ s \in SUBSET (1 .. Len(w))
  <2>1. IsFiniteSet(1 .. Len(w))
    BY <1>0, FS_Interval
  <2> QED
    BY <1>0, <2>1, FS_Subset, FS_CardinalityType
<1>6. Bad = {}
  <2> SUFFICES ASSUME Bad # {} PROVE FALSE
    OBVIOUS
  <2>1. PICK k \in Bad : \A l \in Bad : k <= l
    BY NatMin
  <2>2. PICK s \in SUBSET S : Cardinality(s) = k /\ iter[s] # sum[s]
    BY <2>1
  <2>3. iter[s] = Body(iter, s)
    BY <1>4
  <2>4. CASE s = {}
    BY <2>2, <2>3, <2>4 DEF IsSum
  <2>5. CASE s # {}
    <3> DEFINE x == CHOOSE j \in s : TRUE
    <3>1. x \in s /\ x \in 1 .. Len(w)
      BY <1>5, <2>5
    <3>2. iter[s] = w[x].amount * w[x].unit.factor + iter[s \ {x}]
      BY <2>3, <2>5
    <3> HIDE DEF x, Body
    <3>3. Cardinality(s \ {x}) = k - 1 /\ s \ {x} \in SUBSET S
      BY <1>5, <2>2, <3>1, FS_RemoveElement
    <3>4. k - 1 \notin Bad /\ Cardinality(s \ {x}) \in Nat
      BY <1>5, <2>1, <3>3
    <3>5. iter[s \ {x}] = sum[s \ {x}]
      BY <3>3, <3>4
    <3>6. sum[s] = Weight(w)[x] + sum[s \ {x}]
      BY <1>5, <3>1 DEF IsSum
    <3> QED
      BY <1>2, <2>2, <3>1, <3>2, <3>5, <3>6
  <2> QED
    BY <2>4, <2>5
<1>7. iter[S] = sum[S]
  BY <1>5, <1>6
<1> QED
  BY <1>1, <1>7 DEF S

-----------------------------------------------------------------------------
(* What a list is made of, in one place. *)
LEMMA ConsolidateFacts ==
    ASSUME NEW w \in Seq(Ingredients)
    PROVE  \E sum : /\ LinesOf(w, Len(w), sum, Consolidate(w))
                    /\ \A i \in 1 .. Len(w) : Needed(w, i) = sum[{j \in 1 .. Len(w) : Alike(w[i], w[j])}]
                    /\ \A s \in SUBSET (1 .. Len(w)) : sum[s] \in Nat
<1>1. PICK sum : IsSum(sum, Weight(w), Len(w))
  BY IngredientFacts, SumExists
<1>2. \A s \in SUBSET (1 .. Len(w)) : sum[s] \in Nat
  BY <1>1 DEF IsSum
<1> QED
  BY <1>1, <1>2, ConsolidateLines, NeededIsSum

LEMMA LineNames ==
    ASSUME NEW w \in Seq(Ingredients), NEW k \in DOMAIN Consolidate(w)
    PROVE  Normalize(Consolidate(w)[k].name) \in Names
<1>1. PICK sum : LinesOf(w, Len(w), sum, Consolidate(w))
  BY ConsolidateFacts
<1>2. PICK j \in PlacesOf(w, Len(w), k) : Consolidate(w)[k].name = w[j].name
  <2>1. MadeOf(Consolidate(w)[k], w, Len(w), sum, k)
    BY <1>1 DEF LinesOf
  <2> QED
    BY <2>1 DEF MadeOf
<1> QED
  BY <1>2, IngredientFacts DEF PlacesOf, Normalize

LEMMA WeekTyped == ASSUME TypeOK, NEW b \in Builds PROVE week[b] \in Seq(Ingredients)
<1>1. << >> \in Seq(Ingredients) /\ Weeks \subseteq Seq(Ingredients)
  BY WeeksAssumption
<1> QED
  BY <1>1 DEF TypeOK

(* Until it is asked for, a name without a section is pending. *)
Wanted(w) == Unresolved(Consolidate(w))
SortInv ==
    \A b \in Builds :
        /\ pc[b] = "reading" => pending[b] = Wanted(week[b])
        /\ pc[b] # "idle" => \A n \in Wanted(week[b]) : n \in pending[b] \/ out[b][n] \in Categories
        /\ pc[b] = "done" => pending[b] = {}

LEMMA StepSortInv == IInv /\ SortInv /\ [Next]_vars => SortInv'
<1> SUFFICES ASSUME IInv, SortInv, [Next]_vars PROVE SortInv'
  OBVIOUS
<1>0. TypeOK /\ \A w : Wanted(w) \subseteq Names
  BY DEF IInv, Wanted, Unresolved
<1> DEFINE Good(b) == /\ pc[b] = "reading" => pending[b] = Wanted(week[b])
                      /\ pc[b] # "idle" => \A n \in Wanted(week[b]) :
                                             n \in pending[b] \/ out[b][n] \in Categories
                      /\ pc[b] = "done" => pending[b] = {}
<1>1. \A b \in Builds : Good(b)
  BY DEF SortInv
<1>2. ASSUME NEW b \in Builds, NEW d \in Builds,
             UNCHANGED <<pc[d], week[d], pending[d], out[d]>>
      PROVE  Good(d)'
  BY <1>1, <1>2
<1>3. CASE UNCHANGED vars
  BY <1>1, <1>3 DEF vars, SortInv
<1>4. ASSUME NEW b \in Builds, Start(b), NEW d \in Builds PROVE Good(d)'
  <2>1. PICK w \in Weeks :
          /\ week' = [week EXCEPT ![b] = w]
          /\ pending' = [pending EXCEPT ![b] = Wanted(w)]
          /\ pc' = [pc EXCEPT ![b] = IF Wanted(w) = {} THEN "done" ELSE "reading"]
          /\ out' = out
    BY <1>4 DEF Start, Wanted
  <2>2. \A e \in Builds : week'[e] = IF e = b THEN w ELSE week[e]
    BY <1>0, <2>1 DEF TypeOK
  <2> QED
    BY <1>0, <1>1, <2>1, <2>2 DEF TypeOK
<1>5. ASSUME NEW b \in Builds, ReadCache(b), NEW d \in Builds PROVE Good(d)'
  <2>1. PICK found \in {NoSections,
                        [n \in Names |-> IF n \in pending[b] THEN cache[n] ELSE None]} :
          /\ out' = [out EXCEPT ![b] = found]
          /\ pending' = [pending EXCEPT ![b] = {n \in @ : found[n] = None}]
          /\ pc' = [pc EXCEPT ![b] = "resolving"]
          /\ week' = week
    BY <1>5 DEF ReadCache
  <2>2. \A n \in Names : found[n] \in Categories \cup {None}
    BY <1>0, NoSectionsOK DEF TypeOK
  <2>3. pending[b] = Wanted(week[b])
    BY <1>1, <1>5 DEF ReadCache
  <2> QED
    BY <1>0, <1>1, <2>1, <2>2, <2>3 DEF TypeOK
<1>6. ASSUME NEW b \in Builds, Ask(b), NEW d \in Builds PROVE Good(d)'
  BY <1>0, <1>1, <1>6 DEF Ask, TypeOK
<1>7. ASSUME NEW b \in Builds, NEW d \in Builds, NEW c \in Categories, Settle(b, c),
             topic[b] \in Names, pc[b] = "asking", week' = week,
             NEW p \in {"saving", "resolving"}, pc' = [pc EXCEPT ![b] = p]
      PROVE  Good(d)'
  <2>1. /\ out' = [out EXCEPT ![b][topic[b]] = c]
        /\ pending' = [pending EXCEPT ![b] = @ \ {topic[b]}]
    BY <1>7 DEF Settle
  <2>2. \A n \in Names : out'[b][n] = IF n = topic[b] THEN c ELSE out[b][n]
    BY <1>0, <1>7, <2>1 DEF TypeOK
  <2>3. pending'[b] = pending[b] \ {topic[b]} /\ pc'[b] = p
    BY <1>0, <1>7, <2>1 DEF TypeOK
  <2>4. d # b => UNCHANGED <<pc[d], week[d], pending[d], out[d]>>
    BY <1>0, <1>7, <2>1 DEF TypeOK
  <2> QED
    BY <1>0, <1>1, <1>2, <1>7, <2>2, <2>3, <2>4
<1>8. ASSUME NEW b \in Builds, Answer(b), NEW d \in Builds PROVE Good(d)'
  <2>1. PICK c \in Categories : Settle(b, c)
    BY <1>8, NormalizedIsCategory DEF Answer
  <2>2. topic[b] \in Names
    BY <1>8 DEF IInv, Progress, Answer
  <2> QED
    BY <1>7, <1>8, <2>1, <2>2 DEF Answer
<1>9. ASSUME NEW b \in Builds, NoAnswer(b), NEW d \in Builds PROVE Good(d)'
  <2>1. topic[b] \in Names /\ Other \in Categories
    BY <1>9 DEF IInv, Progress, NoAnswer, Categories
  <2> QED
    BY <1>7, <1>9, <2>1 DEF NoAnswer
<1>10. ASSUME NEW b \in Builds, SaveCategory(b), NEW d \in Builds PROVE Good(d)'
  BY <1>0, <1>1, <1>10 DEF SaveCategory, TypeOK
<1>11. ASSUME NEW b \in Builds, Finish(b), NEW d \in Builds PROVE Good(d)'
  BY <1>0, <1>1, <1>11 DEF Finish, TypeOK
<1>12. ASSUME NEW b \in Builds, Abort(b), NEW d \in Builds PROVE Good(d)'
  <2>1. pc'[b] = "idle"
    BY <1>0, <1>12 DEF Abort, TypeOK
  <2>2. d # b => UNCHANGED <<pc[d], week[d], pending[d], out[d]>>
    BY <1>0, <1>12 DEF Abort, TypeOK
  <2> QED
    BY <1>1, <1>2, <2>1, <2>2
<1> QED
  <2>1. ASSUME NEW b \in Builds,
               \/ Start(b) \/ ReadCache(b) \/ Ask(b) \/ Answer(b) \/ NoAnswer(b)
               \/ SaveCategory(b) \/ Finish(b) \/ Abort(b)
        PROVE  \A d \in Builds : Good(d)'
    BY <1>4, <1>5, <1>6, <1>8, <1>9, <1>10, <1>11, <1>12, <2>1
  <2>2. CASE Next
    BY <2>1, <2>2 DEF Next, SortInv
  <2> QED
    BY <1>3, <2>2

LEMMA SortInvAlways == Spec => []SortInv
<1>1. Init => SortInv
  BY DEF Init, SortInv
<1> QED
  BY <1>1, StepSortInv, IInvAlways, PTL DEF Spec

(* A name has one section, on whatever lines of the list it is: it is the  *)
(* dictionary's, or what was found before the list was finished.           *)
THEOREM OneSection == Spec => []OneSectionPerName
<1>1. ASSUME IInv, SortInv, NEW b \in Finished, NEW k \in DOMAIN List(b), NEW l \in DOMAIN List(b)
      PROVE  /\ List(b)[k].category \in Categories
             /\ List(b)[k].name[1] = List(b)[l].name[1] => List(b)[k].category = List(b)[l].category
  <2> DEFINE lines == Consolidate(week[b])
             n(x) == Normalize(lines[x].name)
  <2>1. b \in Builds /\ pc[b] = "done" /\ week[b] \in Seq(Ingredients)
    BY <1>1, WeekTyped DEF Finished, IInv
  <2>2. k \in DOMAIN lines /\ l \in DOMAIN lines
    BY <1>1 DEF List
  <2>3. ASSUME NEW x \in DOMAIN lines
        PROVE  /\ List(b)[x].name = lines[x].name
               /\ List(b)[x].category = IF Dictionary[n(x)] # None THEN Dictionary[n(x)] ELSE out[b][n(x)]
               /\ n(x) \in Names
    BY <2>1, LineNames DEF List, CategoryOf
  <2>4. Dictionary[n(k)] # None => Dictionary[n(k)] \in Categories
    BY <2>2, <2>3, DictionaryAssumption
  <2>5. Dictionary[n(k)] = None => out[b][n(k)] \in Categories
    <3>1. Dictionary[n(k)] = None => n(k) \in Wanted(week[b])
      BY <2>2, <2>3 DEF Wanted, Unresolved
    <3> QED
      BY <1>1, <2>1, <3>1 DEF SortInv
  <2>6. List(b)[k].name[1] = List(b)[l].name[1] => n(k) = n(l)
    BY <2>2, <2>3 DEF Normalize
  <2> HIDE DEF lines
  <2> QED
    BY <2>2, <2>3, <2>4, <2>5, <2>6
<1>2. IInv /\ SortInv => OneSectionPerName
  BY <1>1 DEF OneSectionPerName
<1> QED
  BY <1>2, SortInvAlways, IInvAlways, PTL

-----------------------------------------------------------------------------
(* The shown amount is the amount needed, in a unit of the same class, and *)
(* no amount in another class could be taken for it.                       *)
LEMMA DisplayIsRight ==
    ASSUME NEW u \in Units, NEW q \in Nat, NEW name, NEW line,
           line = [name |-> name, class |-> u.class, token |-> u.token, quantity |-> q]
    PROVE  /\ \E v \in Units :
                /\ v.token = DisplayAmount(line).token /\ v.class = u.class
                /\ DisplayAmount(line).hundredths * v.factor - 100 * q
                     \in IF v.factor = 1 THEN {0} ELSE -500 .. 500
           /\ \A v \in Units : v.token = DisplayAmount(line).token => v.class = u.class
<1>1. line.class = u.class /\ line.token = u.token /\ line.quantity = q
  OBVIOUS
<1>2. CASE u.class = "mass" /\ q >= 1000
  <2>1. DisplayAmount(line) = [hundredths |-> (q + 5) \div 10, token |-> "kg"]
    BY <1>1, <1>2 DEF DisplayAmount
  <2> DEFINE h == (q + 5) \div 10
             kg == [class |-> "mass", token |-> "kg", factor |-> 1000]
  <2>2. h \in Int /\ 10 * h <= q + 5 /\ q + 5 < 10 * h + 10
    OBVIOUS
  <2> HIDE DEF h
  <2>3. h * 1000 - 100 * q \in -500 .. 500
    BY <2>2
  <2>4. kg \in Units /\ kg.token = "kg" /\ kg.class = "mass" /\ kg.factor = 1000
    BY DEF Units
  <2>5. \A v \in Units : v.token = "kg" => v.class = "mass"
    BY UnitFacts
  <2>6. DisplayAmount(line).token = "kg" /\ DisplayAmount(line).hundredths = h
    BY <2>1 DEF h
  <2> HIDE DEF kg
  <2> QED
    BY <1>2, <2>3, <2>4, <2>5, <2>6
<1>3. CASE ~(u.class = "mass" /\ q >= 1000)
  <2>1. u.class \in {"mass", "count", "opaque"}
    BY UnitFacts
  <2> DEFINE token == CASE u.class = "mass" -> "g" [] u.class = "count" -> "pcs"
                        [] u.class = "opaque" -> u.token
  <2>2. DisplayAmount(line) = [hundredths |-> 100 * q, token |-> token]
    BY <1>1, <1>3, <2>1 DEF DisplayAmount
  <2>3. DisplayAmount(line).hundredths = 100 * q /\ DisplayAmount(line).token = token
    <3> HIDE DEF token
    <3> QED
      BY <2>2
  <2>4. \E v \in Units : v.token = token /\ v.class = u.class /\ v.factor = 1
    BY <2>1, UnitFacts DEF Units
  <2>5. \A v \in Units : v.token = token => v.class = u.class
    BY <2>1, UnitFacts
  <2> HIDE DEF token
  <2> QED
    BY <2>3, <2>4, <2>5
<1> QED
  BY <1>2, <1>3

(* Ingredients are alike if they belong in one line. *)
LEMMA AlikeIsKey ==
    ASSUME NEW i, NEW j, i.unit \in Units, j.unit \in Units
    PROVE  Alike(i, j) <=> LineKey(i) = LineKey(j)
  BY UnitFacts DEF Alike, LineKey, Normalize

(* A finished list has one line for each ingredient and unit class that    *)
(* the recipes have and the pantry has not, with what they need of it.     *)
THEOREM ListsAddUp == Spec => []ListAddsUp
<1>1. ASSUME TypeOK, NEW b \in Finished
      PROVE  LET list == List(b) w == week[b] IN
             /\ \A i \in DOMAIN w :
                  Cardinality({k \in DOMAIN list : Shows(list[k], w[i], Needed(w, i))})
                    = IF w[i].name[1] \in Staples THEN 0 ELSE 1
             /\ \A k \in DOMAIN list : \E i \in DOMAIN w : Shows(list[k], w[i], Needed(w, i))
  <2> DEFINE w == week[b]
             lines == Consolidate(w)
             list == List(b)
             L == Len(w)
  <2>1. w \in Seq(Ingredients) /\ L \in Nat /\ DOMAIN w = 1 .. L
    BY <1>1, WeekTyped DEF Finished
  <2> HIDE DEF w
  <2>2. PICK sum : /\ LinesOf(w, L, sum, lines)
                   /\ \A i \in 1 .. L : Needed(w, i) = sum[{j \in 1 .. L : Alike(w[i], w[j])}]
                   /\ \A s \in SUBSET (1 .. L) : sum[s] \in Nat
    BY <2>1, ConsolidateFacts
  <2>3. /\ DOMAIN list = DOMAIN lines
        /\ \A k \in DOMAIN lines : list[k].name = lines[k].name /\ list[k].amount = DisplayAmount(lines[k])
    BY DEF List, w
  <2>4. \A j \in 1 .. L : w[j].name \in Names \X Spellings /\ w[j].unit \in Units
    BY <2>1, IngredientFacts
  <2>5. DOMAIN lines = {LineKey(w[j]) : j \in {i \in 1 .. L : Normalize(w[i].name) \notin Staples}}
    BY <2>2 DEF LinesOf
  <2>6. ASSUME NEW i \in 1 .. L, Normalize(w[i].name) \notin Staples
        PROVE  Needed(w, i) = sum[PlacesOf(w, L, LineKey(w[i]))] /\ Needed(w, i) \in Nat
    <3>1. {j \in 1 .. L : Alike(w[i], w[j])} = PlacesOf(w, L, LineKey(w[i]))
      <4>1. \A j \in 1 .. L : Alike(w[i], w[j]) <=> LineKey(w[i]) = LineKey(w[j])
        BY <2>4, AlikeIsKey
      <4>2. \A j \in 1 .. L : LineKey(w[i]) = LineKey(w[j]) => Normalize(w[j].name) = Normalize(w[i].name)
        BY DEF LineKey
      <4> QED
        BY <2>6, <4>1, <4>2 DEF PlacesOf
    <3>2. {j \in 1 .. L : Alike(w[i], w[j])} \in SUBSET (1 .. L)
      OBVIOUS
    <3> QED
      BY <2>2, <3>1, <3>2
  <2> HIDE DEF lines, list, L
  <2>7. ASSUME NEW k \in DOMAIN lines
        PROVE  \E j \in 1 .. L :
                 /\ Normalize(w[j].name) \notin Staples /\ LineKey(w[j]) = k
                 /\ lines[k] = [name |-> w[j].name, class |-> w[j].unit.class,
                                token |-> w[j].unit.token, quantity |-> Needed(w, j)]
    <3>1. MadeOf(lines[k], w, L, sum, k)
      BY <2>2 DEF LinesOf
    <3> QED
      BY <2>6, <3>1 DEF MadeOf, PlacesOf
  (* A line shows what the recipes need of its ingredients.                *)
  <2>8. ASSUME NEW k \in DOMAIN lines, NEW i \in 1 .. L, LineKey(w[i]) = k
        PROVE  Normalize(w[i].name) \notin Staples /\ Shows(list[k], w[i], Needed(w, i))
    <3>1. PICK j \in 1 .. L :
            /\ Normalize(w[j].name) \notin Staples /\ LineKey(w[j]) = k
            /\ lines[k] = [name |-> w[j].name, class |-> w[j].unit.class,
                           token |-> w[j].unit.token, quantity |-> Needed(w, j)]
      BY <2>7
    <3>2. /\ Normalize(w[i].name) = Normalize(w[j].name) /\ w[i].unit.class = w[j].unit.class
          /\ Normalize(w[i].name) \notin Staples
      <4>1. LineKey(w[i]) = LineKey(w[j])
        BY <2>8, <3>1
      <4> QED
        BY <3>1, <4>1 DEF LineKey
    <3>3. Needed(w, i) = Needed(w, j) /\ Needed(w, j) \in Nat
      BY <2>6, <2>8, <3>1, <3>2
    <3>4. \E v \in Units :
            /\ v.token = DisplayAmount(lines[k]).token /\ v.class = w[i].unit.class
            /\ DisplayAmount(lines[k]).hundredths * v.factor - 100 * Needed(w, i)
                 \in IF v.factor = 1 THEN {0} ELSE -500 .. 500
      <4>1. w[j].unit \in Units
        BY <2>4
      <4>2. \E v \in Units :
              /\ v.token = DisplayAmount(lines[k]).token /\ v.class = w[j].unit.class
              /\ DisplayAmount(lines[k]).hundredths * v.factor - 100 * Needed(w, j)
                   \in IF v.factor = 1 THEN {0} ELSE -500 .. 500
        BY <3>1, <3>3, <4>1, DisplayIsRight
      <4> QED
        BY <3>2, <3>3, <4>2
    <3>5. list[k].name[1] = w[i].name[1]
      BY <2>3, <3>1, <3>2 DEF Normalize
    <3> QED
      BY <2>3, <3>2, <3>4, <3>5 DEF Shows
  (* No other line does.                                                   *)
  <2>9. ASSUME NEW k \in DOMAIN lines, NEW i \in 1 .. L, Shows(list[k], w[i], Needed(w, i))
        PROVE  LineKey(w[i]) = k
    <3>1. PICK j \in 1 .. L :
            /\ Normalize(w[j].name) \notin Staples /\ LineKey(w[j]) = k
            /\ lines[k] = [name |-> w[j].name, class |-> w[j].unit.class,
                           token |-> w[j].unit.token, quantity |-> Needed(w, j)]
      BY <2>7
    <3>2. PICK v \in Units : v.token = DisplayAmount(lines[k]).token /\ v.class = w[i].unit.class
      BY <2>3, <2>9 DEF Shows
    <3>3. Needed(w, j) \in Nat
      BY <2>6, <3>1
    <3>4. v.class = w[j].unit.class
      <4>1. w[j].unit \in Units
        BY <2>4
      <4>2. \A x \in Units : x.token = DisplayAmount(lines[k]).token => x.class = w[j].unit.class
        BY <3>1, <3>3, <4>1, DisplayIsRight
      <4> QED
        BY <3>2, <4>2
    <3>5. Normalize(w[i].name) = Normalize(w[j].name)
      BY <2>3, <2>9, <3>1 DEF Shows, Normalize
    <3>6. w[i].unit.class = "opaque" => w[i].unit.token = w[j].unit.token
      BY <2>4, <3>2, <3>4, UnitFacts
    <3> QED
      BY <3>1, <3>2, <3>4, <3>5, <3>6 DEF LineKey
  <2>10. ASSUME NEW i \in 1 .. L
         PROVE  Cardinality({k \in DOMAIN list : Shows(list[k], w[i], Needed(w, i))})
                  = IF w[i].name[1] \in Staples THEN 0 ELSE 1
    <3> DEFINE shown == {k \in DOMAIN list : Shows(list[k], w[i], Needed(w, i))}
    <3>1. CASE Normalize(w[i].name) \in Staples
      <4>1. shown = {}
        BY <2>3, <2>8, <2>9, <3>1
      <4> QED
        BY <3>1, <4>1, FS_EmptySet DEF Normalize
    <3>2. CASE Normalize(w[i].name) \notin Staples
      <4>1. LineKey(w[i]) \in DOMAIN lines
        BY <2>5, <3>2
      <4>2. shown = {LineKey(w[i])}
        BY <2>3, <2>8, <2>9, <4>1
      <4> QED
        BY <3>2, <4>2, FS_Singleton DEF Normalize
    <3> QED
      BY <3>1, <3>2
  <2>11. ASSUME NEW k \in DOMAIN list PROVE \E i \in DOMAIN w : Shows(list[k], w[i], Needed(w, i))
    BY <2>1, <2>3, <2>7, <2>8 DEF L
  <2> QED
    BY <2>1, <2>10, <2>11 DEF w, list, L
<1>2. TypeOK => ListAddsUp
  BY <1>1 DEF ListAddsUp
<1> QED
  BY <1>2, OnlySections, PTL
=============================================================================
