--------------------------- MODULE ShoppingBuilder ---------------------------
(***************************************************************************)
(* From the ingredients of a week's recipes to the shopping list: Build    *)
(* adds them up into lines (Consolidate) and finds the store section of    *)
(* each line, in the dictionary, in the cache table that all builds share, *)
(* or by asking the model.  Builds overlap; the cache, the model and the   *)
(* process may fail at any step.                                           *)
(*                                                                         *)
(* A name is a normalized name and a spelling of it; a unit is a token     *)
(* with its measurement class and its factor to the class's base unit.     *)
(* Quantities are whole base units, shown amounts are hundredths, because  *)
(* the list rounds to two decimals.  The order of the lines is left out.   *)
(*                                                                         *)
(* An operator with an underscore in its name is not the program, but a    *)
(* slip in the definition that follows it.                                 *)
(***************************************************************************)
EXTENDS Integers, Sequences, FiniteSets, Folds

CONSTANTS
    Builds,      \* the builds: each makes one list
    Names,       \* normalized names
    Spellings,
    Dictionary,  \* the section of each name the dictionary can place, or None
    Staples,     \* the names that a pantry term of the household matches
    Sections,    \* the sections of the store, besides Other
    Other, None,
    Replies,     \* what the model may answer, sections or not
    Weeks        \* the ingredient lists a build may be given

Units ==
    {[class |-> "mass", token |-> "g", factor |-> 1],
     [class |-> "mass", token |-> "kg", factor |-> 1000],
     [class |-> "count", token |-> "pcs", factor |-> 1],
     [class |-> "opaque", token |-> "pinch", factor |-> 1]}

Ingredients == [name : Names \X Spellings, unit : Units, amount : Nat]
Categories == Sections \cup {Other}

ASSUME WeeksAssumption == Weeks \subseteq Seq(Ingredients)
ASSUME StaplesAssumption == Staples \subseteq Names
ASSUME DictionaryAssumption == Dictionary \in [Names -> Categories \cup {None}]
ASSUME NoneAssumption == None \notin Categories

VARIABLES
    cache,    \* table ingredient_category: the section of a name, or None
    pc,       \* where each build stands
    week,     \* per build: the ingredients it was given
    cached,   \* per build: what it read from the cache
    out,      \* per build: the section it found for each name, or None
    pending,  \* per build: the names still to be resolved
    topic,    \* per build: the name it asks the model for
    answers   \* the sections the model ever gave for a name (never read)

vars == <<cache, pc, week, cached, out, pending, topic, answers>>

Phases == {"idle", "reading", "resolving", "asking", "saving", "done"}

-----------------------------------------------------------------------------
(* Consolidate. *)

Normalize(name) == name[1]

(* The lines that ingredients add up in: by name and class, or by name and *)
(* token if the unit is unknown.                                           *)
LineKey(i) ==
    <<Normalize(i.name), i.unit.class, IF i.unit.class = "opaque" THEN i.unit.token ELSE "">>

(* The first ingredient of a line lends it its name and its token. *)
Merge(lines, i) ==
    LET key == LineKey(i)
        quantity == i.amount * i.unit.factor
        line == IF key \in DOMAIN lines
                THEN [lines[key] EXCEPT !.quantity = @ + quantity]
                ELSE [name |-> i.name, class |-> i.unit.class,
                      token |-> i.unit.token, quantity |-> quantity]
    IN  [k \in DOMAIN lines \cup {key} |-> IF k = key THEN line ELSE lines[k]]

Consolidate(ingredients) ==
    LET after[n \in 0 .. Len(ingredients)] ==
          IF n = 0 THEN [k \in {} |-> 0]
          ELSE IF Normalize(ingredients[n].name) \in Staples THEN after[n - 1]
          ELSE Merge(after[n - 1], ingredients[n])
    IN  after[Len(ingredients)]

(* kg from 1000 g on, rounded to two decimals. *)
DisplayAmount_Truncated(line) ==
    IF line.class = "mass" /\ line.quantity >= 1000
    THEN [hundredths |-> 100 * (line.quantity \div 1000), token |-> "kg"]
    ELSE [hundredths |-> 100 * line.quantity, token |-> "g"]
DisplayAmount(line) ==
    CASE line.class = "mass" /\ line.quantity >= 1000 ->
           [hundredths |-> (line.quantity + 5) \div 10, token |-> "kg"]
      [] line.class = "mass" /\ line.quantity < 1000 ->
           [hundredths |-> 100 * line.quantity, token |-> "g"]
      [] line.class = "count" -> [hundredths |-> 100 * line.quantity, token |-> "pcs"]
      [] line.class = "opaque" -> [hundredths |-> 100 * line.quantity, token |-> line.token]

(* The names of a list that the dictionary cannot place. *)
Unresolved(lines) ==
    {n \in Names : Dictionary[n] = None /\ \E k \in DOMAIN lines : Normalize(lines[k].name) = n}

-----------------------------------------------------------------------------
NoSections == [n \in Names |-> None]

TypeOK ==
    /\ cache \in [Names -> Categories \cup {None}]
    /\ pc \in [Builds -> Phases]
    /\ week \in [Builds -> Weeks \cup {<< >>}]
    /\ cached \in [Builds -> [Names -> Categories \cup {None}]]
    /\ out \in [Builds -> [Names -> Categories \cup {None}]]
    /\ pending \in [Builds -> SUBSET Names]
    /\ topic \in [Builds -> Names \cup {None}]
    /\ answers \in [Names -> SUBSET Categories]

Init ==
    /\ cache = NoSections
    /\ pc = [b \in Builds |-> "idle"]
    /\ week = [b \in Builds |-> << >>]
    /\ cached = [b \in Builds |-> NoSections]
    /\ out = [b \in Builds |-> NoSections]
    /\ pending = [b \in Builds |-> {}]
    /\ topic = [b \in Builds |-> None]
    /\ answers = [n \in Names |-> {}]

(* Build up to the first access of the cache, or to the end without one. *)
Start(b) ==
    /\ pc[b] = "idle"
    /\ \E w \in Weeks :
         LET names == Unresolved(Consolidate(w)) IN
         /\ week' = [week EXCEPT ![b] = w]
         /\ pending' = [pending EXCEPT ![b] = names]
         /\ pc' = [pc EXCEPT ![b] = IF names = {} THEN "done" ELSE "reading"]
    /\ UNCHANGED <<cache, cached, out, topic, answers>>

(* CategoriesByNames: one statement; if it fails, nothing was cached. *)
ReadCache(b) ==
    /\ pc[b] = "reading"
    /\ \E found \in {NoSections,
                     [n \in Names |-> IF n \in pending[b] THEN cache[n] ELSE None]} :
         /\ cached' = [cached EXCEPT ![b] = found]
         /\ out' = [out EXCEPT ![b] = found]
         /\ pending' = [pending EXCEPT ![b] = {n \in @ : found[n] = None}]
    /\ pc' = [pc EXCEPT ![b] = "resolving"]
    /\ UNCHANGED <<cache, week, topic, answers>>

(* One name after the other, in the order of a Go map: any. *)
Ask(b) ==
    /\ pc[b] = "resolving"
    /\ \E n \in pending[b] : topic' = [topic EXCEPT ![b] = n]
    /\ pc' = [pc EXCEPT ![b] = "asking"]
    /\ UNCHANGED <<cache, week, cached, out, pending, answers>>

(* The section of the topic is settled as far as this list is concerned. *)
Settle(b, c) ==
    /\ out' = [out EXCEPT ![b][topic[b]] = c]
    /\ pending' = [pending EXCEPT ![b] = @ \ {topic[b]}]

(* An answer that names no section counts as Other, and is an answer. *)
NormalizeCategory_AsIs(c) == c
NormalizeCategory(c) == IF c \in Categories THEN c ELSE Other
Answer(b) ==
    /\ pc[b] = "asking"
    /\ \E c \in Replies :
         /\ Settle(b, NormalizeCategory(c))
         /\ answers' = [answers EXCEPT ![topic[b]] = @ \cup {NormalizeCategory(c)}]
    /\ pc' = [pc EXCEPT ![b] = "saving"]
    /\ UNCHANGED <<cache, week, cached, topic>>

(* No answer, for whatever reason: Other, for this list only. *)
NoAnswer_SavedToo(b) ==
    /\ pc[b] = "asking"
    /\ Settle(b, Other)
    /\ pc' = [pc EXCEPT ![b] = "saving"]
    /\ UNCHANGED <<cache, week, cached, topic, answers>>
NoAnswer(b) ==
    /\ pc[b] = "asking"
    /\ Settle(b, Other)
    /\ pc' = [pc EXCEPT ![b] = "resolving"]
    /\ topic' = [topic EXCEPT ![b] = None]
    /\ UNCHANGED <<cache, week, cached, answers>>

(* INSERT ... ON CONFLICT DO NOTHING; a failure is logged and ignored. *)
CacheAfter_Replace(b) == [cache EXCEPT ![topic[b]] = out[b][topic[b]]]
CacheAfter(b) == [cache EXCEPT ![topic[b]] = IF @ = None THEN out[b][topic[b]] ELSE @]
SaveCategory(b) ==
    /\ pc[b] = "saving"
    /\ cache' \in {cache, CacheAfter(b)}
    /\ pc' = [pc EXCEPT ![b] = "resolving"]
    /\ topic' = [topic EXCEPT ![b] = None]
    /\ UNCHANGED <<week, cached, out, pending, answers>>

Finish(b) ==
    /\ pc[b] = "resolving"
    /\ pending[b] = {}
    /\ pc' = [pc EXCEPT ![b] = "done"]
    /\ UNCHANGED <<cache, week, cached, out, pending, topic, answers>>

(* The process ends, or a panic: the list is lost, the cache stays. *)
Abort(b) ==
    /\ pc[b] \notin {"idle", "done"}
    /\ pc' = [pc EXCEPT ![b] = "idle"]
    /\ week' = [week EXCEPT ![b] = << >>]
    /\ cached' = [cached EXCEPT ![b] = NoSections]
    /\ out' = [out EXCEPT ![b] = NoSections]
    /\ pending' = [pending EXCEPT ![b] = {}]
    /\ topic' = [topic EXCEPT ![b] = None]
    /\ UNCHANGED <<cache, answers>>

Next == \E b \in Builds :
    \/ Start(b) \/ ReadCache(b) \/ Ask(b) \/ Answer(b) \/ NoAnswer(b)
    \/ SaveCategory(b) \/ Finish(b) \/ Abort(b)

Spec == Init /\ [][Next]_vars

-----------------------------------------------------------------------------
(* The finished list: a line for every key. *)
CategoryOf_ByLine(b, line) ==
    IF Dictionary[Normalize(line.name)] # None THEN Dictionary[Normalize(line.name)]
    ELSE IF line.class = "opaque" THEN Other ELSE out[b][Normalize(line.name)]
CategoryOf(b, line) ==
    IF Dictionary[Normalize(line.name)] # None THEN Dictionary[Normalize(line.name)]
    ELSE out[b][Normalize(line.name)]
List(b) ==
    LET lines == Consolidate(week[b]) IN
    [k \in DOMAIN lines |->
       [name |-> lines[k].name, category |-> CategoryOf(b, lines[k]),
        amount |-> DisplayAmount(lines[k])]]

Finished == {b \in Builds : pc[b] = "done"}

(* What a week needs of an ingredient, in base units, from the recipes.    *)
Alike(i, j) ==
    /\ i.name[1] = j.name[1]
    /\ i.unit.class = j.unit.class
    /\ i.unit.class = "opaque" => i.unit.token = j.unit.token
Needed(w, i) ==
    MapThenFoldSet(+, 0, LAMBDA j : w[j].amount * w[j].unit.factor,
                   LAMBDA S : CHOOSE j \in S : TRUE,
                   {j \in DOMAIN w : Alike(w[i], w[j])})

(* A shown amount is exact, or within the rounding of a hundredth of a kg. *)
Shows(line, i, needed) ==
    LET amount == line.amount IN
    /\ line.name[1] = i.name[1]
    /\ \E u \in Units :
         /\ u.token = amount.token
         /\ u.class = i.unit.class
         /\ amount.hundredths * u.factor - 100 * needed
              \in IF u.factor = 1 THEN {0} ELSE -500 .. 500

(* The list is what the recipes need, whatever units and spellings they    *)
(* use: one line with the right amount for every ingredient and unit class,*)
(* none for a staple, and none that no recipe asks for.                    *)
ListAddsUp ==
    \A b \in Finished : LET list == List(b) w == week[b] IN
        /\ \A i \in DOMAIN w :
             Cardinality({k \in DOMAIN list : Shows(list[k], w[i], Needed(w, i))})
               = IF w[i].name[1] \in Staples THEN 0 ELSE 1
        /\ \A k \in DOMAIN list : \E i \in DOMAIN w : Shows(list[k], w[i], Needed(w, i))

(* Every line has a section, and an ingredient that is on two lines (in    *)
(* pieces and by weight) has one section, whoever supplied it.             *)
OneSectionPerName ==
    \A b \in Finished : LET list == List(b) IN
        \A k, l \in DOMAIN list :
            /\ list[k].category \in Categories
            /\ list[k].name[1] = list[l].name[1] => list[k].category = list[l].category

(* The cache holds answers only: a failed call is asked again next week.   *)
CacheHoldsAnswers ==
    \A n \in Names : cache[n] # None => cache[n] \in answers[n]

(* Lists agree: whatever builds overlap, what a build read from the cache  *)
(* is what the cache says ever after, and what its list shows.             *)
ListsAgree ==
    \A b \in Finished, n \in Names :
        cached[b][n] # None => cached[b][n] = cache[n] /\ out[b][n] = cache[n]
=============================================================================
