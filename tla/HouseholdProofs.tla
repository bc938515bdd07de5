--------------------------- MODULE HouseholdProofs ---------------------------
(***************************************************************************)
(* What Household keeps for any number of overlapping requests, any words  *)
(* and any spellings of them.                                              *)
(***************************************************************************)
EXTENDS Household, TLAPS

(* No list of the profile holds a word in two spellings. *)
Distinct(p) == \A list \in Lists : \A t, u \in p[list] : t[1] = u[1] => t = u

(* A profile in memory is as good as a row: it was a row once, or is a     *)
(* default; a request past Current knows a household that exists.          *)
MemoryOK(r) ==
    /\ Distinct(h[r])
    /\ pc[r] \notin {"found", "loaded"} => id[r] = r
    /\ pc[r] \in {"found", "loaded"} => id[r] \in Ids /\ ~OnlyReads(form[r])
    /\ form[r].kind = "save" => InRange(form[r].size)

IInv == TypeOK /\ TermsDistinct /\ \A r \in Requests : MemoryOK(r)

(* Form by form, what a request may carry. *)
LEMMA FormFields ==
    ASSUME NEW f \in Forms
    PROVE  /\ f.kind \in {"view", "onboard", "save", "add", "remove"}
           /\ f.kind = "save" => f.language \in Languages /\ f.size \in FormSizes
           /\ f.kind \in {"add", "remove"} => f.list \in Lists /\ f.term \in Terms \cup {Blank}
  BY DEF Forms

LEMMA DefaultsOK == /\ View \in Forms
                    /\ Nobody \in Defaults
                    /\ \A p \in Defaults : p \in Profiles /\ Distinct(p)
<1>1. DefaultPantryBasics \subseteq Terms
  BY SomeAssumption DEF DefaultPantryBasics, Terms, aSpelling
<1>2. \A t, u \in DefaultPantryBasics : t[1] = u[1] => t = u
  <2>1. \A t \in DefaultPantryBasics : t = <<t[1], aSpelling>>
    BY DEF DefaultPantryBasics
  <2> QED BY <2>1
<1>3. ASSUME NEW p \in Defaults PROVE p \in Profiles /\ Distinct(p)
  <2>1. /\ p \in [language : Languages, size : {<<2, 0>>}, onboarded : {FALSE},
                  disliked : {{}}, pantry : {DefaultPantryBasics}]
        /\ p.language \in Languages /\ p.size = <<2, 0>> /\ p.onboarded = FALSE
        /\ p.disliked = {} /\ p.pantry = DefaultPantryBasics
    BY DEF Defaults
  <2>2. p \in Profiles
    <3>1. <<2, 0>> \in Sizes
      BY DEF Sizes, minAdults, maxAdults, minKids, maxKids
    <3> QED BY <2>1, <1>1, <3>1 DEF Profiles
  <2>3. Distinct(p)
    BY <2>1, <1>2 DEF Distinct, Lists
  <2> QED BY <2>2, <2>3
<1>4. Defaults # {}
  <2>1. PICK l \in Languages : TRUE
    BY SomeAssumption
  <2>2. [language |-> l, size |-> <<2, 0>>, onboarded |-> FALSE,
         disliked |-> {}, pantry |-> DefaultPantryBasics] \in Defaults
    BY DEF Defaults
  <2> QED BY <2>2
<1> QED BY <1>3, <1>4 DEF View, Forms, Nobody

(* A form keeps a profile well-formed and its lists free of duplicates: an *)
(* add is only made when the word is absent.                               *)
LEMMA ChangeOK ==
    ASSUME NEW p \in Profiles, Distinct(p), NEW f \in Forms,
           f.kind # "view",
           f.kind = "save" => InRange(f.size),
           f.kind = "add" => f.term # Blank /\ ~Present(p, f)
    PROVE  Change(p, f) \in Profiles /\ Distinct(Change(p, f))
<1>1. CASE f.kind = "save"
  <2>1. f.size \in Sizes
    BY <1>1, FormFields, FormSizesAssumption
    DEF InRange, Sizes, minAdults, maxAdults, minKids, maxKids
  <2>2. Change(p, f) = [p EXCEPT !.language = f.language, !.size = f.size]
    BY <1>1 DEF Change
  <2> QED BY <1>1, <2>1, <2>2, FormFields DEF Profiles, Distinct, Lists
<1>2. CASE f.kind = "onboard"
  <2>1. Change(p, f) = [p EXCEPT !.onboarded = TRUE]
    BY <1>2 DEF Change
  <2> QED BY <2>1 DEF Profiles, Distinct, Lists
<1>3. CASE f.kind = "add"
  <2>1. f.term \in Terms /\ f.list \in Lists
    BY <1>3, FormFields
  <2>2. Change(p, f) = [p EXCEPT ![f.list] = @ \cup {f.term}]
    BY <1>3 DEF Change
  <2>3. \A t \in p[f.list] : t[1] # f.term[1]
    BY <1>3 DEF Present, Same
  <2>4. CASE f.list = "disliked"
    BY <2>1, <2>2, <2>3, <2>4 DEF Profiles, Distinct, Lists
  <2>5. CASE f.list = "pantry"
    BY <2>1, <2>2, <2>3, <2>5 DEF Profiles, Distinct, Lists
  <2> QED BY <2>1, <2>4, <2>5 DEF Lists
<1>4. CASE f.kind = "remove"
  <2>1. f.list \in Lists
    BY <1>4, FormFields
  <2>2. Change(p, f) = [p EXCEPT ![f.list] = {t \in @ : ~Same(t, f.term)}]
    BY <1>4 DEF Change
  <2>3. CASE f.list = "disliked"
    BY <2>2, <2>3 DEF Profiles, Distinct, Lists
  <2>4. CASE f.list = "pantry"
    BY <2>2, <2>4 DEF Profiles, Distinct, Lists
  <2> QED BY <2>1, <2>3, <2>4 DEF Lists
<1> QED BY <1>1, <1>2, <1>3, <1>4, FormFields

-----------------------------------------------------------------------------
LEMMA InitIInv == Init => IInv
  BY DefaultsOK DEF Init, IInv, TypeOK, TermsDistinct, MemoryOK, Ids, Phases, View

(* What the two ways a request goes on after Current have in common. *)
LEMMA AfterCurrentOK ==
    ASSUME IInv, NEW r \in Requests, NEW i \in Requests, AfterCurrent(r, i), i \in Ids'
    PROVE  /\ pc' \in [Requests -> Phases] /\ form' \in [Requests -> Forms]
           /\ id' \in [Requests -> Requests] /\ h' \in [Requests -> Profiles]
           /\ \A q \in Requests \ {r} : pc'[q] = pc[q] /\ form'[q] = form[q] /\ id'[q] = id[q] /\ h'[q] = h[q]
           /\ MemoryOK(r)'
<1>1. CASE OnlyReads(form[r]) /\ Finish(r)
  BY <1>1, DefaultsOK DEF IInv, TypeOK, Finish, Phases, MemoryOK, View
<1>2. CASE /\ ~OnlyReads(form[r])
           /\ pc' = [pc EXCEPT ![r] = "found"]
           /\ id' = [id EXCEPT ![r] = i]
           /\ h' = [h EXCEPT ![r] = Nobody]
           /\ UNCHANGED form
  BY <1>2, DefaultsOK DEF IInv, TypeOK, Phases, MemoryOK
<1> QED BY <1>1, <1>2 DEF AfterCurrent

(* A request is untouched by what others do, as no household is deleted. *)
LEMMA Frame ==
    ASSUME IInv, NEW q \in Requests, Ids \subseteq Ids',
           pc'[q] = pc[q], form'[q] = form[q], id'[q] = id[q], h'[q] = h[q]
    PROVE  MemoryOK(q)'
  BY DEF IInv, MemoryOK

LEMMA FinishOK ==
    ASSUME IInv, NEW r \in Requests, Finish(r)
    PROVE  /\ pc' \in [Requests -> Phases] /\ form' \in [Requests -> Forms]
           /\ id' \in [Requests -> Requests] /\ h' \in [Requests -> Profiles]
           /\ \A q \in Requests \ {r} : pc'[q] = pc[q] /\ form'[q] = form[q] /\ id'[q] = id[q] /\ h'[q] = h[q]
           /\ MemoryOK(r)'
  BY DefaultsOK DEF IInv, TypeOK, Finish, Phases, MemoryOK, View

LEMMA StepIInv == IInv /\ [Next]_vars => IInv'
<1> SUFFICES ASSUME IInv, [Next]_vars PROVE IInv'
  OBVIOUS
<1>1. ASSUME NEW r \in Requests, Begin(r) PROVE IInv'
  <2>1. rows' = rows /\ Ids' = Ids
    BY <1>1 DEF Begin, Ids
  <2>2. PICK f \in Forms : (f.kind = "save" => InRange(f.size)) /\ form' = [form EXCEPT ![r] = f]
    BY <1>1 DEF Begin
  <2>3. TypeOK' /\ TermsDistinct'
    BY <1>1, <2>1, <2>2 DEF Begin, IInv, TypeOK, TermsDistinct, Phases
  <2>4. MemoryOK(r)'
    BY <1>1, <2>2 DEF Begin, IInv, TypeOK, MemoryOK
  <2>5. ASSUME NEW q \in Requests, q # r PROVE MemoryOK(q)'
    BY <1>1, <2>1, <2>2, <2>5, Frame DEF Begin, IInv, TypeOK
  <2> QED BY <2>3, <2>4, <2>5 DEF IInv
<1>2. ASSUME NEW r \in Requests, FirstHousehold(r) PROVE IInv'
  <2>1. rows' = rows /\ Ids' = Ids
    BY <1>2 DEF FirstHousehold, Ids
  <2>2. PICK i \in Ids : AfterCurrent(r, i)
    BY <1>2 DEF FirstHousehold
  <2>3. i \in Requests /\ i \in Ids'
    BY <2>1 DEF IInv, TypeOK
  <2>5. TypeOK' /\ TermsDistinct' /\ MemoryOK(r)'
    BY <1>2, <2>1, <2>2, <2>3, AfterCurrentOK DEF FirstHousehold, IInv, TypeOK, TermsDistinct
  <2>6. ASSUME NEW q \in Requests, q # r PROVE MemoryOK(q)'
    BY <2>1, <2>2, <2>3, <2>6, AfterCurrentOK, Frame
  <2> QED BY <2>5, <2>6 DEF IInv
<1>3. ASSUME NEW r \in Requests, NoHousehold(r) PROVE IInv'
  <2>1. rows' = rows /\ Ids' = Ids
    BY <1>3 DEF NoHousehold, Ids
  <2>2. PICK p \in Defaults : h' = [h EXCEPT ![r] = p]
    BY <1>3 DEF NoHousehold
  <2>3. p \in Profiles /\ Distinct(p)
    BY DefaultsOK
  <2>4. TypeOK' /\ TermsDistinct'
    BY <1>3, <2>1, <2>2, <2>3 DEF NoHousehold, IInv, TypeOK, TermsDistinct, Phases
  <2>5. MemoryOK(r)'
    BY <1>3, <2>1, <2>2, <2>3 DEF NoHousehold, IInv, TypeOK, MemoryOK
  <2>6. ASSUME NEW q \in Requests, q # r PROVE MemoryOK(q)'
    BY <1>3, <2>1, <2>2, <2>6, Frame DEF NoHousehold, IInv, TypeOK
  <2> QED BY <2>4, <2>5, <2>6 DEF IInv
<1>4. ASSUME NEW r \in Requests, StampHousehold(r) PROVE IInv'
  <2>1. rows' = rows /\ Ids' = Ids
    BY <1>4 DEF StampHousehold, Ids
  <2>2. TypeOK' /\ TermsDistinct'
    BY <1>4, <2>1 DEF StampHousehold, IInv, TypeOK, TermsDistinct, Phases
  <2>3. MemoryOK(r)'
    BY <1>4, <2>1 DEF StampHousehold, IInv, TypeOK, MemoryOK
  <2>4. ASSUME NEW q \in Requests, q # r PROVE MemoryOK(q)'
    BY <1>4, <2>1, <2>4, Frame DEF StampHousehold, IInv, TypeOK
  <2> QED BY <2>2, <2>3, <2>4 DEF IInv
<1>5. ASSUME NEW r \in Requests, CreateHousehold(r) PROVE IInv'
  <2>1. /\ Ids' = Ids \cup {r}
        /\ \A i \in Ids' : rows'[i] = IF i = r THEN h[r] ELSE rows[i]
    BY <1>5 DEF CreateHousehold, Ids
  <2>2. AfterCurrent(r, r)
    BY <1>5 DEF CreateHousehold
  <2>3. h[r] \in Profiles /\ Distinct(h[r])
    BY DEF IInv, TypeOK, MemoryOK
  <2>4. TypeOK'
    BY <1>5, <2>1, <2>2, <2>3, AfterCurrentOK DEF CreateHousehold, IInv, TypeOK
  <2>5. TermsDistinct'
    BY <2>1, <2>3 DEF IInv, TermsDistinct, Distinct
  <2>6. MemoryOK(r)'
    BY <2>1, <2>2, AfterCurrentOK
  <2>7. ASSUME NEW q \in Requests, q # r PROVE MemoryOK(q)'
    BY <2>1, <2>2, <2>7, AfterCurrentOK, Frame
  <2> QED BY <2>4, <2>5, <2>6, <2>7 DEF IInv
<1>6. ASSUME NEW r \in Requests, GetHousehold(r) PROVE IInv'
  <2>1. rows' = rows /\ Ids' = Ids
    BY <1>6 DEF GetHousehold, Ids
  <2>2. rows[id[r]] \in Profiles /\ Distinct(rows[id[r]])
    BY <1>6 DEF GetHousehold, IInv, TypeOK, TermsDistinct, Distinct
  <2>3. TypeOK' /\ TermsDistinct'
    BY <1>6, <2>1, <2>2 DEF GetHousehold, IInv, TypeOK, TermsDistinct, Phases
  <2>4. MemoryOK(r)'
    BY <1>6, <2>1, <2>2 DEF GetHousehold, IInv, TypeOK, MemoryOK
  <2>5. ASSUME NEW q \in Requests, q # r PROVE MemoryOK(q)'
    BY <1>6, <2>1, <2>5, Frame DEF GetHousehold, IInv, TypeOK
  <2> QED BY <2>3, <2>4, <2>5 DEF IInv
<1>7. ASSUME NEW r \in Requests, AlreadyThere(r) \/ Fail(r) PROVE IInv'
  <2>1. rows' = rows /\ Ids' = Ids /\ created' = created /\ now' = now /\ Finish(r)
    BY <1>7 DEF AlreadyThere, Fail, Ids
  <2>2. TypeOK' /\ TermsDistinct' /\ MemoryOK(r)'
    BY <2>1, FinishOK DEF IInv, TypeOK, TermsDistinct
  <2>3. ASSUME NEW q \in Requests, q # r PROVE MemoryOK(q)'
    BY <2>1, <2>3, FinishOK, Frame
  <2> QED BY <2>2, <2>3 DEF IInv
<1>8. ASSUME NEW r \in Requests, UpdateHousehold(r) PROVE IInv'
  <2> DEFINE p == Change(h[r], form[r])
  <2>1. p \in Profiles /\ Distinct(p)
    <3>1. form[r] \in Forms /\ h[r] \in Profiles /\ MemoryOK(r)
      BY DEF IInv, TypeOK
    <3>2. /\ form[r].kind # "view"
          /\ form[r].kind = "save" => InRange(form[r].size)
          /\ form[r].kind = "add" => form[r].term # Blank /\ ~Present(h[r], form[r])
      BY <1>8, <3>1 DEF UpdateHousehold, MemoryOK, OnlyReads
    <3> QED BY <3>1, <3>2, ChangeOK DEF MemoryOK
  <2>2. /\ Ids' = Ids
        /\ \A i \in Ids : rows'[i] = IF i = id[r] THEN p ELSE rows[i]
    BY <1>8 DEF UpdateHousehold, Ids
  <2> HIDE DEF p
  <2>3. created' = created /\ now' = now /\ Finish(r)
    BY <1>8 DEF UpdateHousehold, StampAfterUpdate
  <2>4. TypeOK'
    BY <2>1, <2>2, <2>3, FinishOK DEF IInv, TypeOK
  <2>5. TermsDistinct'
    BY <2>1, <2>2 DEF IInv, TermsDistinct, Distinct
  <2>6. \A q \in Requests : MemoryOK(q)'
    BY <2>2, <2>3, FinishOK, Frame
  <2> QED BY <2>4, <2>5, <2>6 DEF IInv
<1>9. ASSUME UNCHANGED vars PROVE IInv'
  BY <1>9 DEF vars, IInv, TypeOK, TermsDistinct, MemoryOK, Ids
<1> QED
  BY <1>1, <1>2, <1>3, <1>4, <1>5, <1>6, <1>7, <1>8, <1>9 DEF Next, Current, Write

LEMMA IInvAlways == Spec => []IInv
  BY InitIInv, StepIInv, PTL DEF Spec

(* Every row, and every profile a request writes next, is a profile: its   *)
(* family size is in range whatever forms were sent.                       *)
THEOREM ProfilesWellFormed == Spec => []TypeOK
  BY IInvAlways, PTL DEF IInv

(* No interleaving of adds, removes and whole-row writes puts a word twice *)
(* into a list.                                                            *)
THEOREM NoDuplicateTerms == Spec => []TermsDistinct
  BY IInvAlways, PTL DEF IInv

(* The row that the query sorts first. *)
Oldest(S, c) == CHOOSE i \in S : i \in S /\ \A j \in S : c[i] <= c[j]

LEMMA FirstIsOldest == First = Oldest(Ids, created) /\ First' = Oldest(Ids', created')
  BY DEF First, IsFirst, Oldest

(* Once a household exists and nobody is about to insert another, it is    *)
(* the one that every later request finds.                                 *)
THEOREM OneIdentityInTheEnd == Spec => IdentitySettles
<1> DEFINE Settled == Ids # {} /\ Creators = {} => Ids' = Ids /\ First' = First
<1>1. ASSUME IInv, Next, Creators = {} PROVE Ids' = Ids /\ created' = created
  <2>1. PICK r \in Requests : Begin(r) \/ Current(r) \/ Write(r) \/ Fail(r)
    BY <1>1 DEF Next
  <2>2. ~StampHousehold(r) /\ ~CreateHousehold(r)
    BY <1>1 DEF Creators, StampHousehold, CreateHousehold
  <2>3. CASE UpdateHousehold(r)
    BY <2>3 DEF UpdateHousehold, StampAfterUpdate, Ids
  <2>4. CASE ~UpdateHousehold(r)
    BY <2>1, <2>2, <2>4 DEF Begin, Current, Write, Fail, FirstHousehold, NoHousehold,
       GetHousehold, AlreadyThere, Ids
  <2> QED BY <2>3, <2>4
<1>2. IInv /\ [Next]_vars => [Settled]_vars
  BY <1>1, FirstIsOldest
<1> QED BY <1>2, IInvAlways, PTL DEF Spec, IdentitySettles

-----------------------------------------------------------------------------
(* What the screens may make of a profile in one step. *)
Promised(p, q) ==
    \/ \E lang \in Languages, size \in Sizes : q = [p EXCEPT !.language = lang, !.size = size]
    \/ q = [p EXCEPT !.onboarded = TRUE]
    \/ \E list \in Lists, word \in Words, spelling \in Spellings :
         /\ \A t \in p[list] : t[1] # word
         /\ q = [p EXCEPT ![list] = @ \cup {<<word, spelling>>}]
    \/ \E list \in Lists, word \in Words :
         q = [p EXCEPT ![list] = {t \in @ : t[1] # word}]

(* A form makes of a profile what the screens promise, or nothing: there   *)
(* may be no such word to remove.                                          *)
LEMMA ChangePromised ==
    ASSUME NEW p \in Profiles, NEW f \in Forms, f.kind # "view",
           f.kind = "save" => InRange(f.size),
           f.kind = "add" => f.term # Blank /\ ~Present(p, f)
    PROVE  Change(p, f) = p \/ Promised(p, Change(p, f))
<1>1. CASE f.kind = "save"
  <2>1. f.size \in Sizes /\ f.language \in Languages
    BY <1>1, FormFields, FormSizesAssumption
    DEF InRange, Sizes, minAdults, maxAdults, minKids, maxKids
  <2>2. Change(p, f) = [p EXCEPT !.language = f.language, !.size = f.size]
    BY <1>1 DEF Change
  <2> QED
    BY <2>1, <2>2 DEF Promised
<1>2. CASE f.kind = "onboard"
  BY <1>2 DEF Change, Promised
<1>3. CASE f.kind = "add"
  <2>1. f.term \in Terms /\ f.list \in Lists
    BY <1>3, FormFields
  <2>2. Change(p, f) = [p EXCEPT ![f.list] = @ \cup {f.term}]
    BY <1>3 DEF Change
  <2>3. PICK word \in Words, spelling \in Spellings : f.term = <<word, spelling>>
    BY <2>1 DEF Terms
  <2>4. \A t \in p[f.list] : t[1] # word
    BY <1>3, <2>3 DEF Present, Same
  <2>5. Change(p, f) = [p EXCEPT ![f.list] = @ \cup {<<word, spelling>>}]
    BY <2>2, <2>3
  <2> QED
    BY <2>1, <2>4, <2>5, Zenon DEF Promised
<1>4. CASE f.kind = "remove"
  <2>1. f.term \in Terms \cup {Blank} /\ f.list \in Lists
    BY <1>4, FormFields
  <2>2. Change(p, f) = [p EXCEPT ![f.list] = {t \in @ : ~Same(t, f.term)}]
    BY <1>4 DEF Change
  <2>3. CASE f.term = Blank
    <3>1. {t \in p[f.list] : ~Same(t, f.term)} = p[f.list]
      BY <2>3 DEF Same
    <3> QED
      BY <2>1, <2>2, <3>1 DEF Profiles, Lists
  <2>4. CASE f.term # Blank
    <3>1. PICK word \in Words : f.term[1] = word
      BY <2>1, <2>4 DEF Terms
    <3>2. {t \in p[f.list] : ~Same(t, f.term)} = {t \in p[f.list] : t[1] # word}
      BY <2>4, <3>1 DEF Same
    <3>3. Change(p, f) = [p EXCEPT ![f.list] = {t \in @ : t[1] # word}]
      BY <2>2, <3>2
    <3> QED
      BY <2>1, <3>3, Zenon DEF Promised
  <2> QED
    BY <2>3, <2>4
<1> QED
  BY <1>1, <1>2, <1>3, <1>4, FormFields

(* A household is created once, by the request that it is named after, and *)
(* with defaults.                                                          *)
Newborn(r) ==
    /\ pc[r] \in {"idle", "looking", "creating", "inserting"} => r \notin Ids
    /\ pc[r] \in {"creating", "inserting"} => h[r] \in Defaults
PInv == \A r \in Requests : Newborn(r)

(* What a step does to the table. *)
Inserts(r) ==
    /\ pc[r] = "inserting"
    /\ Ids' = Ids \cup {r} /\ rows'[r] = h[r]
    /\ \A i \in Ids \ {r} : rows'[i] = rows[i]
    /\ created' = created
Updates(r) ==
    /\ pc[r] = "loaded" /\ pc'[r] = "done" /\ id[r] \in Ids
    /\ Ids' = Ids
    /\ h[r] = rows'[id[r]] \/ Promised(h[r], rows'[id[r]])
    /\ \A i \in Ids \ {id[r]} : rows'[i] = rows[i]
    /\ created' = created

LEMMA StepKinds ==
    ASSUME IInv, NEW r \in Requests, Begin(r) \/ Current(r) \/ Write(r) \/ Fail(r)
    PROVE  \/ rows' = rows /\ Ids' = Ids
           \/ CreateHousehold(r) /\ Inserts(r)
           \/ UpdateHousehold(r) /\ Updates(r)
<1>1. CASE CreateHousehold(r)
  BY <1>1 DEF CreateHousehold, Inserts, Ids
<1>2. CASE UpdateHousehold(r)
  <2>1. form[r] \in Forms /\ h[r] \in Profiles /\ MemoryOK(r)
    BY DEF IInv, TypeOK
  <2>2. Change(h[r], form[r]) = h[r] \/ Promised(h[r], Change(h[r], form[r]))
    <3>1. /\ form[r].kind # "view"
          /\ form[r].kind = "save" => InRange(form[r].size)
          /\ form[r].kind = "add" => form[r].term # Blank /\ ~Present(h[r], form[r])
      BY <1>2, <2>1 DEF UpdateHousehold, MemoryOK, OnlyReads
    <3> QED
      BY <2>1, <3>1, ChangePromised
  <2>3. rows' = [rows EXCEPT ![id[r]] = Change(h[r], form[r])] /\ id[r] \in Ids /\ pc[r] = "loaded"
    BY <1>2 DEF UpdateHousehold
  <2>4. Ids' = Ids /\ rows'[id[r]] = Change(h[r], form[r]) /\ \A i \in Ids \ {id[r]} : rows'[i] = rows[i]
    BY <2>3 DEF Ids
  <2>5. pc'[r] = "done" /\ created' = created
    BY <1>2 DEF UpdateHousehold, Finish, StampAfterUpdate, IInv, TypeOK
  <2> QED
    BY <1>2, <2>2, <2>3, <2>4, <2>5 DEF Updates
<1>3. CASE ~CreateHousehold(r) /\ ~UpdateHousehold(r)
  BY <1>3 DEF Begin, Current, Write, Fail, FirstHousehold, NoHousehold, StampHousehold,
     GetHousehold, AlreadyThere, Ids
<1> QED
  BY <1>1, <1>2, <1>3

LEMMA InitPInv == Init => PInv
  BY DEF Init, PInv, Newborn, Ids

LEMMA StepPInv == IInv /\ PInv /\ [Next]_vars => PInv'
<1> SUFFICES ASSUME IInv, PInv, [Next]_vars, NEW q \in Requests PROVE Newborn(q)'
  BY DEF PInv
<1>0. TypeOK /\ Newborn(q)
  BY DEF IInv, PInv
<1>1. CASE UNCHANGED vars
  BY <1>0, <1>1 DEF vars, Newborn, Ids
<1>2. ASSUME NEW r \in Requests, Begin(r) \/ Current(r) \/ Write(r) \/ Fail(r) PROVE Newborn(q)'
  <2>1. r # q => UNCHANGED <<pc[q], h[q]>>
    BY <1>0, <1>2 DEF Begin, Current, Write, Fail, FirstHousehold, NoHousehold, StampHousehold,
       CreateHousehold, GetHousehold, AlreadyThere, UpdateHousehold, AfterCurrent, Finish, TypeOK
  <2>2. CASE rows' = rows /\ Ids' = Ids
    <3>1. /\ pc'[r] \in {"idle", "looking", "creating", "inserting"} => 
               pc[r] \in {"idle", "looking", "creating", "inserting"}
          /\ pc'[r] \in {"creating", "inserting"} =>
               h'[r] \in Defaults \/ (pc[r] \in {"creating", "inserting"} /\ h'[r] = h[r])
      BY <1>0, <1>2 DEF Begin, Current, Write, Fail, FirstHousehold, NoHousehold, StampHousehold,
         CreateHousehold, GetHousehold, AlreadyThere, UpdateHousehold, AfterCurrent, Finish, TypeOK
    <3> QED
      BY <1>0, <2>1, <2>2, <3>1 DEF Newborn
  <2>3. CASE CreateHousehold(r) /\ Inserts(r)
    <3>1. pc'[r] \in {"found", "done"}
      BY <1>0, <2>3 DEF CreateHousehold, AfterCurrent, Finish, TypeOK
    <3> QED
      BY <1>0, <2>1, <2>3, <3>1 DEF Newborn, Inserts
  <2>4. CASE UpdateHousehold(r) /\ Updates(r)
    BY <1>0, <2>1, <2>4 DEF Newborn, Updates
  <2> QED
    BY <1>2, <2>2, <2>3, <2>4, StepKinds
<1> QED
  BY <1>1, <1>2 DEF Next

LEMMA PInvAlways == Spec => []PInv
  BY InitPInv, StepPInv, IInvAlways, PTL DEF Spec

(* Such a change is one of Profile's steps. *)
LEMMA PromisedIsNext ==
    ASSUME NEW i \in Ids, i \in Ids', Promised(rows[i], rows'[i])
    PROVE  Of(i)!Next
<1>1. ASSUME NEW lang \in Languages, NEW size \in Sizes,
             rows'[i] = [rows[i] EXCEPT !.language = lang, !.size = size]
      PROVE  Of(i)!Next
  BY <1>1, Zenon DEF Of!Next, Of!Save
<1>2. ASSUME rows'[i] = [rows[i] EXCEPT !.onboarded = TRUE] PROVE Of(i)!Next
  BY <1>2, Zenon DEF Of!Next, Of!CompleteOnboarding
<1>3. ASSUME NEW list \in Lists, NEW word \in Words, NEW spelling \in Spellings,
             \A t \in rows[i][list] : t[1] # word,
             rows'[i] = [rows[i] EXCEPT ![list] = @ \cup {<<word, spelling>>}]
      PROVE  Of(i)!Next
  <2>1. {t \in rows[i][list] : t[1] = word} = {}
    BY <1>3
  <2> QED
    BY <1>3, <2>1, Zenon DEF Of!Next, Of!Add, Of!SpellingsIn, Lists, Of!Lists
<1>4. ASSUME NEW list \in Lists, NEW word \in Words,
             rows'[i] = [rows[i] EXCEPT ![list] = {t \in @ : t[1] # word}]
      PROVE  Of(i)!Next
  <2>1. {t \in rows[i][list] : t[1] # word} = rows[i][list] \ {t \in rows[i][list] : t[1] = word}
    OBVIOUS
  <2>2. rows'[i] = [rows[i] EXCEPT ![list] = @ \ {t \in rows[i][list] : t[1] = word}]
    BY <1>4, <2>1
  <2> QED
    BY <1>4, <2>2, Zenon DEF Of!Next, Of!Remove, Of!SpellingsIn, Lists, Of!Lists
<1>5. CASE \E lang \in Languages, size \in Sizes :
             rows'[i] = [rows[i] EXCEPT !.language = lang, !.size = size]
  BY <1>1, <1>5, Zenon
<1>6. CASE rows'[i] = [rows[i] EXCEPT !.onboarded = TRUE]
  BY <1>2, <1>6, Zenon
<1>7. CASE \E list \in Lists, word \in Words, spelling \in Spellings :
             /\ \A t \in rows[i][list] : t[1] # word
             /\ rows'[i] = [rows[i] EXCEPT ![list] = @ \cup {<<word, spelling>>}]
  BY <1>3, <1>7, Zenon
<1>8. CASE \E list \in Lists, word \in Words :
             rows'[i] = [rows[i] EXCEPT ![list] = {t \in @ : t[1] # word}]
  BY <1>4, <1>8, Zenon
<1> QED
  BY <1>5, <1>6, <1>7, <1>8, Zenon DEF Promised

(* A household is changed only as the screens promise, whatever requests   *)
(* overlap, unless a row that was read before is written back.             *)
THEOREM PromiseKeptUncontended == Spec => UncontendedKeepsPromise
<1> DEFINE Kept(i) ==
             \/ \E r \in Requests : id[r] = i /\ StaleWrite(r)
             \/ Of(i)!Next
             \/ UNCHANGED (i \in Ids) /\ (i \in Ids => rows'[i] = rows[i])
<1>1. ASSUME IInv, PInv, NEW i \in Requests, NEW r \in Requests,
             Begin(r) \/ Current(r) \/ Write(r) \/ Fail(r)
      PROVE  Kept(i)
  <2>1. CASE rows' = rows /\ Ids' = Ids
    BY <2>1
  <2>2. CASE Inserts(r)
    <3>1. r \notin Ids /\ h[r] \in Defaults
      BY <1>1, <2>2 DEF PInv, Newborn, Inserts
    <3>2. CASE i = r
      BY <2>2, <3>1, <3>2 DEF Inserts, Of!Next, Of!Open
    <3>3. CASE i # r
      BY <2>2, <3>3 DEF Inserts
    <3> QED
      BY <3>2, <3>3
  <2>3. CASE Updates(r)
    <3>1. CASE i # id[r]
      BY <2>3, <3>1 DEF Updates
    <3>2. CASE i = id[r] /\ h[r] # rows[id[r]]
      BY <2>3, <3>2 DEF Updates, StaleWrite
    <3>3. CASE i = id[r] /\ h[r] = rows[id[r]]
      <4>1. i \in Ids /\ i \in Ids' /\ (rows'[i] = rows[i] \/ Promised(rows[i], rows'[i]))
        BY <2>3, <3>3 DEF Updates
      <4> QED
        BY <4>1, PromisedIsNext, Zenon
    <3> QED
      BY <3>1, <3>2, <3>3
  <2> QED
    BY <1>1, <2>1, <2>2, <2>3, StepKinds
<1>2. ASSUME NEW i \in Requests, UNCHANGED vars PROVE Kept(i)
  BY <1>2 DEF vars, Ids
<1>3. IInv /\ PInv /\ [Next]_vars => [\A i \in Requests : Kept(i)]_vars
  BY <1>1, <1>2 DEF Next
<1> QED
  BY <1>3, IInvAlways, PInvAlways, PTL DEF Spec, UncontendedKeepsPromise

-----------------------------------------------------------------------------
(* One request at a time.                                                  *)

(* Then there is one household at most; a request creates it only while    *)
(* there is none, and writes back the row as it is.                        *)
AloneOK(r) ==
    /\ r \in InFlight => InFlight = {r}
    /\ pc[r] \in {"creating", "inserting"} => Ids = {}
    /\ pc[r] = "loaded" => h[r] = rows[id[r]]
AInv ==
    /\ \A i \in Ids : Ids = {i}
    /\ \A r \in Requests : AloneOK(r)

LEMMA InitAInv == Init => AInv
  BY DEF Init, AInv, AloneOK, InFlight, Ids

LEMMA StepAInv == ASSUME OneAtATime, IInv, AInv, [Next]_vars PROVE AInv'
<1>0. TypeOK
  BY DEF IInv
<1>1. CASE UNCHANGED vars
  BY <1>1 DEF vars, AInv, AloneOK, InFlight, Ids
<1>2. ASSUME NEW r \in Requests, Begin(r) \/ Current(r) \/ Write(r) \/ Fail(r) PROVE AInv'
  <2>1. InFlight \subseteq {r}
    <3>1. CASE Begin(r)
      BY <3>1 DEF Begin
    <3>2. CASE ~Begin(r)
      BY <1>2, <3>2 DEF AInv, AloneOK, InFlight, Current, Write, Fail, FirstHousehold, NoHousehold,
         StampHousehold, CreateHousehold, GetHousehold, AlreadyThere, UpdateHousehold
    <3> QED
      BY <3>1, <3>2
  <2>2. \A q \in Requests : q # r => pc'[q] = pc[q]
    BY <1>0, <1>2 DEF Begin, Current, Write, Fail, FirstHousehold, NoHousehold, StampHousehold,
       CreateHousehold, GetHousehold, AlreadyThere, UpdateHousehold, AfterCurrent, Finish, TypeOK
  <2>3. InFlight' \subseteq {r}
    BY <2>1, <2>2 DEF InFlight
  <2>4. ASSUME NEW q \in Requests, q # r PROVE AloneOK(q)'
    BY <2>3, <2>4 DEF AloneOK, InFlight
  <2>5. r \in InFlight' => InFlight' = {r}
    BY <2>3
  <2>6. CASE rows' = rows /\ Ids' = Ids
    <3>1. pc'[r] \in {"creating", "inserting"} => Ids = {}
      BY <1>0, <1>2 DEF AInv, AloneOK, Begin, Current, Write, Fail, FirstHousehold, NoHousehold,
         StampHousehold, CreateHousehold, GetHousehold, AlreadyThere, UpdateHousehold, AfterCurrent,
         Finish, TypeOK
    <3>2. pc'[r] = "loaded" => h'[r] = rows[id'[r]]
      BY <1>0, <1>2 DEF Begin, Current, Write, Fail, FirstHousehold, NoHousehold,
         StampHousehold, CreateHousehold, GetHousehold, AlreadyThere, UpdateHousehold, AfterCurrent,
         Finish, TypeOK
    <3> QED
      BY <2>4, <2>5, <2>6, <3>1, <3>2 DEF AInv, AloneOK
  <2>7. CASE CreateHousehold(r) /\ Inserts(r)
    <3>1. pc'[r] \in {"found", "done"}
      BY <1>0, <2>7 DEF CreateHousehold, AfterCurrent, Finish, TypeOK
    <3>2. Ids' = {r}
      BY <2>7 DEF Inserts, AInv, AloneOK
    <3> QED
      BY <2>4, <2>5, <3>1, <3>2 DEF AInv, AloneOK
  <2>8. CASE UpdateHousehold(r) /\ Updates(r)
    BY <2>4, <2>5, <2>8 DEF AInv, AloneOK, Updates
  <2> QED
    BY <1>2, <2>6, <2>7, <2>8, StepKinds
<1> QED
  BY <1>1, <1>2 DEF Next

(* The only household is the oldest. *)
LEMMA OldestOfOne == ASSUME NEW i, NEW c, c[i] \in Nat PROVE Oldest({i}, c) = i
  BY DEF Oldest

(* A step gives the one household, or changes the one there is.            *)
AloneStep ==
    \/ Ids = {} /\ Ids' = {}
    \/ Ids = {} /\ \E i \in Requests : Ids' = {i} /\ First' = i /\ rows'[i] \in Defaults
    \/ \E i \in Requests :
         /\ Ids = {i} /\ First = i /\ Ids' = {i} /\ First' = i
         /\ rows'[i] = rows[i] \/ Promised(rows[i], rows'[i])

LEMMA AloneSteps ==
    ASSUME IInv, PInv, AInv, IInv', AInv', [Next]_vars
    PROVE  AloneStep
<1>1. ASSUME NEW i \in Ids PROVE i \in Requests /\ Ids = {i} /\ First = i
  BY FirstIsOldest, OldestOfOne DEF IInv, TypeOK, AInv
<1>2. ASSUME NEW i \in Ids' PROVE i \in Requests /\ Ids' = {i} /\ First' = i
  BY FirstIsOldest, OldestOfOne DEF IInv, TypeOK, AInv
<1>3. CASE rows' = rows /\ Ids' = Ids
  BY <1>1, <1>2, <1>3 DEF AloneStep
<1>4. ASSUME NEW r \in Requests, Inserts(r) PROVE AloneStep
  <2>1. Ids = {} /\ r \in Ids'
    BY <1>4 DEF AInv, AloneOK, Inserts
  <2>2. rows'[r] \in Defaults
    BY <1>4 DEF PInv, Newborn, Inserts
  <2> QED
    BY <1>2, <2>1, <2>2 DEF AloneStep
<1>5. ASSUME NEW r \in Requests, Updates(r) PROVE AloneStep
  <2>1. id[r] \in Ids /\ id[r] \in Ids'
    BY <1>5 DEF Updates
  <2>2. h[r] = rows[id[r]]
    BY <1>5 DEF Updates, AInv, AloneOK
  <2>3. rows'[id[r]] = rows[id[r]] \/ Promised(rows[id[r]], rows'[id[r]])
    BY <1>5, <2>2 DEF Updates
  <2> QED
    BY <1>1, <1>2, <2>1, <2>3 DEF AloneStep
<1>6. CASE UNCHANGED vars
  BY <1>3, <1>6 DEF vars, Ids
<1> QED
  BY <1>3, <1>4, <1>5, <1>6, StepKinds DEF Next

LEMMA AInvAlways == OneAtATime /\ Spec => [](IInv /\ PInv /\ AInv)
<1>1. OneAtATime /\ IInv /\ AInv /\ [Next]_vars => AInv'
  BY StepAInv
<1>2. CASE OneAtATime
  BY <1>1, <1>2, InitAInv, IInvAlways, PInvAlways, PTL DEF Spec
<1>3. CASE ~OneAtATime
  BY <1>3
<1> QED
  BY <1>2, <1>3

(* One request at a time, "the wizard never shows again": once the first   *)
(* household is onboarded, it stays the first and onboarded.               *)
THEOREM WizardNeverShowsAgain == OneAtATime /\ Spec => WizardStaysDone
<1> DEFINE Stays == Ids # {} /\ rows[First].onboarded => rows'[First'].onboarded
<1>1. ASSUME IInv, AloneStep PROVE Stays
  <2> SUFFICES ASSUME NEW i \in Requests, Ids = {i}, First = i, First' = i,
                      rows[i].onboarded, Promised(rows[i], rows'[i])
               PROVE  rows'[i].onboarded
    BY <1>1 DEF AloneStep
  <2>1. rows[i] \in Profiles
    BY <1>1 DEF IInv, TypeOK
  <2> QED
    BY <2>1 DEF Promised, Profiles, Lists
<1>2. IInv /\ PInv /\ AInv /\ IInv' /\ AInv' /\ [Next]_vars => [Stays]_vars
  BY <1>1, AloneSteps
<1>3. CASE OneAtATime
  BY <1>2, <1>3, AInvAlways, PTL DEF Spec, WizardStaysDone
<1>4. CASE ~OneAtATime
  BY <1>4
<1> QED
  BY <1>3, <1>4

(* One request at a time, the requests implement Profile: what the         *)
(* settings screens promise of the one household there is.                 *)
THEOREM AloneKeepsPromise == OneAtATime /\ Spec => KeepsPromise
<1> DEFINE seen == IF Ids = {} THEN {} ELSE {rows[First]}
<1>1. Init => Promise!Init
  BY DEF Init, Promise!Init, Ids
<1>2. ASSUME AloneStep PROVE Promise!Next \/ seen' = seen
  <2>1. CASE Ids = {} /\ Ids' = {}
    BY <2>1
  <2>2. CASE Ids = {} /\ \E i \in Requests : Ids' = {i} /\ First' = i /\ rows'[i] \in Defaults
    <3>1. Promise!Open
      BY <2>2 DEF Promise!Open
    <3> QED
      BY <3>1 DEF Promise!Next
  <2>3. ASSUME NEW i \in Requests, Ids = {i}, First = i, Ids' = {i}, First' = i,
               rows'[i] = rows[i]
        PROVE  seen' = seen
    BY <2>3
  <2>4. ASSUME NEW i \in Requests, Ids = {i}, First = i, Ids' = {i}, First' = i,
               Promised(rows[i], rows'[i])
        PROVE  Promise!Next
    <3>1. Of(i)!Next
      BY <2>4, PromisedIsNext
    <3>2. (IF i \in Ids THEN {rows[i]} ELSE {}) = (IF Ids = {} THEN {} ELSE {rows[First]})
      BY <2>4
    <3>3. (IF i \in Ids' THEN {rows'[i]} ELSE {}) = (IF Ids' = {} THEN {} ELSE {rows'[First']})
      BY <2>4
    <3>4. Of(i)!Open => Promise!Open
      BY <3>2, <3>3, Zenon DEF Of!Open, Promise!Open
    <3>5. ASSUME Of(i)!Save PROVE Promise!Save
      <4>1. PICK p \in (IF i \in Ids THEN {rows[i]} ELSE {}), lang \in Languages, size \in Sizes :
              (IF i \in Ids' THEN {rows'[i]} ELSE {}) = {[p EXCEPT !.language = lang, !.size = size]}
        BY <3>5, Zenon DEF Of!Save
      <4>2. /\ p \in (IF Ids = {} THEN {} ELSE {rows[First]})
            /\ (IF Ids' = {} THEN {} ELSE {rows'[First']}) = {[p EXCEPT !.language = lang, !.size = size]}
        BY <3>2, <3>3, <4>1, Zenon
      <4> QED
        BY <4>2, Zenon DEF Promise!Save
    <3>6. Of(i)!CompleteOnboarding => Promise!CompleteOnboarding
      BY <3>2, <3>3, Zenon DEF Of!CompleteOnboarding, Promise!CompleteOnboarding
    <3>7. ASSUME Of(i)!Add PROVE Promise!Add
      <4>1. PICK p \in (IF i \in Ids THEN {rows[i]} ELSE {}), list \in Lists, word \in Words,
                 spelling \in Spellings :
              /\ {t \in p[list] : t[1] = word} = {}
              /\ (IF i \in Ids' THEN {rows'[i]} ELSE {}) = {[p EXCEPT ![list] = @ \cup {<<word, spelling>>}]}
        BY <3>7, Zenon DEF Of!Add, Of!Lists, Of!SpellingsIn, Lists
      <4>2. /\ p \in (IF Ids = {} THEN {} ELSE {rows[First]})
            /\ (IF Ids' = {} THEN {} ELSE {rows'[First']}) = {[p EXCEPT ![list] = @ \cup {<<word, spelling>>}]}
        BY <3>2, <3>3, <4>1, Zenon
      <4> QED
        BY <4>1, <4>2, Zenon DEF Promise!Add, Promise!Lists, Promise!SpellingsIn, Lists
    <3>8. ASSUME Of(i)!Remove PROVE Promise!Remove
      <4>1. PICK p \in (IF i \in Ids THEN {rows[i]} ELSE {}), list \in Lists, word \in Words :
              (IF i \in Ids' THEN {rows'[i]} ELSE {}) = {[p EXCEPT ![list] = @ \ {t \in p[list] : t[1] = word}]}
        BY <3>8, Zenon DEF Of!Remove, Of!Lists, Of!SpellingsIn, Lists
      <4>2. /\ p \in (IF Ids = {} THEN {} ELSE {rows[First]})
            /\ (IF Ids' = {} THEN {} ELSE {rows'[First']})
                 = {[p EXCEPT ![list] = @ \ {t \in p[list] : t[1] = word}]}
        BY <3>2, <3>3, <4>1, Zenon
      <4> QED
        BY <4>2, Zenon DEF Promise!Remove, Promise!Lists, Promise!SpellingsIn, Lists
    <3> QED
      BY <3>1, <3>4, <3>5, <3>6, <3>7, <3>8, Zenon DEF Of!Next, Promise!Next
  <2> QED
    BY <1>2, <2>1, <2>2, <2>3, <2>4 DEF AloneStep
<1>3. IInv /\ PInv /\ AInv /\ IInv' /\ AInv' /\ [Next]_vars => [Promise!Next]_seen
  BY <1>2, AloneSteps
<1>4. CASE OneAtATime
  BY <1>1, <1>3, <1>4, AInvAlways, PTL DEF Spec, KeepsPromise, Promise!Spec
<1>5. CASE ~OneAtATime
  BY <1>5
<1> QED
  BY <1>4, <1>5
=============================================================================
