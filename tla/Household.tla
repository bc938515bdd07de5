----------------------------- MODULE Household -----------------------------
(***************************************************************************)
(* The household profile and the requests that read and write it: every    *)
(* page load asks for the current household and creates it on first        *)
(* access; the settings and onboarding forms then read the row, change it  *)
(* in memory and write the whole row back.                                 *)
(*                                                                         *)
(* No transaction spans these statements, so requests interleave between   *)
(* any two of them.  CreateHousehold takes its created_at before the       *)
(* INSERT waits for the pool's one connection, so the row that is inserted *)
(* first need not be the oldest, which is the one FirstHousehold finds.    *)
(*                                                                         *)
(* A term is a word and a spelling of it: strings.EqualFold sees the word. *)
(* An operator with an underscore in its name is not the program, but a    *)
(* slip in the definition that follows it.                                 *)
(***************************************************************************)
EXTENDS Integers

CONSTANTS
    Requests,        \* each performs one form, once
    Languages,
    Words, Spellings,
    FormSizes,       \* the <<adults, kids>> a form may carry, in range or not
    Blank,           \* the term that is only whitespace
    OneAtATime       \* TRUE: a request starts only when no other is running

ASSUME BlankAssumption == Blank \notin Words \X Spellings
ASSUME FormSizesAssumption == FormSizes \subseteq Int \X Int
ASSUME SomeAssumption == Languages # {} /\ Spellings # {}

minAdults == 1
maxAdults == 6
minKids == 0
maxKids == 6

Terms == Words \X Spellings
Lists == {"disliked", "pantry"}
Sizes == (minAdults .. maxAdults) \X (minKids .. maxKids)

Profiles == [language : Languages, size : Sizes, onboarded : BOOLEAN,
             disliked : SUBSET Terms, pantry : SUBSET Terms]

(* The staples a new household starts with are distinct words. *)
aSpelling == CHOOSE s \in Spellings : TRUE
DefaultPantryBasics == {<<w, aSpelling>> : w \in Words}
Defaults ==
    [language : Languages, size : {<<2, 0>>}, onboarded : {FALSE},
     disliked : {{}}, pantry : {DefaultPantryBasics}]

(* What a request asks for. *)
Forms ==
    [kind : {"view", "onboard"}]
    \cup [kind : {"save"}, language : Languages, size : FormSizes]
    \cup [kind : {"add", "remove"}, list : Lists, term : Terms \cup {Blank}]

VARIABLES
    rows,     \* table household_profile: a function from ids to profiles
    created,  \* table household_profile: created_at of every id
    now,      \* the wall clock
    pc,       \* where each request stands
    form,     \* per request: what it was asked to do
    id,       \* per request: the household it found or creates
    h         \* per request: the profile in memory

vars == <<rows, created, now, pc, form, id, h>>

Phases == {"idle", "looking", "creating", "inserting", "found", "loaded", "done"}

Nobody == CHOOSE p \in Defaults : TRUE
View == [kind |-> "view"]

(* A household is named after the request that creates it. *)
Ids == DOMAIN rows

TypeOK ==
    /\ Ids \subseteq Requests
    /\ \A i \in Ids : rows[i] \in Profiles
    /\ created \in [Requests -> Nat]
    /\ now \in Nat
    /\ pc \in [Requests -> Phases]
    /\ form \in [Requests -> Forms]
    /\ id \in [Requests -> Requests]
    /\ h \in [Requests -> Profiles]

Init ==
    /\ rows = [i \in {} |-> Nobody]
    /\ created = [r \in Requests |-> 0]
    /\ now = 0
    /\ pc = [r \in Requests |-> "idle"]
    /\ form = [r \in Requests |-> View]
    /\ id = [r \in Requests |-> r]
    /\ h = [r \in Requests |-> Nobody]

-----------------------------------------------------------------------------
(* SELECT ... ORDER BY created_at ASC LIMIT 1. *)
IsFirst(i) == i \in Ids /\ \A j \in Ids : created[i] <= created[j]
First == CHOOSE i \in Ids : IsFirst(i)

(* The form is validated before anything is read. *)
InRange_NoUpperBound(size) == size[1] >= minAdults /\ size[2] >= minKids
InRange(size) ==
    /\ size[1] >= minAdults /\ size[1] <= maxAdults
    /\ size[2] >= minKids /\ size[2] <= maxKids

(* strings.EqualFold(strings.TrimSpace(existing), term). *)
Same_Exact(existing, term) == existing = term
Same(existing, term) == term # Blank /\ existing[1] = term[1]

(* AddDisliked and AddPantryBasic return early, without a write. *)
Present(p, f) == \E t \in p[f.list] : Same(t, f.term)

(* The profile a form makes of the one that was read. *)
Change_OnboardingReset(p, f) ==
    CASE f.kind = "save" ->
           [p EXCEPT !.language = f.language, !.size = f.size, !.onboarded = FALSE]
      [] f.kind = "onboard" -> [p EXCEPT !.onboarded = TRUE]
      [] f.kind = "add" -> [p EXCEPT ![f.list] = @ \cup {f.term}]
      [] f.kind = "remove" -> [p EXCEPT ![f.list] = {t \in @ : ~Same(t, f.term)}]
Change(p, f) ==
    CASE f.kind = "save" -> [p EXCEPT !.language = f.language, !.size = f.size]
      [] f.kind = "onboard" -> [p EXCEPT !.onboarded = TRUE]
      [] f.kind = "add" -> [p EXCEPT ![f.list] = @ \cup {f.term}]
      [] f.kind = "remove" -> [p EXCEPT ![f.list] = {t \in @ : ~Same(t, f.term)}]

(* The answer is sent. *)
Finish(r) ==
    /\ pc' = [pc EXCEPT ![r] = "done"]
    /\ form' = [form EXCEPT ![r] = View]
    /\ id' = [id EXCEPT ![r] = r]
    /\ h' = [h EXCEPT ![r] = Nobody]

(* After Current a page load has what it needs, and so has an add that     *)
(* carries nothing: ErrEmptyIngredient.                                    *)
OnlyReads(f) == f.kind = "view" \/ (f.kind = "add" /\ f.term = Blank)
AfterCurrent(r, i) ==
    \/ OnlyReads(form[r]) /\ Finish(r)
    \/ /\ ~OnlyReads(form[r])
       /\ pc' = [pc EXCEPT ![r] = "found"]
       /\ id' = [id EXCEPT ![r] = i]
       /\ h' = [h EXCEPT ![r] = Nobody]
       /\ UNCHANGED form

-----------------------------------------------------------------------------
InFlight == {r \in Requests : pc[r] \notin {"idle", "done"}}

(* A form arrives, and its sizes are in range. *)
Begin(r) ==
    /\ pc[r] = "idle"
    /\ OneAtATime => InFlight = {}
    /\ \E f \in Forms :
         /\ f.kind = "save" => InRange(f.size)
         /\ form' = [form EXCEPT ![r] = f]
    /\ pc' = [pc EXCEPT ![r] = "looking"]
    /\ UNCHANGED <<rows, created, now, id, h>>

(* Current: the oldest household ... *)
FirstHousehold(r) ==
    /\ pc[r] = "looking"
    /\ \E i \in Ids : IsFirst(i) /\ AfterCurrent(r, i)
    /\ UNCHANGED <<rows, created, now>>

(* ... or, if there is none, a new one with defaults in the language of    *)
(* the page.                                                               *)
NoHousehold(r) ==
    /\ pc[r] = "looking"
    /\ Ids = {}
    /\ \E p \in Defaults : h' = [h EXCEPT ![r] = p]
    /\ pc' = [pc EXCEPT ![r] = "creating"]
    /\ UNCHANGED <<rows, created, now, form, id>>

(* CreateHousehold up to the INSERT. *)
StampHousehold(r) ==
    /\ pc[r] = "creating"
    /\ now' = now + 1
    /\ created' = [created EXCEPT ![r] = now']
    /\ pc' = [pc EXCEPT ![r] = "inserting"]
    /\ UNCHANGED <<rows, form, id, h>>

CreateHousehold(r) ==
    /\ pc[r] = "inserting"
    /\ rows' = [i \in Ids \cup {r} |-> IF i = r THEN h[r] ELSE rows[i]]
    /\ AfterCurrent(r, r)
    /\ UNCHANGED <<created, now>>

(* The service reads the row again, by id. *)
GetHousehold(r) ==
    /\ pc[r] = "found"
    /\ id[r] \in Ids
    /\ h' = [h EXCEPT ![r] = rows[id[r]]]
    /\ pc' = [pc EXCEPT ![r] = "loaded"]
    /\ UNCHANGED <<rows, created, now, form, id>>

AlreadyThere(r) ==
    /\ pc[r] = "loaded"
    /\ form[r].kind = "add" /\ Present(h[r], form[r])
    /\ Finish(r)
    /\ UNCHANGED <<rows, created, now>>

(* The whole row is written; created_at is not in the UPDATE. *)
StampAfterUpdate_Now(r) == [created EXCEPT ![id[r]] = now + 1]
StampAfterUpdate(r) == created
UpdateHousehold(r) ==
    /\ pc[r] = "loaded"
    /\ form[r].kind = "add" => ~Present(h[r], form[r])
    /\ id[r] \in Ids
    /\ rows' = [rows EXCEPT ![id[r]] = Change(h[r], form[r])]
    /\ created' = StampAfterUpdate(r)
    /\ Finish(r)
    /\ UNCHANGED now

(* A query error, a cancelled request, the end of the process. *)
Fail(r) ==
    /\ r \in InFlight
    /\ Finish(r)
    /\ UNCHANGED <<rows, created, now>>

Current(r) == FirstHousehold(r) \/ NoHousehold(r) \/ StampHousehold(r) \/ CreateHousehold(r)
Write(r) == GetHousehold(r) \/ AlreadyThere(r) \/ UpdateHousehold(r)

Next == \E r \in Requests : Begin(r) \/ Current(r) \/ Write(r) \/ Fail(r)

Spec == Init /\ [][Next]_vars
-----------------------------------------------------------------------------
(* What every interleaving keeps. *)

(* No list of any household holds a word twice, in whatever spelling: also *)
(* a row written back over a newer one is a row without duplicates.        *)
TermsDistinct ==
    \A i \in Ids : \A list \in Lists : \A t, u \in rows[i][list] :
        t[1] = u[1] => t = u

(* A household is created only by a request that found none; once these    *)
(* have ended no other appears and the household everyone is given stays   *)
(* the same.  (While they run, FirstHousehold may change its answer.)      *)
Creators == {r \in Requests : pc[r] \in {"creating", "inserting"}}
IdentitySettles ==
    [][Ids # {} /\ Creators = {} => Ids' = Ids /\ First' = First]_vars

(* A household as Profile sees it.                                         *)
Of(i) == INSTANCE Profile WITH profile <- IF i \in Ids THEN {rows[i]} ELSE {}

(* Whatever other requests do meanwhile, a household changes only as the   *)
(* screens promise, unless a request writes back a row that another wrote  *)
(* since it was read.                                                      *)
StaleWrite(r) == pc[r] = "loaded" /\ h[r] # rows[id[r]] /\ pc'[r] = "done"
UncontendedKeepsPromise ==
    [][\A i \in Requests :
         \/ \E r \in Requests : id[r] = i /\ StaleWrite(r)
         \/ Of(i)!Next
         \/ UNCHANGED (i \in Ids) /\ (i \in Ids => rows'[i] = rows[i])]_vars

-----------------------------------------------------------------------------
(* What is said of the profile without a word on other requests, and kept  *)
(* only while there are none: see HouseholdProofs.                         *)

(* Once the intro is completed, "onboarded flips to 1 and the wizard never *)
(* shows again".  A form that read the row before writes the old flag back *)
(* with it; and the household of a second creator may turn out the older.  *)
WizardStaysDone ==
    [][Ids # {} /\ rows[First].onboarded => rows'[First'].onboarded]_vars

(* The promise to the household, with the oldest row read as its profile:  *)
(* one at a time, the requests implement Profile.                          *)
Promise == INSTANCE Profile WITH profile <- IF Ids = {} THEN {} ELSE {rows[First]}
KeepsPromise == Promise!Spec
=============================================================================
