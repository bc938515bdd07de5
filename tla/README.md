# cooking-helper in TLA+

A formal model of cooking-helper (a Go web application that plans a household's
week of dinners with a language model, on SQLite, behind HTMX pages and a
service worker), with the runs that model-check it and the theorems that are
proved about it.  Paths below are relative to the repository; modules, configs
and `PROJECT.json` (the map from every definition to its source lines, the
hazards, the runs and the theorems) are in this directory.

Contents: [the system](#1-the-system) ·
[the modules](#2-the-modules-and-the-code) ·
[the runs](#3-the-runs) ·
[bounds](#4-bounds) ·
[fairness](#5-fairness) ·
[proofs](#6-what-is-proved) ·
[what the model leaves out](#7-what-the-model-leaves-out) ·
[plan](#8-plan)

## 1. The system

One Go process serves pages from one SQLite file.  `net/http` runs every request
in a goroutine of its own; there is no lock and no queue in the program.  What
orders the requests is the database pool: it holds ONE connection
(`internal/repository/db.go:27`), so a statement, or a transaction
(`Store.withTx`), is atomic, and nothing larger is.  Several operations read in
one statement, call a language model for up to half a minute, and write in
another.  That is where the hard behaviour is.

| Component | State | Operations | What makes it correct |
|---|---|---|---|
| Weekly plan (`service/generation.go`, `repository/weeklyplan.go`, `handler/generate.go`, `handler/archive.go`) | tables `weekly_plan`, `recipe`, `shopping_list_item` | generate, swap, cook again | one current week; its list is the list of its recipes; portions for seven days; archived weeks and recipe rows never change; no half-done transaction |
| Household profile (`service/household.go`, `repository/household.go`, five handlers) | table `household_profile` | first access creates; save, onboard, add/remove a disliked ingredient or a staple | one household; a form changes what it says and nothing else; no word twice in a list; onboarding stays over |
| Model calls (`llm/client.go`, `llm/retry.go`, provider clients, `service/shopping.go`) | counters of one request | complete with transport retry, JSON repair, dislike rounds, categorize | all loops end, within the deadline; only a checked reply is stored; the categorizer cannot fail a week |
| Shopping list items (`repository/shopping_item.go`, `handler/shopping.go`) | `checked`, `manually_removed` of a row | check, remove, restore, and replays of them | idempotent writes; a vanished row is harmless; marks survive what they should |
| Ingredient category cache (`repository/ingredient_category.go`, `service/shopping.go`) | table keyed by normalized name | read many, save one | what a list showed stays so; failures are not cached |
| Consolidation, units, dictionary, term matching (`internal/shopping`) | none | pure functions | amounts add up per name and unit; forbidden words are found in inflected forms |
| Recipe feedback (`service/recipe.go`) | three flags of a `recipe` row | set all three at once | what is shown is what is stored; nothing else of the row changes |
| Service worker (`static/sw.js`) | two caches in the browser | install, activate, fetch | a page is never answered with a fragment, nor a fragment with a page |
| Server life cycle (`cmd/server/main.go`) | listener, in-flight requests | start, shut down | what is cut off leaves the tables whole |
| Router, rendering, i18n, templates, page scripts, migrations, deployment | none of their own | — | see section 7 |

How they interact.  The handlers first ask the household service for `Current`.
Generate and swap pass that household to the generation service, which renders a
prompt from the profile and the recent recipes, calls the model, checks the
reply (count, dislikes, portions, protein variety), has `ShoppingBuilder`
consolidate the ingredients and find their categories (cache, then model, then
"other"), and writes plan, recipes and items in one transaction.  Cook again does
the same with a stored recipe in place of a reply.  The shopping screen reads the
current plan and flips flags of its items, and a page goes on showing what it showed
until it is answered or loaded again.

What is hard: two requests of one household overlap (two tabs, two phones, a
double tap, a retry after a response that timed out); a request writes what it
computed from a row that has changed since; a transaction fails half-way; the
process is stopped between two steps (a shutdown waits 10 s, a generation may
take 45 s); four nested retry loops share one deadline; one deadline is longer
than another it depends on.  `PROJECT.json` lists each such place as a hazard with
its line and the properties that watch it.

## 2. The modules and the code

    CurrentWeek <--implements-- WeekPlan <-- WeekPlanProofs <-- WeekPlanAloneProofs
                                   ^
                               MCWeekPlan
    Profile <------implements-- Household <-- HouseholdProofs
                                   ^
                               MCHousehold
                                Generation <-- GenerationProofs
                                   ^
                               MCGeneration
                    TermMatch <-- DinnerRules <-- DinnerRulesProofs
                                   ^
                               MCDinnerRules
                              ShoppingBuilder <-- ShoppingBuilderProofs
                                   ^
                              MCShoppingBuilder
                                  Marks <-- MarksProofs
                                   ^
                                MCMarks
                               ServiceWorker <-- ServiceWorkerProofs
                                   ^
                              MCServiceWorker

`CurrentWeek` and `Profile` are abstract: they say what a user is promised and know
nothing of tables or requests.  `WeekPlan` and `Household` are the programs that are
to keep the promise; `Generation` is the inside of one slow step of `WeekPlan` seen in time, and
`ShoppingBuilder` that step's list; `DinnerRules` is what the step demands of a recipe.  `Marks` is
what people do to the list and to the recipes afterwards.  `ServiceWorker` runs in the browser and shares only
the answers of the server with the rest.
Operators with an underscore in their name (`RebuiltList_AsRead`) are not part of a
specification: each is a slip one could make in the definition it precedes, kept
to show which property would notice.

### WeekPlan

| Variable | Code |
|---|---|
| `recipe` | rows of `recipe`: servings and `source` (`llm` or `history`), or no row |
| `status`, `recipeIDs`, `createdAt` | rows of `weekly_plan`: no row / `archived_at` NULL / set; the JSON array `recipe_ids`; `created_at` |
| `list` | the rows of `shopping_list_item` of a plan, as the set of recipes they were added up from |
| `clock` | the last `created_at` given out |
| `pc`, `planID`, `seen`, `idx`, `fresh` | the locals of a request: where it stands, the plan it read, that plan's `RecipeIDs`, the position of `oldRecipeID`, the recipes built in memory |

| Action | Code |
|---|---|
| `StartGenerate`, `ReplyGenerate` | `Generate` handler; `GenerateWeek` up to the built list: three recipes, portions checked |
| `ReadPrevious` | `currentPlanID`, a statement outside the transaction |
| `ArchiveAndCreateWeek` | the transaction of that name: archive if still active, three recipes, the plan, its items |
| `StartSwap`, `StartCookAgain` | the handlers read `CurrentWeeklyPlan`; the recipe must be one of its three |
| `ReplySwap` | `SwapRecipe` from the model's answer to the rebuilt list: servings at least what the two kept recipes leave |
| `CopySource` | `CookAgain` reads a stored recipe and copies it; nothing checks its servings |
| `SwapRecipeInPlan` | the transaction of that name: find the old id in the row as it is now, insert the recipe, rotate the id, replace the items |
| `Fail` | any error return, cancellation, timeout, rollback or process end; the user may try again |

An identifier is named by the request that assigns it, so "fresh UUID" needs no
assumption.  A request runs one operation to its end once, and as often as it
likes after failures.

### Household

`rows` and `created` are `household_profile` (a function from ids, so a second
household is representable, as it is in the schema); `pc`, `form`, `id`, `h` are a
request's locals.  `Begin` is a form whose sizes passed `UpdateProfile`'s range
check (the handler makes it before anything is read); `FirstHousehold`, `NoHousehold`,
`StampHousehold` and `CreateHousehold` are the steps of `Current`: the SELECT, the
defaults, `created_at` taken from the clock, and the INSERT, which waits for the
connection.  `GetHousehold`, `AlreadyThere` and `UpdateHousehold` are the
read-change-write of every form.  A term is a pair of a word and a spelling, which
is what `strings.EqualFold` distinguishes.

### Generation

One request in seconds.  `attempt` is the dislike loop of `GenerateWeek`/`SwapRecipe`,
`ask` the JSON repair of `llm.Generate`, `try` the transport retry of `llm.Retry`,
`pending` the names the categorizer still has to place; `now` runs against
`generationTimeout` (45 s), and every provider call also against its own 30 s.
`Reply`, `InvalidReply`, `TransientError`, `PermanentError` and `CallTimesOut` are what a
provider call can come to; `BackOff` is `sleepCtx`; `AskAgain`, `Accept` and `Reject` are the
checks in the order the code makes them; `ReadCache`, `Categorize` and `ListBuilt` are
`ShoppingBuilder.Build`; `Store` is the write.  `passed` is the set of checks the latest
reply passes.  In `WeekPlan` all of this is the one step `ReplyGenerate` or `ReplySwap`
(or `Fail`): no other request can see anything of it but the category cache.

### ShoppingBuilder

`cache` is the table `ingredient_category`, which all builds share; `pc`, `week`, `cached`, `out`,
`pending` and `topic` are the locals of `Build` and `resolveCategories`; `answers` is a history
variable.  `Consolidate`, `Merge`, `LineKey` and `DisplayAmount` are the functions of
`internal/shopping`, over quantities in whole base units: `float64` sums are exact there and
`round2` is integer arithmetic on hundredths.  `Start` is `Build` up to the cache,
`ReadCache` the one SELECT (an error counts as an empty cache), `Ask`, `Answer`, `NoAnswer` and
`SaveCategory` one round of the loop over a Go map (so in any order), `Abort` the end of the process.
`List` is what `Build` returns.

### DinnerRules and TermMatch

`plan` holds the recipes of the current week as the model replied them, each with its ingredients,
its servings and the protein the model named, which the program forgets when it stores the
recipe.  `disliked` and `people` are the profile, `asked` the copy of it that the running request has
read, `op`, `slot` and `attempt` its kind, the recipe it replaces and its round of the dislike loop.

| Definition | Code |
|---|---|
| `dislikeViolations`, `portionsCovered`, `hasProteinVariety`, `WeekReplied` | the checks of `GenerateWeek` on three recipes |
| `dislikeViolationsRecipe`, `targetServings`, `swapHasProteinVariety`, `DinnerReplied` | those of `SwapRecipe` on one, against the two that are kept |
| `inferProtein` | the guess of a kept recipe's protein from its ingredients, a table of keywords in order |
| `DinnerCopied` | `CookAgain`, which checks none of this |
| `EditProfile` | the settings forms, at any time |
| `TermMatch`: `Tokens`, `ContainsTerm` | `strings.Fields(Normalize(...))`, the words of a text without diacritics, and `shopping.ContainsTerm`, which compares them and their inflections |
| `TermMatch`: `ContainsText` | `strings.Contains` on the texts as they are |

A text is a sequence of characters in lower case, letters (with and without diacritics) and others, because the
two ways to look for a term differ in just what they do with hyphens, spaces and accents.
The order of the checks and the number of rounds are the code's; that errors, time and other
requests come in between is `Generation`'s and `WeekPlan`'s matter.

### Marks

A *control* is a line of a shopping list (flags `checked`, `removed`) or a recipe (liked, disliked,
cook again).  Both are rows of flags that a fragment of a page shows, and HTMX treats them alike.

| Variable | Code |
|---|---|
| `marks` | the flags in `shopping_list_item` and `recipe`; a line that a swap deleted has no row |
| `listed`, `fresh` | the items of the current plan; ids that were never given out |
| `view` | what each open page shows of each row, the browser's own flip of a checkbox included |
| `request` | per tap: the flags it posts and whether it is queued in the page, sent, written, answered, failed |
| `heeded` | the requests whose answer still has an element to go to |
| `repeated` | the requests that were carried out twice |
| `sure` | history: which fragment has no reason to be wrong |

| Action | Code |
|---|---|
| `Tap` | the forms of `shopping.gohtml` and `recipe.gohtml`: a box posts itself, a reaction the whole form; a second tap at one element waits, and only the last that waits is kept (HTMX's default) |
| `Load` | `Shopping`, `Recipe` and the week's cards render a page: the lines that are not removed |
| `Check`, `Remove`, `Restore` | the handlers of that name up to their UPDATE, each with its own answer for a row that is gone |
| `RenderItem` | `renderItem`: the second statement of check and restore reads the line again |
| `SetFeedback` | `RecipeService.SetFeedback`; the form that comes back is rendered from what was posted |
| `Fail`, `Repeat` | a statement that fails or a request that is cut off; one that is delivered again |
| `SwapIn`, `ErrorAnswered`, `ConnectionBreaks`, `Discard` | what HTMX does with an answer, with an error, without an answer, and when the element has gone |
| `NewWeek`, `ReplaceItems` | the inserts of `ArchiveAndCreateWeek` and `SwapRecipeInPlan` |

### ServiceWorker

| Variable | Code |
|---|---|
| `deployed`, `onboarded` | the version of `sw.js` and assets that the server has; whether `/` still redirects |
| `next`, `ready`, `active` | the worker being installed, whether its `addAll` is done, the worker that answers |
| `existing`, `before`, `stored` | the browser's caches, which of two was created first, and their entries: page, fragment, redirected page, asset of a version |
| `puts` | `cache.put`s that nobody waits for |

`StartInstall`, `AddAll`, `InstallFails` and `Activate` are the life of a worker,
`FetchAndCache` a request that the network answers, `Put` and `LosePut` the storing of the answer.
A request without network changes nothing: what it is answered is the operator
`OfflineAnswer`, about which the properties speak.

## 3. The runs

| Run | Module, config | Result | What it shows |
|---|---|---|---|
| `week_overlap` | MCWeekPlan, WeekOverlap | holds | Four overlapping requests.  `ActivePlanRemains`: never between two plans.  `ReferencesResolve`: no dangling id in a plan, a list or a waiting request.  `RecipesNotShared`: cook again copies.  `OneWinnerPerRecipe`, `NoRecipeLost`: two swaps of one recipe do not both win, and neither loses the other's write.  `LatestGenerationIsCurrent`: "newest wins".  `UncontendedSwapHeals`: a swap nobody interfered with leaves a right list and enough portions even in a plan that an earlier race left wrong. |
| `week_one_at_a_time` | MCWeekPlan, WeekOneAtATime | holds | The same requests one after the other, failing anywhere: `SingleActivePlan`, `ListMatchesRecipes`, `WeekPortioned`, `ArchivedWeeksFrozen`, and `KeepsPromise`: they implement `CurrentWeek`. |
| `week_stale_list` | MCWeekPlan, WeekStaleList | violated | Two swaps of different recipes: the second writes a list with the recipe the first took out. |
| `household_overlap` | MCHousehold, HouseholdOverlap | holds | Three overlapping requests from an empty table.  `TermsDistinct`: whatever row is written back over whatever other, no list holds a word twice.  `IdentitySettles`: once nobody is creating, the household everyone finds is fixed.  `UncontendedKeepsPromise`: every step is one `Profile` allows, unless it writes back a row someone else changed. |
| `household_wizard` | MCHousehold, HouseholdWizard | violated | Two requests of a first visit: the onboarding that one completed is undone, by a row that the other read before and writes back whole, or by a second household that turns out the older one. |
| `generation_request` | MCGeneration, GenerationRequest | holds | Every outcome of every call.  `FailClosed`: what is stored passed all checks, in whatever round it came.  `WithinDeadline`: the sum of waits stays inside 45 s.  `CallBudget`: what one tap can cost.  `OnlyTimeLosesAcceptedWeek`: after acceptance no categorizer error loses the week.  `Answered`: the request ends. |
| `generation_late_cards` | MCGeneration, GenerationLateCards | violated | A week is stored when the server's 15 s `WriteTimeout` has already closed the answer. |
| `list_build` | MCShoppingBuilder, ListBuild | holds | Two overlapping builds.  `ListAddsUp`: one line with the right amount per ingredient and unit class, over units, spellings and the edges of a kilogram; no staple, nothing invented.  `OneSectionPerName`: an ingredient on two lines stands in one section, whoever supplied it.  `CacheHoldsAnswers`: a failed call is not remembered.  `ListsAgree`: a section read from the cache is never replaced by the answer of a slower build. |
| `dinner_rules` | MCDinnerRules, DinnerRules | holds | Weeks, swaps and copies under a profile that is edited meanwhile.  `NothingForbidden`: in whatever round, whichever of the two checks is made, a recipe that names a disliked term as the household typed it stays out, and of a whole new week also one that spells it otherwise (a swap lets that pass).  `VarietyStands`: although the proteins are forgotten, a swap leaves two sorts in the week, unless an ingredient suggests the wrong one.  `PortionsStand`: a swap makes the week enough for those who eat now, also after cook again has made it too small. |
| `marks_overlap` | MCMarks, MarksOverlap | holds | Taps on two pages that overlap, wait, get lost, fail and are repeated, while lists are replaced.  `SettledPageTellsTruth`: a page that waits for nothing shows what is stored, unless it cannot know better.  `MarksAreMeant`: no row that is there gets a flag that nobody tapped on that row, not even from a whole form that is old.  `GhostsStayGone`: no late write brings a deleted line back. |
| `worker_updates` | MCServiceWorker, WorkerUpdates | holds | Three versions, failing installs, late and lost stores.  `NavigationAnswered`: from the first activation on every address shows something offline, unless the worker's shell still has the redirect of `/` from before the onboarding: then `/`, and what no cache has, do not.  `NoOldAssets`: an update really replaces the assets.  `PagesStayPages`: no late store turns a page into a fragment or a redirect. |
| `worker_fragments` | MCServiceWorker, WorkerFragments | violated | Offline, a tap on `/` is answered with a whole document and a reload of a tapped recipe with a fragment: `caches.match` looks in both caches. |

The four violated runs each check a sentence of the repository that the code does not
keep; `PROJECT.json` quotes it.  Those of `WeekPlan` and `Household` have a cause that recurs: what is
read before the model is asked, or before the write, is not checked again in the transaction.
`OneWinnerPerRecipe` and `NoRecipeLost` hold because `SwapRecipeInPlan` does read `recipe_ids`
again, inside.  `household_wizard` has two traces of one length; TLC shows one of them.  When requests come
one at a time, `WizardStaysDone` is a theorem (`WizardNeverShowsAgain`), and so is
that `Household` implements `Profile`.

One more race of that kind is known, of which no sentence of the repository speaks: a swap
that waits while the week is regenerated rewrites the archived week, so `ArchivedWeeksFrozen` is checked
one at a time.  Two overlapping generations read the same previous plan and leave two active
ones; the migration foresees that ("newest wins"), so `SingleActivePlan` is checked one at a time and
`LatestGenerationIsCurrent` under overlap.

Differences between code and comments that no run is about:

* `generation.go:166-169` speaks of one semantic retry where `maxDislikeRetries` is 2; the third delay of
  the backoff schedule is never used.
* Rows are ordered by the text of `created_at`, in which RFC3339Nano drops the trailing zeros of the
  fraction: `...05.1Z` sorts after `...05.12Z`.  So "newest first" (`repository/recipe.go:125`) holds
  between seconds (the text is in UTC), but not between two rows whose stamps differ
  by less than the dropped zeros: rare on a clock of nanoseconds, common on one of
  milliseconds.
* A swap does not check dislikes as a week does, though `generation.go:268` says that its validation
  mirrors `GenerateWeek`.  A week is searched for folded words and their inflections, a swap for the
  characters that were typed: for *red onion* a swap lets *red-onion* and a double space pass, for
  *creme* the spelling *crème*, and *sienet* for *sieni*; in turn it refuses a term
  inside a longer word.  `DinnerRules` has both checks as they are; `NothingForbidden` says of swaps only
  what they do keep out, and so does not vouch for the comment.
* The variety of a swap fails when a kept recipe's protein is guessed wrong (*kananmuna*, an egg,
  has the letters of *kana*, chicken), and passes when the guess is wrong the other way.
* A swap drops check marks and brings removed lines back, though `domain/plan.go:19-21` says
  that removed items are respected on regeneration.  `Marks` models what the code does; no property of
  it speaks for or against: `MarksAreMeant` leaves open with which marks a new line starts.
* `renderItem` ignores `manually_removed`: a check that overlaps a removal of the same line leaves
  it on the page without the stub to undo it.
* A feedback form posts all three flags as its page shows them, so a form that is stale undoes
  a reaction given elsewhere, though `service/recipe.go:31` calls the flags
  independent.  A repeated request stamps the feedback anew.
* Handlers of the shopping list speak of replays of an offline queue; `sw.js` has none.
* `redirectTarget` (`handler/language.go:67`) accepts a Referer that starts with `/`; browsers send an
  absolute one, so the language switch always leads to the home page.
* `normalize.go:18-19` says that Й and Ё survive the removal of diacritics; NFD takes them apart
  like any accented letter, so both sides of a comparison lose them.
* `service/shopping.go` says that the categorizer is never asked twice for one ingredient,
  which two overlapping builds, or a failed save, do.

## 4. Bounds

* `WeekPlan`, four requests: the races need two writers and a plan to write to, which
  one request has to generate first; the fourth lets a race be followed by a
  request that heals or suffers from it.  All requests are interchangeable
  (symmetry, in the run that has no liveness property).  Servings 1..2 and five
  portions, or 0..2 and four, make a week that is short, exact or over, and a swap
  whose target is clamped to 1.  One at a time, three requests suffice for a week, its
  successor, and a swap in either.
* `Household`, three requests: a creator, a second creator, and one that meets both.  Two
  spellings of one word, and the sizes (6,6), (0,0) and
  (7,0): the last allowed, one below and one above.
* `Generation`, two names to categorize, and calls of 1 s, 14 s and 31 s: a few of the
  second kind meet the deadline at every place of the loops, the third exceeds a call's own limit.
  There is no bound on the counters other than the program's.
* `ShoppingBuilder`, two builds (interchangeable) and five weeks: one that needs no cache, two that
  share a name to resolve, one that shares it with another name, one with a
  staple only besides.  Sums of 999, 1000, 1004 and 1333 g lie on both sides of
  the kilogram and of a rounding.
* `ServiceWorker`, three versions, because what an update leaves behind shows in the next one; one
  address of each kind; one answer waiting to be stored (`MaxPuts`), for as long as it
  likes.  With two waiting the properties hold as well, in two minutes: the content of pages has
  no version in the model, so an order among stores cannot matter.
* `DinnerRules`, four dinners, two terms and two or three people.  One term has a space and stands in one
  ingredient as it is and in one with a hyphen, the other has a spelling with a diacritic; one keyword
  stands inside another word.  Every check can fail alone, and a copy can leave any of them behind.
* `Marks`, two taps on two pages: every pair of handlers meets in every order.  One recipe with two
  reactions, a line and the line that takes its place, one repetition.  The properties also
  held for three taps on one page (1.8 million states) and for three taps on two pages with the list only
  and no repetition (1.9 million), which take longer than a run should.
* `clock`, `now` (in `Generation`) and `calls` need no bound: every request stamps at most once, and the
  deadline ends the loops.

`CHECK_DEADLOCK FALSE` is given everywhere because a finite set of requests ends: when all
are done the system rightly stops.

## 5. Fairness

`WeekPlan`, `Household`, `Marks` and `DinnerRules` state none: a request may hang or never
come, and no property of theirs needs it to proceed.  `Generation` has `WF_vars(Next)`: its goroutine is scheduled by
the Go runtime, and each thing it waits for ends by itself or at the deadline, because
the provider call and the sleep both select on the request's context
(`llm/retry.go:44-61`, `context.WithTimeout` in the clients and the handlers).  `Answered` does not
follow from fairness alone: it needs every loop to make progress (its mutant
ignores the cancelled context and sleeps again).

## 6. What is proved

For every value of the constants (any set of requests, any integer servings and
portions, any words, any latencies), from the assumptions named in the modules:
`None` is not a request, `Blank` is not a term, servings and sizes are integers,
there is at least one language and one spelling, latencies are positive, names are
finitely many and none is "recipes", lines and recipes have different ids, numbers of
people and servings are natural, terms and ingredients are texts (sequences of letters
and separators, two kinds of characters with nothing in common), a letter without its diacritics is a letter, pages, assets and `/` are different addresses.

* **WeekPlanProofs**: `TypeCorrect` and `SafeUnderOverlap` (`ReferencesResolve`, `RecipesNotShared`,
  `OneWinnerPerRecipe`, `NoRecipeLost`, `ActivePlanRemains`).  None of these is inductive.
  The invariant `IInv` adds `Memory` (a request that waits has read a plan, knows its slot and
  has built its recipes), `NothingInsertedYet` (before a request commits, the ids it will
  assign are used nowhere: so what it inserts is new) and `ReplacedStaysReplaced` (a
  recipe taken out is in no plan again: so a second winner would not find it).
  Steps fall into three kinds (`StepKinds`): those that leave the tables alone and the two
  transactions.
  The module goes on with the action properties: `HistoryIsKept`; `LatestIsCurrent`, with `Clocked`
  (no plan is ahead of the clock); `SwapsHeal`, with `Portioned` (a recipe waiting to be
  swapped in covers what the kept ones leave).
* **WeekPlanAloneProofs**, under `OneAtATime`: `AloneTheWeekIsRight` (`SingleActivePlan`,
  `ListMatchesRecipes`, `WeekPortioned`) and `AloneArchiveFrozen`, with `Snapshot` (what a request read is still
  so) and `WeekReady`.  The theorems say what the overlap costs: `Snapshot` is exactly what
  the violated runs break.
  The module ends with `AloneKeepsPromise`, the refinement of `CurrentWeek`: the two transactions map
  to `PlanWeek` and `ReplaceDish`, every other step to a stutter.
* **HouseholdProofs**: `ProfilesWellFormed`, `NoDuplicateTerms`, `OneIdentityInTheEnd`, for overlapping
  requests.  `IInv` extends `TermsDistinct` to the rows in the memory of requests (`MemoryOK`): a row written
  back late is still a row without duplicates.  `PromiseKeptUncontended`: each step is one of `Profile`'s for
  every household, a stutter, or the write of a stale row.  It needs `PInv` (a row is inserted
  once, under an id not yet used, with defaults).  Under `OneAtATime` there is no stale row: `AInv` says that
  only one request is under way, that there is one household at most and that a request only creates
  it when there is none, and that what it holds is what is stored.  From it follow `WizardNeverShowsAgain` and
  `AloneKeepsPromise`, the refinement of `Profile` with the oldest row as its profile.
* **GenerationProofs**: `LoopsAreBounded`, `DeadlineHolds`, `OnlyCheckedWeeks`, `CategorizerIsHarmless`.  `IInv`
  carries `passed = Checks` from acceptance through the categorizer's calls, and says that a
  sleeping request has an attempt left.  `BudgetHolds` counts: `BudgetInv` bounds the calls by
  twice `maxAttempts` for each question that is answered or given up (`Closed`: rounds of
  the loop and names placed) and by what is used up of the current one (`InHand`).
* **ShoppingBuilderProofs**: `OnlySections`, `FailuresNotCached`, `CachedSectionsAgree`, for any number of builds.
  `IInv` adds `Progress` (only names that were not in the cache when it was read are pending or
  asked for, and what waits to be saved is the model's own answer) and `ReadStays` (what was read from the cache is what
  the cache says and what the list will show): entries are only ever added.  `OneSection` adds
  `SortInv`: a name of the week without a section is still pending.  `ListsAddUp` is about what
  `Consolidate` computes, for weeks of any length and any quantities: each line shows the
  sum, in base units, of the ingredients with its name and kind of unit, to the hundredth that the code rounds to.
  The recursion is unfolded by induction (`ConsolidateStepwise`, `ConsolidateLines`), and so is the sum of a set of places,
  which does not depend on the order (`SumExists`, `NeededIsSum`).
* **DinnerRulesProofs**: `VarietyIsKept` and `WeekStaysEnough`, for any dinners, keywords, terms and people.
  The plan is a week of dinners whenever a swap runs, so what the swap adds up is the week that
  it leaves; two different guesses that are right or missing are two different proteins.
  `DislikesStayOut` is about both ways to look for a term, for texts of any characters.  What stands in
  an ingredient as it was typed is found by the substring search at once (`NamedIsFound`).  If no letter
  stands right before or after it, the words of the term begin and end there where words of the
  ingredient do, so folding makes the same words of them (`NamedWords`), and each of these is matched
  by itself whatever its length (`WordsAreMatched`).
* **MarksProofs**: `TypeCorrect`, `DeletedForGood` and `OnlyChosenMarks`, for any number of taps, pages, lines and
  repetitions.  `TInv` says that what a page holds and posts is of the row's kind, and that an
  answer has its place only while the fragment is there (`Placed`); `MInv` carries "somebody
  tapped it" through rows, views, posted forms and answers, since each is made of the others.  It
  speaks of all marks, since lines start unmarked; the theorem takes from it the new marks of rows that
  stay.
  `SettledPagesAreRight` needs `TruthInv`: an element of a page has one request under way and one that
  waits (`OneAtAnElement`), and while a fragment is sure, the one answer it waits for will show what is
  stored (`AnswersAreRight`).
* **ServiceWorkerProofs**: `TypeCorrect`, `AlwaysAnswered`, `AssetsAreCurrent` and `PagesKept`, for any number of versions,
  addresses and late stores.  `Ordered`: caches come one after the other, so each set of them has an oldest.
  `WorkersInv`: the worker that answers, and the one that is ready to, has its whole shell, and a
  cache older than that shell is of the same version.  `EntriesInv`: what is stored, or waits to
  be, fits its cache; a redirection only ever is `/` of a shell.  So what `caches.match` finds for `/` is the shell's
  own entry or a fragment of the same worker, and no redirect of another version gets in the way.

Recursions (`Consolidate`, sums over sets) are written as recursive functions.  The library's
induction theorems take an operator and cannot be used here, so each induction argues from
the least counterexample: a set of numbers that is not empty has a least element (`NatMin`, from the
well-foundedness of `<`), and a recursive function exists because all its beginnings do.

Every safety invariant and every action property that a passing run checks is a theorem.  Model-checked only:
`Answered`, because liveness under fairness is beyond the prover, and the four sentences that the
violated runs refute.  Proved only: `HistoryKept` of `WeekPlan`, and that `Household` keeps `WizardStaysDone`
and `KeepsPromise` when `OneAtATime` holds.

## 7. What the model leaves out

* Statements of the database take no time in `Generation`; their failure is `Fail` in the other
  modules.  Waiting for the connection is visible only where it matters, between
  `StampHousehold` and `CreateHousehold`.
* `WeekPlan` and `Household` take the order of `created_at` to be the order of the readings.
  Section 3 says how far that is right.  A clock that is set back is in no module.
* `CurrentWeeklyPlan` reads the plan row and then its items in a second statement.  The three
  requests do not use the items, so `ReadPlan` is one step.
* The servings of kept recipes are read before the model is asked, in `WeekPlan` when it
  has answered: recipe rows never change (`HistoryKept`), so it is the same.
* A list is the set of its source recipes.  That consolidation turns recipes into the
  right lines is `ShoppingBuilder`'s matter; check marks are `Marks`' matter.
* `ShoppingBuilder`: volumes (converted like masses), fractions below a base unit, the order of
  the lines.  Which names a keyword or a pantry term matches is a constant.
* `ServiceWorker`: the deletions of an activation all succeed; the browser evicts nothing by itself;
  requests that the worker lets through (POST, other origins) never reach it.
  Each deployment renames both caches; one that changed assets and kept the names would go on serving
  the old ones, which the model leaves out.  There is no queue of offline writes in `sw.js`, although comments in
  the handlers speak of replays.
* `Marks`: a page shows one screen at a time, and loading it is one step although a plan and its
  items are two statements.  `SetFeedback` is one step although it reads the row first: the
  columns that it writes back from that read never change.  When feedback was given is left
  out; it is stored and never used.  Taps come from `Taps`, each once.
* `DinnerRules` has one request at a time.  `TermMatch` takes texts in lower case, as both checks make them, and
  terms trimmed, as the settings forms store them.  A letter and its diacritics are one character, so a letter written as two
  code points is one more letter with the same fold; that a substring could end between the two is left out.
* The checks are outcomes in `Generation` and a possible `Fail` in `WeekPlan`.  The prompt, which
  is how history and feedback influence the model, is not modelled: whatever it says, the
  model may reply anything.
* Not reached by any route, and left out: `CreateWeeklyPlan`, `CreateWeekWithRecipes`, `CreateRecipe`,
  `DeleteRecipe`, `DeleteWeeklyPlan`, `DeleteHousehold`.
* Router, request log, rendering, templates, styles, health, static files, language cookie,
  page scripts: no shared state.  Migrations run before the server listens.  Deployment
  and backup are procedures.

## 8. Plan

Done: `CurrentWeek`, `WeekPlan`, `Profile`, `Household`, `Generation` and their proofs, first because a
wrong week and a lost profile are the worst the program can do; then `ShoppingBuilder` with its
proofs, and `ServiceWorker`; then `Marks` and `DinnerRules` with theirs.  Left:

1. The shutdown as a bound on `Fail`: requests that outlive `shutdownTimeout` are cut off between any
   two of their steps, which `Fail` already allows; what is missing is the drain of the others.
2. The query for the prompt's history, which runs under `context.Background()` and so outlives a
   request that is cancelled; it needs database time in `Generation`.
3. The language of the interface (a cookie) against that of the household (a row), once a
   sentence of the repository says how they should agree.

Proofs to add: that `Generation`'s steps each bring the end nearer (a measure that decreases, as the safety
part of `Answered`); that rounding keeps the order of amounts; a refinement of `WeekPlan`'s reply
steps by `DinnerRules`' checks.
