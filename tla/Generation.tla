----------------------------- MODULE Generation -----------------------------
(***************************************************************************)
(* One request that needs the language model, from the tap to the answer,  *)
(* in seconds: GenerateWeek, SwapRecipe or CookAgain.                      *)
(*                                                                         *)
(* Four loops are nested in it.  The service asks again when a reply has a *)
(* disliked ingredient; llm.Generate asks again when a reply is not JSON;  *)
(* llm.Retry calls the provider again after a transient error; and the     *)
(* shopping list asks for the category of each ingredient it cannot place. *)
(* All of it runs under one deadline, generationTimeout, and each provider *)
(* call under one of its own.                                              *)
(*                                                                         *)
(* The provider, its latency and what it replies are the environment.  Of  *)
(* a reply only matters whether it passes each check of the service.       *)
(* Statements of the database take no time and do not fail here, and the   *)
(* client stays: WeekPlan has a Fail for these.                            *)
(*                                                                         *)
(* An operator with an underscore in its name is not the program, but a    *)
(* slip in the definition that follows it.                                 *)
(***************************************************************************)
EXTENDS Integers, FiniteSets

CONSTANTS
    Names,       \* ingredients the dictionary cannot place
    Latencies    \* the seconds a provider call may take

ASSUME LatenciesAssumption == Latencies \subseteq Nat \ {0}
(* What the model is asked for: the recipes, or the category of a name. *)
Recipes == "recipes"
Topics == {Recipes} \cup Names

ASSUME NamesAssumption == IsFiniteSet(Names) /\ Recipes \notin Names

generationTimeout == 45
callTimeout == 30            \* defaultTimeout of the provider clients
writeTimeout == 15           \* WriteTimeout of the HTTP server
maxAttempts == 3             \* of llm.Retry
maxDislikeRetries == 2

backoff(i) == CASE i = 1 -> 2 [] i = 2 -> 4 [] OTHER -> 8

Operations == {"generate", "swap", "cookAgain"}

(* What the service checks of a reply. *)
Checks == {"count", "dislikes", "portions", "variety"}

Stages == {"idle", "calling", "backoff", "checking", "listing", "sorting",
           "writing", "stored", "failed"}

VARIABLES
    op,       \* the operation
    stage,    \* what the request does
    now,      \* seconds since it began
    attempt,  \* round of the dislike loop
    ask,      \* llm.Generate: 1, or 2 for the repair
    try,      \* llm.Retry: the current attempt
    topic,    \* what the model is asked for
    passed,   \* the checks that the latest reply passes
    pending,  \* names without a category yet
    calls     \* provider calls so far

vars == <<op, stage, now, attempt, ask, try, topic, passed, pending, calls>>

TypeOK ==
    /\ op \in Operations
    /\ stage \in Stages
    /\ now \in Nat
    /\ attempt \in 1 .. maxDislikeRetries + 1
    /\ ask \in 1 .. 2
    /\ try \in 1 .. maxAttempts
    /\ topic \in Topics
    /\ passed \in SUBSET Checks
    /\ pending \in SUBSET Names
    /\ calls \in Nat

Init ==
    /\ op \in Operations
    /\ stage = "idle"
    /\ now = 0
    /\ attempt = 1
    /\ ask = 1
    /\ try = 1
    /\ topic = Recipes
    /\ passed = {}
    /\ pending = {}
    /\ calls = 0

Ended == stage \in {"stored", "failed"}

-----------------------------------------------------------------------------
(* How often a reply with disliked ingredients is asked for again. *)
dislikeRetries == IF op = "generate" THEN maxDislikeRetries ELSE 1

(* A provider call ends at its own timeout or at the deadline of the       *)
(* request, which the call's context inherits.                             *)
Limit_OwnTimeoutOnly == callTimeout
Limit == IF generationTimeout - now < callTimeout THEN generationTimeout - now ELSE callTimeout

(* The reply to a swap is one recipe: there is nothing to count.           *)
PossibleReplies == {p \in SUBSET Checks : op = "swap" => "count" \in p}

(* A new question to the model: the first llm.Retry attempt of a request.  *)
Ask(t, n) ==
    /\ stage' = "calling"
    /\ topic' = t
    /\ ask' = n
    /\ try' = 1

(* llm.Generate returns an error.  For the recipes that is the end; for a  *)
(* category the line becomes "other", and the loop goes on.                *)
GiveUp_AlwaysFails ==
    /\ stage' = "failed"
    /\ UNCHANGED <<topic, ask, try, pending>>
GiveUp ==
    /\ stage' = IF topic = Recipes THEN "failed" ELSE "sorting"
    /\ pending' = pending \ {topic}
    /\ UNCHANGED <<topic, ask, try>>

-----------------------------------------------------------------------------
(* The handler calls the service; cook again needs no recipe from the model. *)
Begin ==
    /\ stage = "idle"
    /\ IF op = "cookAgain"
       THEN stage' = "listing" /\ UNCHANGED <<topic, ask, try>>
       ELSE Ask(Recipes, 1)
    /\ UNCHANGED <<op, now, attempt, passed, pending, calls>>

(* The provider answers in time, and the answer is JSON of the right type. *)
Reply ==
    /\ stage = "calling"
    /\ \E d \in Latencies : d < Limit /\ now' = now + d
    /\ calls' = calls + 1
    /\ IF topic = Recipes
       THEN /\ passed' \in PossibleReplies
            /\ stage' = "checking"
            /\ UNCHANGED pending
       ELSE /\ pending' = pending \ {topic}
            /\ stage' = "sorting"
            /\ UNCHANGED passed
    /\ UNCHANGED <<op, attempt, ask, try, topic>>

(* The answer is not JSON: one repair, which retries transport anew. *)
Repair_Always == Ask(topic, 2)
Repair == ask = 1 /\ Ask(topic, 2)
InvalidReply ==
    /\ stage = "calling"
    /\ \E d \in Latencies : d < Limit /\ now' = now + d
    /\ calls' = calls + 1
    /\ \/ Repair /\ UNCHANGED pending
       \/ ask = 2 /\ GiveUp
    /\ UNCHANGED <<op, attempt, passed>>

(* Network, 429 or 5xx: retried while attempts remain. *)
AttemptsLeft_OneMore == try <= maxAttempts
AttemptsLeft == try < maxAttempts
TransientError ==
    /\ stage = "calling"
    /\ \E d \in Latencies : d < Limit /\ now' = now + d
    /\ calls' = calls + 1
    /\ \/ /\ AttemptsLeft
          /\ stage' = "backoff"
          /\ UNCHANGED <<topic, ask, try, pending>>
       \/ ~AttemptsLeft /\ GiveUp
    /\ UNCHANGED <<op, attempt, passed>>

(* Any other 4xx: not retried. *)
PermanentError ==
    /\ stage = "calling"
    /\ \E d \in Latencies : d < Limit /\ now' = now + d
    /\ calls' = calls + 1
    /\ GiveUp
    /\ UNCHANGED <<op, attempt, passed>>

(* ErrTimeout: not retried either, even if the request has time left. *)
CallTimesOut ==
    /\ stage = "calling"
    /\ \E d \in Latencies : d >= Limit
    /\ now' = now + Limit
    /\ calls' = calls + 1
    /\ GiveUp
    /\ UNCHANGED <<op, attempt, passed>>

(* sleepCtx: the whole delay, or until the deadline. *)
BackOff_SleepsAgain ==
    /\ stage = "backoff"
    /\ IF now + backoff(try) < generationTimeout
       THEN now' = now + backoff(try) /\ try' = try + 1 /\ stage' = "calling"
       ELSE now' = generationTimeout /\ UNCHANGED <<try, stage>>
    /\ UNCHANGED <<op, attempt, ask, topic, passed, pending, calls>>
BackOff ==
    /\ stage = "backoff"
    /\ IF now + backoff(try) < generationTimeout
       THEN /\ now' = now + backoff(try)
            /\ try' = try + 1
            /\ stage' = "calling"
            /\ UNCHANGED <<topic, ask, pending>>
       ELSE now' = generationTimeout /\ GiveUp
    /\ UNCHANGED <<op, attempt, passed, calls>>

-----------------------------------------------------------------------------
(* The checks of a reply: the number of recipes first, in every round, and *)
(* then the dislikes, which are worth another round.                       *)
Retriable == "count" \in passed /\ "dislikes" \notin passed /\ attempt <= dislikeRetries

AskAgain ==
    /\ stage = "checking"
    /\ Retriable
    /\ attempt' = attempt + 1
    /\ Ask(Recipes, 1)
    /\ UNCHANGED <<op, now, passed, pending, calls>>

(* Portions and variety follow, once no disliked ingredient is left. *)
Accepted_WhenTired ==
    /\ Checks \ {"dislikes"} \subseteq passed
    /\ ~Retriable
Accepted == passed = Checks

Accept ==
    /\ stage = "checking"
    /\ Accepted
    /\ stage' = "listing"
    /\ UNCHANGED <<op, now, attempt, ask, try, topic, passed, pending, calls>>

Reject ==
    /\ stage = "checking"
    /\ ~Accepted
    /\ ~Retriable
    /\ stage' = "failed"
    /\ UNCHANGED <<op, now, attempt, ask, try, topic, passed, pending, calls>>

-----------------------------------------------------------------------------
(* ShoppingBuilder.Build: some of the names are in the cache.  If it cannot *)
(* be read, all of them are asked for.                                     *)
ReadCache ==
    /\ stage = "listing"
    /\ pending' \in SUBSET Names
    /\ stage' = "sorting"
    /\ UNCHANGED <<op, now, attempt, ask, try, topic, passed, calls>>

Categorize ==
    /\ stage = "sorting"
    /\ \E name \in pending : Ask(name, 1)
    /\ UNCHANGED <<op, now, attempt, passed, pending, calls>>

ListBuilt ==
    /\ stage = "sorting"
    /\ pending = {}
    /\ stage' = "writing"
    /\ UNCHANGED <<op, now, attempt, ask, try, topic, passed, pending, calls>>

(* The plan is read and the transaction runs, if the deadline permits. *)
Store ==
    /\ stage = "writing"
    /\ stage' = IF now < generationTimeout THEN "stored" ELSE "failed"
    /\ UNCHANGED <<op, now, attempt, ask, try, topic, passed, pending, calls>>

Next ==
    \/ Begin \/ Reply \/ InvalidReply \/ TransientError \/ PermanentError
    \/ CallTimesOut \/ BackOff \/ AskAgain \/ Accept \/ Reject
    \/ ReadCache \/ Categorize \/ ListBuilt \/ Store

(* The goroutine of the request runs, and a call or a sleep ends by itself *)
(* or by the deadline.                                                     *)
Spec == Init /\ [][Next]_vars /\ WF_vars(Next)
-----------------------------------------------------------------------------
(* Fail closed: whatever was asked again, for whatever reason, a week is   *)
(* stored only if the reply it was made of passes every check.             *)
FailClosed == stage = "stored" /\ op # "cookAgain" => passed = Checks

(* The sum of timeouts, retries and repairs never exceeds the deadline of  *)
(* the request, and nothing is stored after it.                            *)
WithinDeadline ==
    /\ now <= generationTimeout
    /\ stage = "stored" => now < generationTimeout

(* What a request can cost: each question is asked at most twice, and each *)
(* time the provider is called at most maxAttempts times.                  *)
CallBudget ==
    calls <= 2 * maxAttempts * (Cardinality(Names) + IF op = "cookAgain" THEN 0 ELSE 1 + dislikeRetries)

(* Once the recipes are there, no categorizer error can lose them: only    *)
(* the deadline can.                                                       *)
OnlyTimeLosesAcceptedWeek ==
    [][stage' = "failed" /\ (topic \in Names \/ stage \in {"listing", "sorting", "writing"})
         => now' = generationTimeout]_vars

(* The nested loops end: the request is answered. *)
Answered == <>Ended

(* The recipe cards of a stored week are rendered to the user, who waits   *)
(* for them: after WriteTimeout the connection takes no more.              *)
CardsReachUser == stage = "stored" => now <= writeTimeout
=============================================================================
