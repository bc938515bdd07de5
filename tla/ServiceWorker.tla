---------------------------- MODULE ServiceWorker ----------------------------
(***************************************************************************)
(* The service worker of the pages: what it stores while the network is    *)
(* there, and what it answers when it is not.  Each deployed version of    *)
(* sw.js has two caches of its own, "shell" for whole pages and assets and *)
(* "htmx" for fragments, that it fills as answers come by.                 *)
(*                                                                         *)
(* Storing an answer is not waited for: it happens later, after other      *)
(* answers were stored, or never, and a worker that has been replaced may  *)
(* still do it.                                                            *)
(***************************************************************************)
EXTENDS Integers, FiniteSets

CONSTANTS
    Home,       \* the path "/"
    Pages,      \* the other paths
    Assets,     \* the paths under /static/
    MaxVersion, \* bound on the deployments
    MaxPuts     \* bound on the answers waiting to be stored

Urls == {Home} \cup Pages \cup Assets
Shell == {Home} \cup Assets
Versions == 1 .. MaxVersion
CacheNames == {"shell", "htmx"} \X Versions

(* What a request asks for: a whole page, a fragment, a whole page into    *)
(* which HTMX goes back, or an asset.                                      *)
Modes == {"navigate", "fragment", "restore", "asset"}

(* An answer with its content's version, which only matters for assets.    *)
(* "redirected" is a page that was reached through a redirect; "error" is  *)
(* no answer at all.                                                       *)
Answer(kind, version) == [kind |-> kind, version |-> version]
Storable == {Answer(k, 0) : k \in {"page", "fragment", "redirected"}}
              \cup {Answer("asset", v) : v \in Versions}
Error == Answer("error", 0)
Missing == Answer("missing", 0)

ASSUME UrlsAssumption == Home \notin Pages \cup Assets /\ Pages \cap Assets = {}
ASSUME BoundsAssumption == MaxVersion \in Nat \ {0} /\ MaxPuts \in Nat

VARIABLES
    deployed,   \* the version the server serves
    onboarded,  \* the household has been onboarded: "/" no longer redirects
    next,       \* the worker being installed, or 0
    ready,      \* it has stored its shell and waits to be activated
    active,     \* the worker that answers requests, or 0
    existing,   \* the names of the caches that exist
    before,     \* pairs of them: the first was created before the second
    stored,     \* their entries, Missing where there is none
    puts        \* answers that are still to be stored

vars == <<deployed, onboarded, next, ready, active, existing, before, stored, puts>>

TypeOK ==
    /\ deployed \in Versions
    /\ onboarded \in BOOLEAN
    /\ next \in 0 .. MaxVersion
    /\ ready \in BOOLEAN
    /\ active \in 0 .. MaxVersion
    /\ existing \subseteq CacheNames
    /\ before \subseteq existing \X existing
    /\ stored \in [CacheNames -> [Urls -> Storable \cup {Missing}]]
    /\ \A c \in CacheNames, u \in Urls : stored[c][u] # Missing => c \in existing
    /\ puts \subseteq [cache : CacheNames, url : Urls, response : Storable]

Init ==
    /\ deployed = 1
    /\ onboarded \in BOOLEAN
    /\ next = 0
    /\ ready = FALSE
    /\ active = 0
    /\ existing = {}
    /\ before = {}
    /\ stored = [c \in CacheNames |-> [u \in Urls |-> Missing]]
    /\ puts = {}

-----------------------------------------------------------------------------
(* The server. *)

Deploy ==
    /\ deployed < MaxVersion
    /\ deployed' = deployed + 1
    /\ UNCHANGED <<onboarded, next, ready, active, existing, before, stored, puts>>

Onboard ==
    /\ ~onboarded
    /\ onboarded' = TRUE
    /\ UNCHANGED <<deployed, next, ready, active, existing, before, stored, puts>>

Served(mode) ==
    CASE mode = "navigate" -> Answer("page", 0)
      [] mode = "fragment" -> Answer("fragment", 0)
      [] mode = "restore" -> Answer("page", 0)
      [] mode = "asset" -> Answer("asset", deployed)

-----------------------------------------------------------------------------
(* The life of a worker. *)

Open(c) ==
    /\ existing' = existing \cup {c}
    /\ before' = IF c \in existing THEN before ELSE before \cup (existing \X {c})

StartInstall ==
    /\ next = 0
    /\ deployed > active
    /\ next' = deployed
    /\ Open(<<"shell", deployed>>)
    /\ UNCHANGED <<deployed, onboarded, ready, active, stored, puts>>

(* cache.addAll: all of the shell, or nothing.  "/" redirects at first.    *)
ShellAnswer(u) ==
    IF u \in Assets THEN Served("asset")
    ELSE IF onboarded THEN Served("navigate") ELSE Answer("redirected", 0)
AddAll ==
    /\ next # 0
    /\ ~ready
    /\ stored' = [stored EXCEPT ![<<"shell", next>>] =
                    [u \in Urls |-> IF u \in Shell THEN ShellAnswer(u) ELSE @[u]]]
    /\ ready' = TRUE
    /\ UNCHANGED <<deployed, onboarded, next, active, existing, before, puts>>

InstallFails ==
    /\ next # 0
    /\ ~ready
    /\ next' = 0
    /\ UNCHANGED <<deployed, onboarded, ready, active, existing, before, stored, puts>>

(* Caches with other names are deleted; requests wait for that. *)
Keep_Everything(c) == TRUE
Keep(c) == c[2] = next
Activate ==
    /\ ready
    /\ active' = next
    /\ next' = 0
    /\ ready' = FALSE
    /\ existing' = {c \in existing : Keep(c)}
    /\ before' = before \cap (existing' \X existing')
    /\ stored' = [c \in CacheNames |-> IF Keep(c) THEN stored[c] ELSE [u \in Urls |-> Missing]]
    /\ UNCHANGED <<deployed, onboarded, puts>>

-----------------------------------------------------------------------------
(* Requests. *)

(* caches.match: the first hit in any of the caches. *)
Oldest(caches) == CHOOSE c \in caches : \A d \in caches \ {c} : <<c, d>> \in before
Match(u) ==
    LET hits == {c \in existing : stored[c][u] # Missing} IN
    IF hits = {} THEN Missing ELSE stored[Oldest(hits)][u]

CacheFor_OnePerWorker(mode) == "shell"
CacheFor(mode) == IF mode \in {"fragment", "restore"} THEN "htmx" ELSE "shell"

Asks(mode, u) == u \in Assets <=> mode = "asset"

(* The network answers.  Assets are only fetched if no cache has them; a   *)
(* redirected navigation is not an answer yet, the browser follows it.  An *)
(* answer that is not ok is passed on and nothing is stored.               *)
FetchAndCache(mode, u) ==
    /\ active # 0
    /\ Asks(mode, u)
    /\ mode = "asset" => Match(u) = Missing
    /\ ~(mode = "navigate" /\ u = Home /\ ~onboarded)
    /\ Cardinality(puts) < MaxPuts
    /\ puts' = puts \cup {[cache |-> <<CacheFor(mode), active>>, url |-> u,
                           response |-> Served(mode)]}
    /\ UNCHANGED <<deployed, onboarded, next, ready, active, existing, before, stored>>

(* What a request is answered if the network fails, and for an asset that  *)
(* a cache has also if it does not.                                        *)
OfflineAnswer(mode, u) ==
    CASE Match(u) # Missing -> Match(u)
      [] Match(u) = Missing /\ mode = "navigate" /\ Match(Home) # Missing -> Match(Home)
      [] OTHER -> Error

(* The browser shows no navigation an answer that was redirected before it *)
(* was stored: for the user it is an error.                                *)
Shows(answer) == answer.kind \notin {"redirected", "error"}

(* cache.put, at last, or not: the browser may stop a worker that has      *)
(* answered.                                                               *)
LosePut(p) ==
    /\ puts' = puts \ {p}
    /\ UNCHANGED <<deployed, onboarded, next, ready, active, existing, before, stored>>

Put(p) ==
    /\ puts' = puts \ {p}
    /\ Open(p.cache)
    /\ stored' = [stored EXCEPT ![p.cache][p.url] = p.response]
    /\ UNCHANGED <<deployed, onboarded, next, ready, active>>

Next ==
    \/ Deploy \/ Onboard
    \/ StartInstall \/ AddAll \/ InstallFails \/ Activate
    \/ \E mode \in Modes, u \in Urls : FetchAndCache(mode, u)
    \/ \E p \in puts : Put(p) \/ LosePut(p)

Spec == Init /\ [][Next]_vars

-----------------------------------------------------------------------------
(* A page is never replaced in its cache by a fragment or a redirection,   *)
(* however late an answer is stored: once "/" or a recipe is there as a    *)
(* page it stays one until the cache is deleted.                           *)
PagesStayPages ==
    [][\A v \in Versions, u \in Urls :
         stored[<<"shell", v>>][u] = Answer("page", 0)
           => stored'[<<"shell", v>>][u] \in {Answer("page", 0), Missing}]_vars

(* From the first activation on, opening any address shows something, with *)
(* or without network, in the middle of an update or after a failed one,   *)
(* unless the worker stored its shell when "/" still redirected and "/" was *)
(* not opened since: then "/" and what no cache has stay closed.  No older *)
(* or newer cache may get in the way.                                      *)
ShellRedirects == stored[<<"shell", active>>][Home].kind = "redirected"
NavigationAnswered ==
    active # 0 => \A u \in Urls :
        \/ Shows(OfflineAnswer("navigate", u))
        \/ ShellRedirects /\ (u = Home \/ Match(u) = Missing)

(* No page gets an asset that is older than the worker that answers:       *)
(* assets are never asked for again, so it takes the complete shell and    *)
(* the deletion of the caches that were created before it.                 *)
NoOldAssets ==
    active # 0 => \A u \in Assets : OfflineAnswer("asset", u).version >= active

(* "the two representations never collide": a whole document is not        *)
(* answered with a bare fragment, nor a fragment with a whole document.    *)
RepresentationsNeverCollide ==
    active # 0 => \A u \in {Home} \cup Pages :
        /\ OfflineAnswer("navigate", u).kind # "fragment"
        /\ OfflineAnswer("fragment", u).kind \notin {"page", "redirected"}
=============================================================================
