------------------------- MODULE ServiceWorkerProofs -------------------------
(***************************************************************************)
(* What the service worker keeps for any paths, any number of deployments  *)
(* and of answers that wait to be stored, and workers that are replaced    *)
(* while they still do it.                                                 *)
(***************************************************************************)
EXTENDS ServiceWorker, TLAPS

ShellOf(v) == <<"shell", v>>

(* Of any caches, one was created first: what caches.match needs. *)
Ordered ==
    \A caches \in SUBSET existing :
        caches # {} => \E c \in caches : \A d \in caches \ {c} : <<c, d>> \in before

(* An entry, or an answer that will be one: assets are in shells only, and *)
(* not older than their shell; a shell has whole pages, "/" once it is one;*)
(* only "/" in a shell can be a redirection.                               *)
Fits(c, u, answer) ==
    IF u \in Assets
    THEN c[1] = "shell" /\ answer.kind = "asset" /\ answer.version >= c[2]
    ELSE /\ c[1] = "shell" /\ answer = Answer("page", 0) /\ u = Home => onboarded
         /\ answer.kind = "redirected" => c[1] = "shell" /\ u = Home

Complete(v) ==
    /\ ShellOf(v) \in existing
    /\ \A u \in Shell : stored[ShellOf(v)][u] # Missing

(* The worker that answers has its whole shell, and so has one that is     *)
(* ready to; caches that are there and were created before that shell are  *)
(* of the same worker.                                                     *)
WorkersInv ==
    /\ active <= deployed /\ next <= deployed
    /\ next # 0 => ShellOf(next) \in existing
    /\ ready => next # 0 /\ Complete(next)
    /\ active # 0 => Complete(active)
    /\ active # 0 => \A c \in existing : <<c, ShellOf(active)>> \in before => c[2] = active

EntriesInv ==
    /\ \A c \in CacheNames, u \in Urls : stored[c][u] # Missing => Fits(c, u, stored[c][u])
    /\ \A p \in puts : /\ Fits(p.cache, p.url, p.response)
                       /\ p.cache[1] = "shell" /\ p.url \notin Assets
                            => p.response = Answer("page", 0)

IInv == TypeOK /\ Ordered /\ WorkersInv /\ EntriesInv

USE UrlsAssumption, BoundsAssumption

LEMMA AnswerFacts ==
    /\ Missing \notin Storable /\ Error \notin Storable
    /\ Answer("page", 0) \in Storable /\ Answer("fragment", 0) \in Storable
    /\ Answer("redirected", 0) \in Storable
    /\ \A v \in Versions : Answer("asset", v) \in Storable
    /\ \A k, v : Answer(k, v).kind = k /\ Answer(k, v).version = v
    /\ Versions \subseteq Nat \ {0}
<1>1. \A k, v : Answer(k, v).kind = k /\ Answer(k, v).version = v
  BY DEF Answer
<1>2. \A a \in Storable : a.kind \in {"page", "fragment", "redirected", "asset"}
  BY <1>1 DEF Storable
<1>3. Missing.kind = "missing" /\ Error.kind = "error"
  BY <1>1 DEF Missing, Error
<1>4. Missing \notin Storable /\ Error \notin Storable
  BY <1>2, <1>3
<1> QED
  BY <1>1, <1>4 DEF Storable, Versions

LEMMA NameFacts ==
    /\ \A v \in Versions : ShellOf(v) \in CacheNames /\ ShellOf(v)[1] = "shell" /\ ShellOf(v)[2] = v
    /\ \A c \in CacheNames : c[1] = "shell" => c = ShellOf(c[2])
    /\ \A c \in CacheNames : c[2] \in Versions
  BY DEF CacheNames, ShellOf

LEMMA InitIInv == Init => IInv
<1> SUFFICES ASSUME Init PROVE IInv
  OBVIOUS
<1>1. \A c \in CacheNames, u \in Urls : stored[c][u] = Missing
  BY DEF Init
<1>2. stored \in [CacheNames -> [Urls -> Storable \cup {Missing}]]
  BY DEF Init
<1>3. deployed \in Versions /\ 0 \in 0 .. MaxVersion
  BY DEF Init, Versions
<1>4. TypeOK
  BY <1>1, <1>2, <1>3 DEF Init, TypeOK
<1> QED
  BY <1>1, <1>3, <1>4 DEF Init, IInv, WorkersInv, EntriesInv, Ordered, Versions

(* A cache that is new is the youngest. *)
LEMMA OpenKeeps ==
    ASSUME Ordered, before \subseteq existing \X existing, existing \subseteq CacheNames,
           NEW c \in CacheNames, Open(c)
    PROVE  /\ Ordered'
           /\ existing \subseteq existing' /\ c \in existing' /\ existing' \subseteq CacheNames
           /\ before' \subseteq existing' \X existing'
           /\ \A d \in existing' : \A e \in existing : <<d, e>> \in before' => <<d, e>> \in before
<1>1. existing' = existing \cup {c}
  BY DEF Open
<1>2. CASE c \in existing
  BY <1>2 DEF Open, Ordered
<1>3. CASE c \notin existing
  <2>1. before' = before \cup (existing \X {c})
    BY <1>3 DEF Open
  <2>2. ASSUME NEW caches \in SUBSET existing', caches # {}
        PROVE  \E b \in caches : \A d \in caches \ {b} : <<b, d>> \in before'
    <3>1. CASE caches \ {c} = {}
      BY <2>2, <3>1
    <3>2. CASE caches \ {c} # {}
      <4>1. caches \ {c} \in SUBSET existing
        BY <1>1
      <4>2. PICK b \in caches \ {c} : \A d \in (caches \ {c}) \ {b} : <<b, d>> \in before
        BY <3>2, <4>1 DEF Ordered
      <4>3. b \in existing
        BY <4>1
      <4> QED
        BY <2>1, <4>2, <4>3
    <3> QED
      BY <3>1, <3>2
  <2> QED
    BY <1>1, <1>3, <2>1, <2>2 DEF Ordered
<1> QED
  BY <1>2, <1>3

(* Steps that store nothing and leave the caches as they are. *)
LEMMA QuietIInv ==
    ASSUME IInv, UNCHANGED <<existing, before, stored, active>>,
           deployed' \in Versions, deployed <= deployed', onboarded' \in BOOLEAN,
           onboarded => onboarded', next' \in {0, next}, ready' \in BOOLEAN,
           ready' => ready /\ next' = next, puts' \subseteq puts
    PROVE  IInv'
<1>0. TypeOK
  BY DEF IInv
<1>1. TypeOK'
  BY <1>0 DEF TypeOK
<1>2. active <= deployed' /\ next' <= deployed'
  BY AnswerFacts DEF IInv, WorkersInv, TypeOK
<1>3. \A c, u, answer : Fits(c, u, answer) => Fits(c, u, answer)'
  BY DEF Fits
<1>4. /\ Ordered'
      /\ next' # 0 => ShellOf(next') \in existing'
      /\ ready' => next' # 0 /\ Complete(next)'
      /\ active # 0 => Complete(active)'
      /\ active # 0 => \A c \in existing' : <<c, ShellOf(active)>> \in before' => c[2] = active
  BY DEF IInv, WorkersInv, Ordered, Complete
<1>5. \A c \in CacheNames, u \in Urls : stored'[c][u] # Missing => Fits(c, u, stored[c][u])'
  BY DEF IInv, EntriesInv, Fits
<1>6. \A p \in puts' : /\ Fits(p.cache, p.url, p.response)'
                       /\ p.cache[1] = "shell" /\ p.url \notin Assets
                            => p.response = Answer("page", 0)
  BY <1>3 DEF IInv, EntriesInv
<1> QED
  BY <1>1, <1>2, <1>4, <1>5, <1>6 DEF IInv, WorkersInv, EntriesInv

LEMMA EntriesFit ==
    ASSUME EntriesInv, UNCHANGED <<onboarded, stored, puts>>
    PROVE  EntriesInv'
<1>1. \A c, u, answer : Fits(c, u, answer)' = Fits(c, u, answer)
  BY DEF Fits
<1> QED
  BY <1>1 DEF EntriesInv

LEMMA StartInstallIInv == ASSUME IInv, StartInstall PROVE IInv'
<1>1. deployed \in Versions /\ ShellOf(deployed) \in CacheNames /\ Open(ShellOf(deployed))
  BY NameFacts DEF IInv, TypeOK, StartInstall, ShellOf
<1>2. /\ Ordered'
      /\ existing \subseteq existing' /\ ShellOf(deployed) \in existing' /\ existing' \subseteq CacheNames
      /\ before' \subseteq existing' \X existing'
      /\ \A d \in existing' : \A e \in existing : <<d, e>> \in before' => <<d, e>> \in before
  BY <1>1, OpenKeeps DEF IInv, TypeOK
<1>3. ~ready /\ next' = deployed /\ UNCHANGED <<deployed, onboarded, ready, active, stored, puts>>
  BY DEF IInv, WorkersInv, StartInstall
<1>4. TypeOK'
  <2>1. next' \in 0 .. MaxVersion
    BY <1>1, <1>3 DEF Versions
  <2>2. \A c \in CacheNames, u \in Urls : stored'[c][u] # Missing => c \in existing'
    BY <1>2, <1>3 DEF IInv, TypeOK
  <2> QED
    BY <1>1, <1>2, <1>3, <2>1, <2>2 DEF IInv, TypeOK
<1>5. active # 0 => Complete(active)' /\ ShellOf(active) \in existing
  BY <1>2, <1>3 DEF IInv, WorkersInv, Complete
<1>6. active # 0 => \A c \in existing' : <<c, ShellOf(active)>> \in before' => c[2] = active
  BY <1>2, <1>5 DEF IInv, WorkersInv, TypeOK
<1>7. active' <= deployed' /\ next' <= deployed' /\ ShellOf(next') \in existing'
  BY <1>1, <1>2, <1>3, AnswerFacts DEF IInv, WorkersInv
<1>8. active # 0 => Complete(active)'
  BY <1>5
<1>9. ~ready' /\ active' = active
  BY <1>3
<1>10. EntriesInv'
  BY <1>3, EntriesFit DEF IInv
<1> QED
  <2>1. /\ next' # 0 => ShellOf(next') \in existing'
        /\ ready' => next' # 0 /\ Complete(next)'
        /\ active' # 0 => Complete(active)'
        /\ active' # 0 => \A c \in existing' : (<<c, ShellOf(active)>> \in before)' => c[2] = active'
    BY <1>6, <1>7, <1>8, <1>9 DEF ShellOf
  <2>2. Ordered' /\ active' <= deployed' /\ next' <= deployed'
    BY <1>2, <1>7
  <2>3. WorkersInv'
    BY <2>1, <2>2 DEF WorkersInv
  <2> QED
    BY <1>4, <1>10, <2>2, <2>3 DEF IInv

LEMMA AddAllIInv == ASSUME IInv, AddAll PROVE IInv'
<1> DEFINE c0 == ShellOf(next)
<1>1. /\ next # 0 /\ next \in Versions /\ deployed \in Versions /\ next <= deployed
      /\ c0 \in CacheNames /\ c0 \in existing /\ c0[1] = "shell" /\ c0[2] = next
  BY NameFacts DEF IInv, WorkersInv, TypeOK, AddAll, Versions
<1>2. /\ ready' /\ UNCHANGED <<deployed, onboarded, next, active, existing, before, puts>>
      /\ stored' = [stored EXCEPT ![c0] = [u \in Urls |-> IF u \in Shell THEN ShellAnswer(u) ELSE @[u]]]
  BY DEF AddAll, ShellOf
<1>3. ASSUME NEW u \in Shell
      PROVE  ShellAnswer(u) \in Storable /\ Fits(c0, u, ShellAnswer(u)) /\ u \in Urls
  BY <1>1, AnswerFacts DEF ShellAnswer, Served, Fits, Shell, Urls
<1>4. \A c \in CacheNames, u \in Urls :
        stored'[c][u] = IF c = c0 /\ u \in Shell THEN ShellAnswer(u) ELSE stored[c][u]
  BY <1>1, <1>2 DEF IInv, TypeOK
<1>5. stored' \in [CacheNames -> [Urls -> Storable \cup {Missing}]]
  BY <1>2, <1>3 DEF IInv, TypeOK
<1>6. TypeOK'
  BY <1>1, <1>2, <1>4, <1>5 DEF IInv, TypeOK
<1>7. \A c, u, answer : Fits(c, u, answer)' = Fits(c, u, answer)
  BY <1>2 DEF Fits
<1>8. \A c \in CacheNames, u \in Urls : stored'[c][u] # Missing => Fits(c, u, stored[c][u])'
  BY <1>3, <1>4, <1>7 DEF IInv, EntriesInv
<1>9. Complete(next)'
  BY <1>1, <1>2, <1>3, <1>4, AnswerFacts DEF Complete
<1>10. active # 0 => Complete(active)'
  <2> SUFFICES ASSUME active # 0 PROVE Complete(active)'
    OBVIOUS
  <2>1. active \in Versions /\ ShellOf(active) \in CacheNames /\ Complete(active)
    BY NameFacts DEF IInv, WorkersInv, TypeOK, Versions
  <2> QED
    BY <1>2, <1>3, <1>4, <2>1, AnswerFacts DEF Complete
<1> QED
  BY <1>1, <1>2, <1>6, <1>7, <1>8, <1>9, <1>10 DEF IInv, WorkersInv, EntriesInv, Ordered

LEMMA ActivateIInv == ASSUME IInv, Activate PROVE IInv'
<1>1. /\ next # 0 /\ next \in Versions /\ Complete(next) /\ next <= deployed
      /\ active' = next /\ next' = 0 /\ ~ready' /\ UNCHANGED <<deployed, onboarded, puts>>
      /\ existing' = {c \in existing : c[2] = next}
      /\ before' = before \cap (existing' \X existing')
      /\ stored' = [c \in CacheNames |-> IF c[2] = next THEN stored[c] ELSE [u \in Urls |-> Missing]]
  BY DEF IInv, WorkersInv, TypeOK, Activate, Keep, Versions
<1>2. \A c \in CacheNames, u \in Urls : stored'[c][u] = IF c[2] = next THEN stored[c][u] ELSE Missing
  BY <1>1
<1>3. TypeOK'
  <2>1. stored' \in [CacheNames -> [Urls -> Storable \cup {Missing}]]
    BY <1>1 DEF IInv, TypeOK
  <2>2. \A c \in CacheNames, u \in Urls : stored'[c][u] # Missing => c \in existing'
    BY <1>1, <1>2 DEF IInv, TypeOK
  <2>3. 0 \in 0 .. MaxVersion /\ next \in 0 .. MaxVersion /\ TypeOK
    BY DEF IInv, TypeOK
  <2>4. deployed' \in Versions /\ onboarded' \in BOOLEAN /\ ready' = FALSE
    BY <1>1, <2>3 DEF TypeOK, Activate
  <2>5. existing' \subseteq CacheNames /\ before' \subseteq existing' \X existing'
    BY <1>1, <2>3 DEF TypeOK
  <2> QED
    BY <1>1, <2>1, <2>2, <2>3, <2>4, <2>5 DEF TypeOK
<1>4. Ordered'
  <2> SUFFICES ASSUME NEW caches \in SUBSET existing', caches # {}
               PROVE  \E c \in caches : \A d \in caches \ {c} : <<c, d>> \in before'
    BY DEF Ordered
  <2>1. PICK c \in caches : \A d \in caches \ {c} : <<c, d>> \in before
    BY <1>1 DEF IInv, Ordered
  <2> QED
    BY <1>1, <2>1
<1>5. ShellOf(next) \in existing' /\ \A u \in Shell : stored'[ShellOf(next)][u] # Missing
  <2>1. ShellOf(next) \in CacheNames /\ ShellOf(next)[2] = next /\ Shell \subseteq Urls
    BY <1>1, NameFacts DEF Shell, Urls
  <2> QED
    BY <1>1, <1>2, <2>1 DEF Complete
<1>6. \A c, u, answer : Fits(c, u, answer)' = Fits(c, u, answer)
  BY <1>1 DEF Fits
<1>7. \A c \in existing' : c[2] = next
  BY <1>1
<1>8. Complete(active)'
  BY <1>1, <1>5 DEF Complete
<1> QED
  BY <1>1, <1>2, <1>3, <1>4, <1>6, <1>7, <1>8 DEF IInv, WorkersInv, EntriesInv, TypeOK, Versions

LEMMA FetchIInv ==
    ASSUME IInv, NEW mode \in Modes, NEW u \in Urls, FetchAndCache(mode, u)
    PROVE  IInv'
<1> DEFINE p == [cache |-> <<CacheFor(mode), active>>, url |-> u, response |-> Served(mode)]
<1>1. /\ puts' = puts \cup {p}
      /\ UNCHANGED <<deployed, onboarded, next, ready, active, existing, before, stored>>
      /\ active \in Versions /\ deployed \in Versions /\ active <= deployed
  BY DEF IInv, WorkersInv, TypeOK, FetchAndCache, Versions
<1>2. Served(mode) \in Storable /\ CacheFor(mode) \in {"shell", "htmx"}
  BY <1>1, AnswerFacts DEF Served, Modes, CacheFor
<1>3. p \in [cache : CacheNames, url : Urls, response : Storable]
  BY <1>1, <1>2 DEF CacheNames
<1>4. u \notin Assets /\ CacheFor(mode) = "shell" => mode = "navigate" /\ Served(mode) = Answer("page", 0)
  BY DEF FetchAndCache, Asks, CacheFor, Modes, Served
<1>5. u \in Assets => CacheFor(mode) = "shell" /\ Served(mode) = Answer("asset", deployed)
  BY DEF FetchAndCache, Asks, CacheFor, Modes, Served
<1>6. Fits(p.cache, p.url, p.response)
  <2>1. Served(mode).kind # "redirected"
    BY AnswerFacts DEF Served, Modes
  <2>2. mode = "navigate" /\ u = Home => onboarded
    BY DEF FetchAndCache
  <2>3. p.cache = <<CacheFor(mode), active>> /\ p.url = u /\ p.response = Served(mode)
    OBVIOUS
  <2>4. CASE u \in Assets
    BY <1>1, <1>5, <2>3, <2>4, AnswerFacts DEF Fits
  <2>5. CASE u \notin Assets
    BY <1>4, <2>1, <2>2, <2>3, <2>5 DEF Fits
  <2> QED
    BY <2>4, <2>5
<1>7. p.cache[1] = "shell" /\ p.url \notin Assets => p.response = Answer("page", 0)
  BY <1>4
<1>8. TypeOK'
  BY <1>1, <1>3 DEF IInv, TypeOK
<1>9. \A c, v, answer : Fits(c, v, answer)' = Fits(c, v, answer)
  BY <1>1 DEF Fits
<1> HIDE DEF p
<1> QED
  BY <1>1, <1>6, <1>7, <1>8, <1>9 DEF IInv, WorkersInv, EntriesInv, Ordered, Complete

LEMMA PutIInv == ASSUME IInv, NEW p \in puts, Put(p) PROVE IInv'
<1>1. /\ p.cache \in CacheNames /\ p.url \in Urls /\ p.response \in Storable
      /\ puts' \subseteq puts /\ Open(p.cache)
      /\ stored' = [stored EXCEPT ![p.cache][p.url] = p.response]
      /\ UNCHANGED <<deployed, onboarded, next, ready, active>>
  BY DEF IInv, TypeOK, Put
<1>2. /\ Ordered'
      /\ existing \subseteq existing' /\ p.cache \in existing' /\ existing' \subseteq CacheNames
      /\ before' \subseteq existing' \X existing'
      /\ \A d \in existing' : \A e \in existing : <<d, e>> \in before' => <<d, e>> \in before
  BY <1>1, OpenKeeps DEF IInv, TypeOK
<1>3. \A c \in CacheNames, u \in Urls :
        stored'[c][u] = IF c = p.cache /\ u = p.url THEN p.response ELSE stored[c][u]
  BY <1>1 DEF IInv, TypeOK
<1>4. TypeOK'
  <2>1. stored' \in [CacheNames -> [Urls -> Storable \cup {Missing}]]
    BY <1>1 DEF IInv, TypeOK
  <2> QED
    BY <1>1, <1>2, <1>3, <2>1 DEF IInv, TypeOK
<1>5. \A c, u, answer : Fits(c, u, answer)' = Fits(c, u, answer)
  BY <1>1 DEF Fits
<1>6. \A c \in CacheNames, u \in Urls : stored'[c][u] # Missing => Fits(c, u, stored[c][u])'
  BY <1>3, <1>5 DEF IInv, EntriesInv
<1>7. EntriesInv'
  <2>1. \A q \in puts' : /\ Fits(q.cache, q.url, q.response)
                         /\ q.cache[1] = "shell" /\ q.url \notin Assets => q.response = Answer("page", 0)
    BY <1>1 DEF IInv, EntriesInv
  <2> QED
    BY <1>5, <1>6, <2>1 DEF EntriesInv
<1>8. ASSUME NEW v \in Versions, Complete(v)
      PROVE  ShellOf(v) \in existing' /\ \A u \in Shell : stored'[ShellOf(v)][u] # Missing
  <2>1. ShellOf(v) \in CacheNames /\ Shell \subseteq Urls
    BY NameFacts DEF Shell, Urls
  <2> QED
    BY <1>1, <1>2, <1>3, <1>8, <2>1, AnswerFacts DEF Complete
<1>9. active # 0 => active \in Versions
  BY DEF IInv, TypeOK, Versions
<1>10. active # 0 => \A c \in existing' : <<c, ShellOf(active)>> \in before' => c[2] = active
  BY <1>2 DEF IInv, WorkersInv, TypeOK, Complete
<1>11. next # 0 => next \in Versions
  BY DEF IInv, TypeOK, Versions
<1>12. active # 0 => Complete(active)'
  <2> SUFFICES ASSUME active # 0 PROVE Complete(active)'
    OBVIOUS
  <2>1. active \in Versions /\ Complete(active)
    BY <1>9 DEF IInv, WorkersInv
  <2> QED
    BY <1>1, <1>8, <2>1 DEF Complete
<1>13. ready => next # 0 /\ Complete(next)'
  <2> SUFFICES ASSUME ready PROVE next # 0 /\ Complete(next)'
    OBVIOUS
  <2>1. next # 0 /\ next \in Versions /\ Complete(next)
    BY <1>11 DEF IInv, WorkersInv
  <2>2. ShellOf(next) \in existing' /\ \A u \in Shell : stored'[ShellOf(next)][u] # Missing
    BY <1>8, <2>1
  <2>3. next' = next
    BY <1>1
  <2> QED
    BY <2>1, <2>2, <2>3 DEF Complete, ShellOf
<1>14. next # 0 => ShellOf(next) \in existing'
  BY <1>2 DEF IInv, WorkersInv
<1>15. active' <= deployed' /\ next' <= deployed'
  BY <1>1 DEF IInv, WorkersInv
<1> QED
  <2>1. /\ next' # 0 => ShellOf(next') \in existing'
        /\ ready' => next' # 0 /\ Complete(next)'
        /\ active' # 0 => Complete(active)'
        /\ active' # 0 => \A c \in existing' : (<<c, ShellOf(active)>> \in before)' => c[2] = active'
    BY <1>1, <1>10, <1>12, <1>13, <1>14 DEF ShellOf
  <2>2. Ordered' /\ active' <= deployed' /\ next' <= deployed'
    BY <1>2, <1>15
  <2>3. WorkersInv'
    BY <2>1, <2>2 DEF WorkersInv
  <2> QED
    BY <1>4, <1>7, <2>2, <2>3 DEF IInv

LEMMA StepIInv == IInv /\ [Next]_vars => IInv'
<1> SUFFICES ASSUME IInv, [Next]_vars PROVE IInv'
  OBVIOUS
<1>1. CASE UNCHANGED vars
  <2>1. UNCHANGED <<deployed, onboarded, next, ready, active, existing, before, stored, puts>>
    BY <1>1 DEF vars
  <2>2. deployed \in Versions /\ deployed \in Int /\ onboarded \in BOOLEAN /\ ready \in BOOLEAN
    BY DEF IInv, TypeOK, Versions
  <2> QED
    BY <2>1, <2>2, QuietIInv
<1>2. CASE Deploy
  BY <1>2, QuietIInv DEF Deploy, IInv, TypeOK, Versions
<1>3. CASE Onboard
  BY <1>3, QuietIInv DEF Onboard, IInv, TypeOK, Versions
<1>4. CASE StartInstall
  BY <1>4, StartInstallIInv
<1>5. CASE AddAll
  BY <1>5, AddAllIInv
<1>6. CASE InstallFails
  BY <1>6, QuietIInv DEF InstallFails, IInv, TypeOK, Versions
<1>7. CASE Activate
  BY <1>7, ActivateIInv
<1>8. ASSUME NEW mode \in Modes, NEW u \in Urls, FetchAndCache(mode, u) PROVE IInv'
  BY <1>8, FetchIInv
<1>9. ASSUME NEW p \in puts, Put(p) PROVE IInv'
  BY <1>9, PutIInv
<1>10. ASSUME NEW p \in puts, LosePut(p) PROVE IInv'
  BY <1>10, QuietIInv DEF LosePut, IInv, TypeOK, Versions
<1> QED
  BY <1>1, <1>2, <1>3, <1>4, <1>5, <1>6, <1>7, <1>8, <1>9, <1>10 DEF Next

LEMMA Invariance == Spec => []IInv
  BY InitIInv, StepIInv, PTL DEF Spec

-----------------------------------------------------------------------------
(* The caches and what waits to be stored keep their types. *)
THEOREM TypeCorrect == Spec => []TypeOK
<1>1. IInv => TypeOK
  BY DEF IInv
<1> QED
  BY <1>1, Invariance, PTL

(* A lookup finds an entry if any cache has one: of the oldest that does.  *)
LEMMA MatchFinds ==
    ASSUME IInv, NEW u \in Urls, NEW c \in existing, stored[c][u] # Missing
    PROVE  \E d \in existing : /\ Match(u) = stored[d][u] /\ stored[d][u] # Missing
                               /\ d = c \/ <<d, c>> \in before
<1> DEFINE hits == {d \in existing : stored[d][u] # Missing}
<1>1. hits \in SUBSET existing /\ hits # {} /\ c \in hits
  OBVIOUS
<1>2. \E d \in hits : \A e \in hits \ {d} : <<d, e>> \in before
  BY <1>1 DEF IInv, Ordered
<1>3. Oldest(hits) \in hits /\ \A e \in hits \ {Oldest(hits)} : <<Oldest(hits), e>> \in before
  BY <1>2 DEF Oldest
<1>4. Match(u) = stored[Oldest(hits)][u]
  BY <1>1 DEF Match
<1> HIDE DEF hits
<1>5. Oldest(hits) \in existing /\ stored[Oldest(hits)][u] # Missing
  BY <1>3 DEF hits
<1> QED
  BY <1>1, <1>3, <1>4, <1>5

(* Once a worker was activated, opening any address shows something        *)
(* offline, in the middle of an update and after a failed one: neither an  *)
(* error nor a redirection, which the browser refuses.  The exception is a *)
(* worker whose shell has "/" from before the onboarding: "/" itself, and  *)
(* what no cache has.                                                      *)
THEOREM AlwaysAnswered == Spec => []NavigationAnswered
<1>1. ASSUME IInv, active # 0, NEW u \in Urls
      PROVE  \/ Shows(OfflineAnswer("navigate", u))
             \/ ShellRedirects /\ (u = Home \/ Match(u) = Missing)
  <2> DEFINE c0 == ShellOf(active)
  <2>1. c0 \in existing /\ stored[c0][Home] # Missing /\ active \in Versions /\ Home \in Urls
    BY <1>1 DEF IInv, WorkersInv, TypeOK, Complete, Shell, Urls, Versions
  <2>2. \A c \in existing, v \in Urls :
          c \in CacheNames /\ (stored[c][v] # Missing => Fits(c, v, stored[c][v]))
    BY <1>1 DEF IInv, TypeOK, EntriesInv
  <2>3. \A c \in existing, v \in Urls : stored[c][v] \in Storable \cup {Missing}
    BY <1>1, <2>2 DEF IInv, TypeOK
  <2>4. \A a \in Storable : a.kind # "redirected" => Shows(a)
    BY AnswerFacts DEF Shows, Storable
  <2>5. Match(u) # Missing /\ u # Home => Shows(Match(u))
    <3>1. ASSUME NEW c \in existing, stored[c][u] # Missing, u # Home PROVE Shows(Match(u))
      <4>1. PICK d \in existing : Match(u) = stored[d][u] /\ stored[d][u] # Missing
        BY <1>1, <3>1, MatchFinds
      <4>2. Match(u) \in Storable /\ Match(u).kind # "redirected"
        <5>1. Match(u) \in Storable /\ Fits(d, u, Match(u))
          BY <2>2, <2>3, <4>1
        <5> QED
          BY <3>1, <5>1 DEF Fits
      <4> QED
        BY <2>4, <4>2
    <3>2. CASE \A c \in existing : stored[c][u] = Missing
      <4>1. {c \in existing : stored[c][u] # Missing} = {}
        BY <3>2
      <4> QED
        BY <4>1 DEF Match
    <3> QED
      BY <3>1, <3>2
  <2>6. Match(Home) # Missing /\ (ShellRedirects \/ Shows(Match(Home)))
    <3>1. PICK d \in existing : /\ Match(Home) = stored[d][Home] /\ stored[d][Home] # Missing
                                /\ d = c0 \/ <<d, c0>> \in before
      BY <1>1, <2>1, MatchFinds
    <3>2. d \in CacheNames /\ d[2] = active
      BY <1>1, <2>1, <2>2, <3>1, NameFacts DEF IInv, WorkersInv
    <3>3. Match(Home) \in Storable /\ Fits(d, Home, Match(Home)) /\ Home \notin Assets
      BY <2>1, <2>2, <2>3, <3>1
    <3>4. Match(Home).kind = "redirected" => d = c0 /\ ShellRedirects
      <4>1. Match(Home).kind = "redirected" => d[1] = "shell"
        BY <3>3 DEF Fits
      <4> QED
        BY <3>1, <3>2, <4>1, NameFacts DEF ShellRedirects, ShellOf
    <3> QED
      BY <2>4, <3>1, <3>3, <3>4
  <2>7. CASE Match(u) # Missing
    <3>1. OfflineAnswer("navigate", u) = Match(u)
      BY <2>7 DEF OfflineAnswer
    <3> QED
      BY <2>5, <2>6, <2>7, <3>1
  <2>8. CASE Match(u) = Missing
    <3>1. OfflineAnswer("navigate", u) = Match(Home)
      BY <2>6, <2>8 DEF OfflineAnswer
    <3> QED
      BY <2>6, <2>8, <3>1
  <2> QED
    BY <2>7, <2>8
<1>2. IInv => NavigationAnswered
  BY <1>1 DEF NavigationAnswered
<1> QED
  BY <1>2, Invariance, PTL

(* No asset is older than the worker that answers with it, although assets *)
(* are never asked for again and replaced workers may still store theirs.  *)
THEOREM AssetsAreCurrent == Spec => []NoOldAssets
<1>1. ASSUME IInv, active # 0, NEW u \in Assets PROVE OfflineAnswer("asset", u).version >= active
  <2>1. /\ ShellOf(active) \in existing /\ stored[ShellOf(active)][u] # Missing /\ u \in Urls
        /\ active \in Versions /\ ShellOf(active)[2] = active
    BY <1>1, NameFacts DEF IInv, WorkersInv, TypeOK, Complete, Shell, Urls, Versions
  <2>2. PICK d \in existing : /\ Match(u) = stored[d][u] /\ stored[d][u] # Missing
                              /\ d = ShellOf(active) \/ <<d, ShellOf(active)>> \in before
    BY <1>1, <2>1, MatchFinds
  <2>3. d \in CacheNames /\ d[2] \in Versions /\ d[2] >= active
    BY <1>1, <2>1, <2>2, NameFacts, AnswerFacts DEF IInv, WorkersInv, TypeOK
  <2>4. Match(u) \in Storable /\ Match(u).version >= d[2] /\ Match(u).kind = "asset"
    BY <1>1, <2>1, <2>2, <2>3 DEF IInv, EntriesInv, TypeOK, Fits
  <2>5. Match(u).version \in Nat
    BY <2>4, AnswerFacts DEF Storable, Answer
  <2> QED
    BY <2>1, <2>2, <2>3, <2>4, <2>5, AnswerFacts DEF OfflineAnswer
<1>2. IInv => NoOldAssets
  BY <1>1 DEF NoOldAssets
<1> QED
  BY <1>2, Invariance, PTL

(* A page in a shell stays one until the shell is deleted, however late    *)
(* other answers are stored.                                               *)
THEOREM PagesKept == Spec => PagesStayPages
<1> DEFINE Stays == \A v \in Versions, u \in Urls :
                      stored[ShellOf(v)][u] = Answer("page", 0)
                        => stored'[ShellOf(v)][u] \in {Answer("page", 0), Missing}
<1>1. ASSUME IInv, [Next]_vars PROVE Stays
  <2> SUFFICES ASSUME NEW v \in Versions, NEW u \in Urls, stored[ShellOf(v)][u] = Answer("page", 0)
               PROVE  stored'[ShellOf(v)][u] \in {Answer("page", 0), Missing}
    OBVIOUS
  <2> DEFINE c == ShellOf(v)
  <2>1. c \in CacheNames /\ c[1] = "shell"
    BY NameFacts
  <2>2. Fits(c, u, Answer("page", 0))
    BY <1>1, <2>1, AnswerFacts DEF IInv, EntriesInv
  <2>3. u \notin Assets /\ (u = Home => onboarded)
    BY <2>1, <2>2, AnswerFacts DEF Fits
  <2>4. stored \in [CacheNames -> [Urls -> Storable \cup {Missing}]]
    BY <1>1 DEF IInv, TypeOK
  <2>5. CASE stored' = stored
    BY <2>5
  <2>6. CASE AddAll
    <3>1. u \in Shell => ShellAnswer(u) = Answer("page", 0)
      BY <2>3 DEF Shell, ShellAnswer, Served
    <3>2. stored'[c][u] \in {stored[c][u], IF u \in Shell THEN ShellAnswer(u) ELSE stored[c][u]}
      BY <2>1, <2>4, <2>6 DEF AddAll
    <3> QED
      BY <3>1, <3>2
  <2>7. CASE Activate
    BY <2>1, <2>7 DEF Activate
  <2>8. ASSUME NEW p \in puts, Put(p) PROVE stored'[c][u] \in {Answer("page", 0), Missing}
    <3>1. stored'[c][u] = IF c = p.cache /\ u = p.url THEN p.response ELSE stored[c][u]
      BY <2>1, <2>4, <2>8 DEF Put
    <3>2. c = p.cache /\ u = p.url => p.response = Answer("page", 0)
      BY <1>1, <2>1, <2>3 DEF IInv, EntriesInv
    <3> QED
      BY <3>1, <3>2
  <2>9. \/ stored' = stored \/ AddAll \/ Activate \/ \E p \in puts : Put(p)
    BY <1>1 DEF Next, vars, Deploy, Onboard, StartInstall, InstallFails, FetchAndCache, LosePut
  <2> QED
    BY <2>5, <2>6, <2>7, <2>8, <2>9
<1>2. IInv /\ [Next]_vars => [Stays]_vars
  BY <1>1
<1>3. Spec => [][Stays]_vars
  BY <1>2, Invariance, PTL DEF Spec
<1> QED
  BY <1>3, PTL DEF PagesStayPages, ShellOf
=============================================================================
