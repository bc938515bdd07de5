------------------------------- MODULE Marks -------------------------------
(***************************************************************************)
(* What people tap on an open page: a line of the shopping list is checked *)
(* off, removed and taken back; a recipe is liked, disliked or wanted      *)
(* again.  Both are flags of a row that a fragment of the page shows.      *)
(*                                                                         *)
(* A tap posts the state it wants (never "toggle"), and the answer         *)
(* replaces the fragment.  Until then the page shows what the browser made *)
(* of the tap.  Meanwhile other phones tap, the list is rebuilt by a swap, *)
(* an answer is lost, and a request is carried out twice.  A page has no   *)
(* way to learn of any of this until it is loaded again.                   *)
(*                                                                         *)
(* A statement of the database is one step.  SetFeedback is two of them,   *)
(* but what the first reads is overwritten by the second in every column   *)
(* that ever changes, and no recipe is deleted: it is one step here.       *)
(*                                                                         *)
(* An operator with an underscore in its name is not the program, but a    *)
(* slip in the definition that follows it.                                 *)
(***************************************************************************)
EXTENDS Naturals, FiniteSets

CONSTANTS
    Taps,       \* requests that taps may send
    Pages,      \* open pages
    Items,      \* ids for lines of shopping lists
    Recipes,    \* stored recipes
    Reactions,  \* the flags of a recipe: liked, disliked, cook again
    MaxLines,   \* bound: lines of a list
    MaxRepeats  \* bound: requests that are delivered twice

Controls == Items \cup Recipes
ItemMarks == {"checked", "removed"}

ASSUME ControlsAssumption == Items \cap Recipes = {}
ASSUME ReactionsAssumption == ItemMarks \cap Reactions = {} /\ "absent" \notin Reactions

(* In place of flags: no such row, or nothing of it on the page. *)
Absent == {"absent"}

Flags(c) == IF c \in Items THEN ItemMarks ELSE Reactions
Contents == {Absent} \cup SUBSET (ItemMarks \cup Reactions)

Stages == {"queued", "sent", "written", "answered", "failed", "ended"}

Requests ==
    [page : Pages, control : Controls, mark : ItemMarks \cup Reactions,
     on : SUBSET (ItemMarks \cup Reactions), stage : Stages, content : Contents]
Unused == [stage |-> "unused"]

VARIABLES
    marks,     \* the flags stored in each row
    listed,    \* the lines of the current list
    fresh,     \* ids that no line had yet
    view,      \* the flags that each page shows of each row
    request,   \* what each tap posted and how far it got
    heeded,    \* requests whose answer still has its place on the page
    repeated,  \* requests that were carried out again
    sure       \* history: what a page shows and nothing can have belied

vars == <<marks, listed, fresh, view, request, heeded, repeated, sure>>

TypeOK ==
    /\ marks \in [Controls -> Contents]
    /\ \A c \in Controls : marks[c] # Absent => marks[c] \subseteq Flags(c)
    /\ fresh \subseteq Items
    /\ listed \subseteq Items \ fresh
    /\ view \in [Pages -> [Controls -> Contents]]
    /\ request \in [Taps -> Requests \cup {Unused}]
    /\ heeded \subseteq Taps
    /\ repeated \subseteq Taps
    /\ sure \subseteq Pages \X Controls

Init ==
    /\ marks = [c \in Controls |-> IF c \in Items THEN Absent ELSE {}]
    /\ listed = {}
    /\ fresh = Items
    /\ view = [p \in Pages |-> [c \in Controls |-> Absent]]
    /\ request = [t \in Taps |-> Unused]
    /\ heeded = {}
    /\ repeated = {}
    /\ sure = {}
-----------------------------------------------------------------------------
Flip(flags, m) == IF m \in flags THEN flags \ {m} ELSE flags \cup {m}

(* A line that is removed is a stub with a button to undo it. *)
Offered(p, c) ==
    CASE view[p][c] = Absent -> {}
      [] "removed" \in view[p][c] -> {"removed"}
      [] OTHER -> Flags(c)

(* A box posts itself, a reaction the whole form, and the button of a line *)
(* or of its stub asks for the opposite of what is shown.                  *)
Posted(c, m, shown) ==
    CASE c \in Recipes -> shown
      [] m = "checked" -> shown \cap {"checked"}
      [] OTHER -> {"removed"} \ shown

(* The requests a fragment waits for; one that is queued is not under way. *)
Waiting(p, c) == {t \in heeded : request[t].page = p /\ request[t].control = c}
UnderWay(p, c) == {t \in Waiting(p, c) : request[t].stage # "queued"}

Ended(r) == [r EXCEPT !.stage = "ended", !.content = {}]

(* An element whose request is under way queues the next tap, and keeps    *)
(* only the latest of them.                                                *)
Tap(t, p, c, m) ==
    /\ request[t] = Unused
    /\ m \in Offered(p, c)
    /\ LET shown == IF m = "removed" THEN view[p][c] ELSE Flip(view[p][c], m)
           same == {u \in Waiting(p, c) : request[u].mark = m}
           queued == {u \in same : request[u].stage = "queued"}
       IN  /\ view' = [view EXCEPT ![p][c] = shown]
           /\ request' = [u \in Taps |->
                CASE u = t -> [page |-> p, control |-> c, mark |-> m,
                               on |-> Posted(c, m, shown), content |-> {},
                               stage |-> IF same = {} THEN "sent" ELSE "queued"]
                  [] u \in queued -> Ended(request[u])
                  [] OTHER -> request[u]]
           /\ heeded' = (heeded \ queued) \cup {t}
           /\ sure' = IF UnderWay(p, c) \subseteq same THEN sure ELSE sure \ {<<p, c>>}
    /\ UNCHANGED <<marks, listed, fresh, repeated>>

(* A page is opened or reloaded: the shopping list without the lines that  *)
(* are removed, a recipe, or the cards of a week.  What the page waited    *)
(* for has no place any more.                                              *)
Screens == {Items} \cup (SUBSET Recipes \ {{}})
Listed(c) == c \in Items => c \in listed /\ "removed" \notin marks[c]

Load(p, screen) ==
    /\ view' = [view EXCEPT ![p] = [c \in Controls |->
                  IF c \in screen /\ Listed(c) THEN marks[c] ELSE Absent]]
    /\ heeded' = {t \in heeded : request[t].page # p}
    /\ request' = [t \in Taps |->
                     IF t \in heeded /\ request[t].page = p /\ request[t].stage = "queued"
                     THEN Ended(request[t]) ELSE request[t]]
    /\ sure' = (sure \ ({p} \X Controls)) \cup ({p} \X {c \in screen : Listed(c)})
    /\ UNCHANGED <<marks, listed, fresh, repeated>>
-----------------------------------------------------------------------------
(* The flags a request is about, and the row as its UPDATE leaves it.      *)
Scope(r) == IF r.control \in Recipes THEN Reactions ELSE {r.mark}

Written_Toggled(r) ==
    LET row == marks[r.control]
    IN  (row \ r.on) \cup (r.on \ row)
Written(r) == (marks[r.control] \ Scope(r)) \cup r.on

(* History.  After a write no page is sure of the row, except the page     *)
(* that asked, if it asked for nothing else: that one will see what it     *)
(* wrote.  The answer to "check" does not tell whether the line has been   *)
(* removed, so it makes no page sure.                                      *)
SureAfter(t, row) ==
    LET r == request[t]
        own == IF t \in heeded /\ UnderWay(r.page, r.control) = {t}
               THEN {<<r.page, r.control>>} ELSE {}
        belied == IF row = marks[r.control] THEN {} ELSE Pages \X {r.control}
    IN  IF r.mark = "checked" /\ row # Absent
        THEN sure \ (belied \ own)
        ELSE (sure \ belied) \cup own

(* The UPDATE of a row that may have vanished: then no row is affected.    *)
Store_Upsert(t, row, found, notFound, content) ==
    /\ marks' = [marks EXCEPT ![request[t].control] = row \ Absent]
    /\ request' = [request EXCEPT ![t].stage = found, ![t].content = content]
    /\ sure' = SureAfter(t, row \ Absent)
    /\ UNCHANGED <<listed, fresh, view, heeded, repeated>>
Store_BlindWrite(t, row, found, notFound, content) ==
    /\ marks' = [marks EXCEPT ![request[t].control] = row]
    /\ request' = [request EXCEPT ![t].stage = found, ![t].content = content]
    /\ sure' = SureAfter(t, row)
    /\ UNCHANGED <<listed, fresh, view, heeded, repeated>>
Store_ByPlace(t, row, found, notFound, content) ==
    LET c == request[t].control
        successors == IF marks[c] = Absent /\ c \in Items THEN listed ELSE {c}
    IN  /\ marks' = [d \in Controls |-> IF d \in successors THEN row \ Absent ELSE marks[d]]
        /\ request' = [request EXCEPT ![t].stage = found, ![t].content = content]
        /\ sure' = SureAfter(t, row)
        /\ UNCHANGED <<listed, fresh, view, heeded, repeated>>
Store(t, row, found, notFound, content) ==
    LET c == request[t].control IN
    /\ IF marks[c] = Absent
       THEN /\ request' = [request EXCEPT ![t].stage = notFound, ![t].content = Absent]
            /\ sure' = SureAfter(t, Absent)
            /\ UNCHANGED marks
       ELSE /\ marks' = [marks EXCEPT ![c] = row]
            /\ request' = [request EXCEPT ![t].stage = found, ![t].content = content]
            /\ sure' = SureAfter(t, row)
    /\ UNCHANGED <<listed, fresh, view, heeded, repeated>>

Sent(t) == request[t].stage = "sent"

(* POST /shopping/item/{id}/check: a vanished line is answered with nothing. *)
Check(t) ==
    /\ Sent(t) /\ request[t].mark = "checked"
    /\ Store(t, Written(request[t]), "written", "answered", {})

(* POST /shopping/item/{id}/remove: the answer is the stub. *)
Remove(t) ==
    /\ Sent(t) /\ request[t].mark = "removed" /\ request[t].on # {}
    /\ Store(t, Written(request[t]), "answered", "answered", {"removed"})

(* POST /shopping/item/{id}/restore: a vanished line is an error. *)
Restore(t) ==
    /\ Sent(t) /\ request[t].mark = "removed" /\ request[t].on = {}
    /\ Store(t, Written(request[t]), "written", "failed", {})

(* renderItem: the line is read again and shown, whether removed or not.   *)
RenderItem(t) ==
    /\ request[t].stage = "written"
    /\ request' = [request EXCEPT ![t].stage = "answered",
                     ![t].content = marks[request[t].control] \ {"removed"}]
    /\ UNCHANGED <<marks, listed, fresh, view, heeded, repeated, sure>>

(* POST /recipe/{id}/feedback: the form is rendered from what was posted.  *)
SetFeedback(t) ==
    /\ Sent(t) /\ request[t].control \in Recipes
    /\ Store(t, Written(request[t]), "answered", "answered", request[t].on)

(* A statement fails, or the context of the request is cancelled. *)
Fail(t) ==
    /\ request[t].stage \in {"sent", "written"}
    /\ request' = [request EXCEPT ![t].stage = "failed"]
    /\ UNCHANGED <<marks, listed, fresh, view, heeded, repeated, sure>>

(* The request is delivered again after it was carried out. *)
Repeat(t) ==
    /\ request[t].stage \in {"written", "answered"}
    /\ t \notin repeated
    /\ Cardinality(repeated) < MaxRepeats
    /\ repeated' = repeated \cup {t}
    /\ request' = [request EXCEPT ![t].stage = "sent"]
    /\ UNCHANGED <<marks, listed, fresh, view, heeded, sure>>
-----------------------------------------------------------------------------
(* The answer replaces the fragment, and with it the elements that other   *)
(* taps of the fragment came from: their answers have no place any more.   *)
SwapIn(t) ==
    LET r == request[t] IN
    /\ t \in heeded /\ r.stage = "answered"
    /\ view' = [view EXCEPT ![r.page][r.control] = r.content]
    /\ heeded' = heeded \ Waiting(r.page, r.control)
    /\ request' = [u \in Taps |->
         IF u = t \/ (u \in Waiting(r.page, r.control) /\ request[u].stage = "queued")
         THEN Ended(request[u]) ELSE request[u]]
    /\ UNCHANGED <<marks, listed, fresh, repeated, sure>>

(* An error is not shown: the fragment stays as the tap left it, and a tap *)
(* that was queued at the same element is sent.                            *)
Unanswered(t, left) ==
    LET r == request[t]
        next == {u \in Waiting(r.page, r.control) : request[u].mark = r.mark /\ request[u].stage = "queued"}
    IN  /\ t \in heeded
        /\ heeded' = heeded \ {t}
        /\ sure' = sure \ {<<r.page, r.control>>}
        /\ request' = [u \in Taps |->
             CASE u = t -> left
               [] u \in next -> [request[u] EXCEPT !.stage = "sent",
                                   !.on = Posted(r.control, r.mark, view[r.page][r.control])]
               [] OTHER -> request[u]]
        /\ UNCHANGED <<marks, listed, fresh, view, repeated>>

ErrorAnswered(t) == request[t].stage = "failed" /\ Unanswered(t, Ended(request[t]))

(* The page gives up; the request may still be carried out. *)
ConnectionBreaks(t) ==
    /\ request[t].stage \in {"sent", "written", "answered"}
    /\ Unanswered(t, request[t])

(* An answer that nothing waits for. *)
Discard(t) ==
    /\ t \notin heeded /\ request[t].stage \in {"answered", "failed"}
    /\ request' = [request EXCEPT ![t] = Ended(@)]
    /\ UNCHANGED <<marks, listed, fresh, view, heeded, repeated, sure>>
-----------------------------------------------------------------------------
(* The list of a new week: the old lines stay, with their archived plan. *)
NewWeek ==
    \E new \in SUBSET fresh :
        /\ Cardinality(new) <= MaxLines
        /\ marks' = [c \in Controls |-> IF c \in new THEN {} ELSE marks[c]]
        /\ listed' = new
        /\ fresh' = fresh \ new
        /\ sure' = sure \ (Pages \X (listed \cup new))
        /\ UNCHANGED <<view, request, heeded, repeated>>

(* SwapRecipeInPlan: the lines are deleted, and others inserted unmarked.  *)
ReplaceItems ==
    \E new \in SUBSET fresh :
        /\ Cardinality(new) <= MaxLines
        /\ listed # {}
        /\ marks' = [c \in Controls |->
                       CASE c \in new -> {}
                         [] c \in listed -> Absent
                         [] OTHER -> marks[c]]
        /\ listed' = new
        /\ fresh' = fresh \ new
        /\ sure' = sure \ (Pages \X (listed \cup new))
        /\ UNCHANGED <<view, request, heeded, repeated>>

Next ==
    \/ \E t \in Taps :
         \/ \E p \in Pages, c \in Controls, m \in ItemMarks \cup Reactions : Tap(t, p, c, m)
         \/ Check(t) \/ Remove(t) \/ Restore(t) \/ RenderItem(t) \/ SetFeedback(t)
         \/ Fail(t) \/ Repeat(t)
         \/ SwapIn(t) \/ ErrorAnswered(t) \/ ConnectionBreaks(t) \/ Discard(t)
    \/ \E p \in Pages, screen \in Screens : Load(p, screen)
    \/ NewWeek
    \/ ReplaceItems

Spec == Init /\ [][Next]_vars
-----------------------------------------------------------------------------
(* What a page should show of a row: a removed line as its stub. *)
Shown(c) == IF "removed" \in marks[c] THEN {"removed"} ELSE marks[c]

(* A page that waits for nothing shows what is stored, however often its   *)
(* requests were carried out, unless it cannot know: another page wrote,   *)
(* the list was replaced, an answer was lost, or it tapped twice at once.  *)
SettledPageTellsTruth ==
    \A p \in Pages, c \in Controls :
        <<p, c>> \in sure /\ Waiting(p, c) = {} => view[p][c] = Shown(c)

(* A row gets no mark that nobody gave it: a late tap never lands on the   *)
(* line that took the place of the one it was meant for, and a form that   *)
(* is posted whole brings back at most what someone once chose.  With      *)
(* which marks a new list starts is left open.                             *)
MarksAreMeant ==
    [][\A c \in Controls : marks[c] # Absent =>
         \A m \in (marks'[c] \ marks[c]) \ Absent :
           \E t \in Taps : /\ request'[t] # Unused
                           /\ request'[t].control = c
                           /\ request'[t].mark = m]_vars

(* A line that a swap deleted stays deleted, whatever is still on its way. *)
GhostsStayGone ==
    [][\A c \in Items : c \notin fresh /\ marks[c] = Absent => marks'[c] = Absent]_vars
=============================================================================
