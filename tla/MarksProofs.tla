----------------------------- MODULE MarksProofs -----------------------------
(***************************************************************************)
(* What pages and rows keep for any number of taps, pages, lines, recipes  *)
(* and reactions, however often answers are lost and requests repeated.    *)
(***************************************************************************)
EXTENDS Marks, TLAPS

(* A request that the page can have made. *)
Good(r) ==
    /\ r \in Requests
    /\ r.mark \in Flags(r.control)
    /\ r.on \subseteq Scope(r)
    /\ r.content = Absent \/ r.content \subseteq Flags(r.control)

(* An answer has its place on a page only while the fragment is there. *)
Placed ==
    \A t \in heeded : /\ request[t] # Unused
                      /\ request[t].stage # "ended"
                      /\ view[request[t].page][request[t].control] # Absent

TInv ==
    /\ TypeOK
    /\ \A p \in Pages, c \in Controls : view[p][c] = Absent \/ view[p][c] \subseteq Flags(c)
    /\ \A t \in Taps : request[t] = Unused \/ Good(request[t])
    /\ Placed

USE ControlsAssumption, ReactionsAssumption

LEMMA FlagFacts ==
    /\ \A c \in Controls : Flags(c) \subseteq ItemMarks \cup Reactions
    /\ \A c \in Controls : "absent" \notin Flags(c)
    /\ \A r : Scope(r) \subseteq Reactions \cup {r.mark}
    /\ \A r : Good(r) => Scope(r) \subseteq Flags(r.control)
    /\ \A r : Good(r) => r # Unused
  BY DEF Flags, ItemMarks, Controls, Scope, Good, Requests, Unused, Stages

LEMMA GoodChanged ==
    ASSUME NEW r, Good(r), NEW s \in Stages, NEW x, x = Absent \/ x \subseteq Flags(r.control)
    PROVE  /\ Good([r EXCEPT !.stage = s])
           /\ Good([r EXCEPT !.stage = s, !.content = x])
           /\ Good(Ended(r))
<1>1. x \in Contents
  BY FlagFacts DEF Good, Requests, Contents
<1> QED
  BY <1>1 DEF Good, Requests, Scope, Ended, Stages, Contents

LEMMA PostedInScope ==
    ASSUME NEW c \in Controls, NEW m \in Flags(c), NEW shown \in SUBSET Flags(c)
    PROVE  /\ Posted(c, m, shown) \subseteq IF c \in Recipes THEN Reactions ELSE {m}
           /\ Posted(c, m, shown) \subseteq ItemMarks \cup Reactions
  BY DEF Posted, Controls, Flags, ItemMarks

LEMMA WrittenInFlags ==
    ASSUME TInv, NEW t \in Taps, request[t] # Unused, marks[request[t].control] # Absent
    PROVE  /\ request[t].control \in Controls
           /\ Written(request[t]) \subseteq Flags(request[t].control)
<1>1. Good(request[t]) /\ request[t].control \in Controls
  BY DEF TInv, Good, Requests
<1>2. marks[request[t].control] \subseteq Flags(request[t].control)
  BY <1>1 DEF TInv, TypeOK
<1> QED
  BY <1>1, <1>2, FlagFacts DEF Good, Written

LEMMA InitTInv == Init => TInv
  BY DEF Init, TInv, TypeOK, Placed, Contents, Flags, Controls

-----------------------------------------------------------------------------
(* A step that only takes request t to its next stage. *)
Moves(t, r) ==
    /\ request' = [request EXCEPT ![t] = r]
    /\ UNCHANGED <<listed, fresh, view, heeded>>

LEMMA StoreMoves ==
    ASSUME TInv, NEW t \in Taps, Sent(t), request[t] # Unused,
           NEW found \in Stages, NEW notFound \in Stages,
           NEW content \in SUBSET Flags(request[t].control),
           Store(t, Written(request[t]), found, notFound, content)
    PROVE  \/ /\ marks[request[t].control] = Absent
              /\ marks' = marks
              /\ Moves(t, [request[t] EXCEPT !.stage = notFound, !.content = Absent])
              /\ sure' = SureAfter(t, Absent)
           \/ /\ marks[request[t].control] # Absent
              /\ marks' = [marks EXCEPT ![request[t].control] = Written(request[t])]
              /\ Moves(t, [request[t] EXCEPT !.stage = found, !.content = content])
              /\ sure' = SureAfter(t, Written(request[t]))
  BY DEF Store, Moves, TInv, TypeOK, Good, Requests

MarksOK(m) ==
    /\ m \in [Controls -> Contents]
    /\ \A c \in Controls : m[c] # Absent => m[c] \subseteq Flags(c)

LEMMA MovesTInv ==
    ASSUME TInv, NEW t \in Taps, request[t] # Unused, NEW r, Moves(t, r), Good(r),
           r.page = request[t].page, r.control = request[t].control, r.stage # "ended",
           MarksOK(marks'), repeated' \subseteq Taps, sure' \subseteq Pages \X Controls
    PROVE  TInv'
<1>1. r \in Requests /\ r # Unused
  BY FlagFacts DEF Good
<1>2. TypeOK'
  BY <1>1 DEF TInv, TypeOK, Moves, MarksOK
<1>3. \A u \in Taps : request'[u] = IF u = t THEN r ELSE request[u]
  BY DEF TInv, TypeOK, Moves
<1>4. Placed'
  BY <1>1, <1>3 DEF TInv, TypeOK, Placed, Moves
<1>5. \A u \in Taps : request'[u] = Unused \/ Good(request'[u])
  BY <1>3 DEF TInv
<1>6. \A p \in Pages, c \in Controls : view'[p][c] = Absent \/ view'[p][c] \subseteq Flags(c)
  BY DEF TInv, Moves
<1> QED
  BY <1>2, <1>4, <1>5, <1>6 DEF TInv, Good, Scope, Requests

LEMMA SureAfterOK ==
    ASSUME TInv, NEW t \in Taps, request[t] # Unused, NEW row
    PROVE  SureAfter(t, row) \subseteq Pages \X Controls
<1>1. request[t].page \in Pages /\ request[t].control \in Controls
  BY DEF TInv, Good, Requests
<1> QED
  BY <1>1 DEF SureAfter, TInv, TypeOK

LEMMA StoreTInv ==
    ASSUME TInv, NEW t \in Taps, Sent(t), request[t] # Unused,
           NEW found \in Stages \ {"ended"}, NEW notFound \in Stages \ {"ended"},
           NEW content \in SUBSET Flags(request[t].control),
           Store(t, Written(request[t]), found, notFound, content)
    PROVE  TInv'
<1> DEFINE r == request[t]
           lost == [r EXCEPT !.stage = notFound, !.content = Absent]
           kept == [r EXCEPT !.stage = found, !.content = content]
<1>1. Good(r) /\ r \in Requests /\ MarksOK(marks)
  BY DEF TInv, TypeOK, Good, MarksOK
<1>2. Good(lost) /\ Good(kept)
  BY <1>1, GoodChanged
<1>3. /\ lost.page = r.page /\ lost.control = r.control /\ lost.stage = notFound
      /\ kept.page = r.page /\ kept.control = r.control /\ kept.stage = found
  BY <1>1 DEF Requests
<1>4. repeated' \subseteq Taps
  BY DEF Store, TInv, TypeOK
<1>5. CASE /\ marks[r.control] = Absent
           /\ marks' = marks
           /\ Moves(t, lost)
           /\ sure' = SureAfter(t, Absent)
  <2>1. sure' \subseteq Pages \X Controls
    BY <1>5, SureAfterOK
  <2> QED
    BY <1>1, <1>2, <1>3, <1>4, <1>5, <2>1, MovesTInv
<1>6. CASE /\ marks[r.control] # Absent
           /\ marks' = [marks EXCEPT ![r.control] = Written(r)]
           /\ Moves(t, kept)
           /\ sure' = SureAfter(t, Written(r))
  <2>1. sure' \subseteq Pages \X Controls
    BY <1>6, SureAfterOK
  <2>2. r.control \in Controls /\ Written(r) \subseteq Flags(r.control)
    BY <1>6, WrittenInFlags
  <2>3. Written(r) \in Contents
    BY <2>2, FlagFacts DEF Contents
  <2>4. MarksOK(marks')
    BY <1>1, <1>6, <2>2, <2>3 DEF MarksOK
  <2> QED
    BY <1>2, <1>3, <1>4, <1>6, <2>1, <2>4, MovesTInv
<1> QED
  BY <1>5, <1>6, StoreMoves

LEMMA TapTInv ==
    ASSUME TInv, NEW t \in Taps, NEW p \in Pages, NEW c \in Controls,
           NEW m \in ItemMarks \cup Reactions, Tap(t, p, c, m)
    PROVE  TInv'
<1> DEFINE shown == IF m = "removed" THEN view[p][c] ELSE Flip(view[p][c], m)
           same == {u \in Waiting(p, c) : request[u].mark = m}
           queued == {u \in same : request[u].stage = "queued"}
           mine == [page |-> p, control |-> c, mark |-> m,
                    on |-> Posted(c, m, shown), content |-> {},
                    stage |-> IF same = {} THEN "sent" ELSE "queued"]
<1>1. m \in Offered(p, c) /\ view[p][c] # Absent /\ view[p][c] \subseteq Flags(c)
  <2>1. m \in Offered(p, c)
    BY DEF Tap
  <2>2. view[p][c] # Absent
    BY <2>1 DEF Offered, Absent
  <2> QED
    BY <2>1, <2>2 DEF TInv
<1>2. m \in Flags(c)
  BY <1>1 DEF Offered
<1>3. shown \subseteq Flags(c) /\ shown # Absent /\ shown \in Contents
  BY <1>1, <1>2, FlagFacts DEF Flip, Absent, Contents
<1>4. Good(mine) /\ mine # Unused /\ mine.page = p /\ mine.control = c /\ mine.stage # "ended"
  <2>1. mine \in Requests
    BY <1>3, PostedInScope, <1>2 DEF Requests, Stages, Contents
  <2>2. Good(mine)
    BY <1>2, <1>3, <2>1, PostedInScope DEF Good, Scope
  <2> QED
    BY <2>2, FlagFacts
<1>5. queued \subseteq heeded /\ heeded \subseteq Taps /\ t \notin heeded
  BY DEF Waiting, Placed, TInv, TypeOK, Tap
<1>0. t \notin queued
  BY <1>5
<1>6. \A u \in Taps : request'[u] = IF u = t THEN mine
                                    ELSE IF u \in queued THEN Ended(request[u]) ELSE request[u]
  BY <1>0 DEF Tap
<1>7. /\ view' = [view EXCEPT ![p][c] = shown]
      /\ heeded' = (heeded \ queued) \cup {t}
      /\ sure' \subseteq sure
      /\ UNCHANGED <<marks, listed, fresh, repeated>>
  BY DEF Tap
<1>8. \A u \in Taps : request'[u] = Unused \/ Good(request'[u])
  <2>1. ASSUME NEW u \in queued PROVE Good(Ended(request[u]))
    BY <1>5, GoodChanged DEF TInv, Placed, Stages
  <2> QED
    BY <1>4, <1>6, <2>1 DEF TInv
<1>9. \A q \in Pages, d \in Controls : view'[q][d] = Absent \/ view'[q][d] \subseteq Flags(d)
  BY <1>3, <1>7 DEF TInv, TypeOK
<1>10. TypeOK'
  <2>1. request' = [u \in Taps |-> IF u = t THEN mine
                      ELSE IF u \in queued THEN Ended(request[u]) ELSE request[u]]
    BY <1>0 DEF Tap
  <2>2. request' \in [Taps -> Requests \cup {Unused}]
    BY <2>1, <1>6, <1>8 DEF Good
  <2>3. view' \in [Pages -> [Controls -> Contents]]
    BY <1>3, <1>7 DEF TInv, TypeOK
  <2> QED
    BY <1>5, <1>7, <2>2, <2>3 DEF TInv, TypeOK
<1>11. Placed'
  <2>1. ASSUME NEW u \in heeded'
        PROVE  /\ request'[u] # Unused
               /\ request'[u].stage # "ended"
               /\ view'[request'[u].page][request'[u].control] # Absent
    <3>1. CASE u = t
      BY <1>3, <1>4, <1>6, <1>7, <3>1 DEF TInv, TypeOK
    <3>2. CASE u # t
      <4>1. u \in heeded \ queued /\ u \in Taps
        BY <1>5, <1>7, <2>1, <3>2
      <4>2. request'[u] = request[u] /\ Good(request[u])
        BY <1>6, <3>2, <4>1 DEF TInv, Placed
      <4> QED
        BY <1>3, <1>7, <4>1, <4>2 DEF TInv, TypeOK, Placed, Good, Requests
    <3> QED
      BY <3>1, <3>2
  <2> QED
    BY <2>1 DEF Placed
<1> QED
  BY <1>8, <1>9, <1>10, <1>11 DEF TInv, Good, Scope, Requests

LEMMA LoadTInv ==
    ASSUME TInv, NEW p \in Pages, NEW screen \in Screens, Load(p, screen)
    PROVE  TInv'
<1> DEFINE gone == {t \in heeded : request[t].page = p /\ request[t].stage = "queued"}
<1>1. screen \subseteq Controls
  BY DEF Screens, Controls
<1>2. /\ \A t \in Taps : request'[t] = IF t \in gone THEN Ended(request[t]) ELSE request[t]
      /\ heeded' = {t \in heeded : request[t].page # p}
      /\ UNCHANGED <<marks, listed, fresh, repeated>>
  BY DEF Load
<1>3. \A t \in Taps : request'[t] = Unused \/ Good(request'[t])
  <2>1. ASSUME NEW t \in gone PROVE Good(Ended(request[t]))
    BY GoodChanged DEF TInv, TypeOK, Placed, Stages
  <2> QED
    BY <1>2, <2>1 DEF TInv
<1>4. /\ \A q \in Pages : q # p => view'[q] = view[q]
      /\ \A c \in Controls : view'[p][c] \in {Absent, marks[c]}
  BY DEF Load, TInv, TypeOK
<1>5. \A q \in Pages, c \in Controls : view'[q][c] = Absent \/ view'[q][c] \subseteq Flags(c)
  BY <1>4 DEF TInv, TypeOK
<1>6. TypeOK'
  <2>1. request' \in [Taps -> Requests \cup {Unused}]
    BY <1>3 DEF Load, Good
  <2>2. view' \in [Pages -> [Controls -> Contents]]
    BY DEF Load, TInv, TypeOK, Contents
  <2>3. sure' \subseteq Pages \X Controls
    BY <1>1 DEF Load, TInv, TypeOK
  <2> QED
    BY <1>2, <2>1, <2>2, <2>3 DEF TInv, TypeOK
<1>7. Placed'
  BY <1>2, <1>4 DEF TInv, TypeOK, Placed, Good, Requests
<1> QED
  BY <1>3, <1>5, <1>6, <1>7 DEF TInv, Good, Scope, Requests

LEMMA SwapInTInv ==
    ASSUME TInv, NEW t \in Taps, SwapIn(t)
    PROVE  TInv'
<1> DEFINE r == request[t]
           gone == {u \in Waiting(r.page, r.control) : request[u].stage = "queued"} \cup {t}
<1>1. Good(r) /\ r.page \in Pages /\ r.control \in Controls /\ r.content \in Contents
  BY DEF SwapIn, TInv, TypeOK, Placed, Good, Requests
<1>2. /\ \A u \in Taps : request'[u] = IF u \in gone THEN Ended(request[u]) ELSE request[u]
      /\ heeded' = heeded \ Waiting(r.page, r.control)
      /\ view' = [view EXCEPT ![r.page][r.control] = r.content]
      /\ UNCHANGED <<marks, listed, fresh, repeated, sure>>
  BY DEF SwapIn
<1>3. gone \subseteq Waiting(r.page, r.control) /\ gone \subseteq heeded
  BY DEF Waiting, SwapIn
<1>4. \A u \in Taps : request'[u] = Unused \/ Good(request'[u])
  <2>1. ASSUME NEW u \in gone PROVE Good(Ended(request[u]))
    BY <1>3, GoodChanged DEF TInv, TypeOK, Placed, Stages
  <2> QED
    BY <1>2, <2>1 DEF TInv
<1>5. \A q \in Pages, c \in Controls : view'[q][c] = Absent \/ view'[q][c] \subseteq Flags(c)
  BY <1>1, <1>2 DEF TInv, TypeOK, Good
<1>6. TypeOK'
  <2>1. request' \in [Taps -> Requests \cup {Unused}]
    BY <1>4 DEF SwapIn, Good
  <2> QED
    BY <1>1, <1>2, <2>1 DEF TInv, TypeOK
<1>7. Placed'
  <2>1. ASSUME NEW u \in heeded'
        PROVE  /\ request'[u] = request[u] /\ u \in heeded /\ u \in Taps
               /\ request[u].page # r.page \/ request[u].control # r.control
    BY <1>2, <1>3, <2>1 DEF Waiting, TInv, TypeOK
  <2> QED
    BY <1>1, <1>2, <2>1 DEF TInv, TypeOK, Placed, Good, Requests
<1> QED
  BY <1>4, <1>5, <1>6, <1>7 DEF TInv, Good, Scope, Requests

LEMMA UnansweredTInv ==
    ASSUME TInv, NEW t \in Taps, request[t].stage # "queued",
           NEW left, Unanswered(t, left), left = Unused \/ Good(left)
    PROVE  TInv'
<1> DEFINE r == request[t]
           next == {u \in Waiting(r.page, r.control) :
                      request[u].mark = r.mark /\ request[u].stage = "queued"}
           Resent(u) == [request[u] EXCEPT !.stage = "sent",
                           !.on = Posted(r.control, r.mark, view[r.page][r.control])]
<1>1. /\ request' = [u \in Taps |-> IF u = t THEN left ELSE IF u \in next THEN Resent(u) ELSE request[u]]
      /\ heeded' = heeded \ {t}
      /\ sure' \subseteq sure
      /\ UNCHANGED <<marks, listed, fresh, view, repeated>>
  BY DEF Unanswered
<1>2. /\ t \in heeded /\ Good(r) /\ r.page \in Pages /\ r.control \in Controls
      /\ view[r.page][r.control] \subseteq Flags(r.control)
  BY DEF Unanswered, TInv, TypeOK, Placed, Good, Requests
<1>3. ASSUME NEW u \in next
      PROVE  /\ Good(Resent(u))
             /\ Resent(u).page = request[u].page /\ Resent(u).control = request[u].control
             /\ Resent(u).stage = "sent"
  <2>1. /\ Good(request[u]) /\ request[u] \in Requests
        /\ request[u].control = r.control /\ request[u].mark = r.mark
    BY <1>3 DEF Waiting, TInv, TypeOK, Placed, Good
  <2>2. /\ Posted(r.control, r.mark, view[r.page][r.control]) \subseteq Scope(r)
        /\ Posted(r.control, r.mark, view[r.page][r.control]) \subseteq ItemMarks \cup Reactions
    BY <1>2, PostedInScope DEF Good, Scope
  <2> QED
    BY <2>1, <2>2 DEF Good, Requests, Scope, Stages
<1>4. \A u \in Taps : request'[u] = Unused \/ Good(request'[u])
  BY <1>1, <1>3 DEF TInv
<1>5. TypeOK'
  BY <1>1, <1>4 DEF TInv, TypeOK, Good
<1>6. Placed'
  BY <1>1, <1>3 DEF TInv, TypeOK, Placed, Unused
<1> QED
  BY <1>1, <1>4, <1>5, <1>6 DEF TInv, Good, Scope, Requests

(* The requests that do not write. *)
LEMMA StageTInv ==
    ASSUME TInv, NEW t \in Taps, request[t] # Unused,
           NEW r, Moves(t, r), Good(r), r.page = request[t].page,
           r.control = request[t].control, r.stage # "ended",
           UNCHANGED marks, repeated' \subseteq Taps, UNCHANGED sure
    PROVE  TInv'
  BY MovesTInv DEF MarksOK, TInv, TypeOK

LEMMA ServerTInv ==
    ASSUME TInv, NEW t \in Taps,
           \/ Check(t) \/ Remove(t) \/ Restore(t) \/ RenderItem(t)
           \/ SetFeedback(t) \/ Fail(t) \/ Repeat(t)
    PROVE  TInv'
<1> DEFINE r == request[t]
<1>1. r # Unused
  BY DEF Check, Remove, Restore, RenderItem, SetFeedback, Fail, Repeat, Sent, Unused
<1>2. Good(r) /\ r \in Requests
  BY <1>1 DEF TInv, Good
<1>3. /\ {} \subseteq Flags(r.control)
      /\ r.mark = "removed" => {"removed"} \subseteq Flags(r.control)
      /\ r.control \in Recipes => r.on \subseteq Flags(r.control)
  BY <1>2 DEF Good, Scope, Flags
<1>4. {"written", "answered", "failed"} \subseteq Stages \ {"ended"}
  BY DEF Stages
<1>5. CASE Check(t)
  BY <1>1, <1>3, <1>4, <1>5, StoreTInv DEF Check
<1>6. CASE Remove(t)
  BY <1>1, <1>3, <1>4, <1>6, StoreTInv DEF Remove
<1>7. CASE Restore(t)
  BY <1>1, <1>3, <1>4, <1>7, StoreTInv DEF Restore
<1>8. CASE SetFeedback(t)
  BY <1>1, <1>3, <1>4, <1>8, StoreTInv DEF SetFeedback
<1>9. CASE RenderItem(t)
  <2> DEFINE x == marks[r.control] \ {"removed"}
             next == [r EXCEPT !.stage = "answered", !.content = x]
  <2>1. x = Absent \/ x \subseteq Flags(r.control)
    BY <1>2 DEF TInv, TypeOK, Requests, Absent
  <2>2. Good(next)
    BY <1>2, <1>4, <2>1, GoodChanged
  <2>3. next.page = r.page /\ next.control = r.control /\ next.stage # "ended"
    BY <1>2 DEF Requests
  <2>4. Moves(t, next)
    BY <1>9 DEF RenderItem, Moves, TInv, TypeOK
  <2>5. repeated' \subseteq Taps /\ UNCHANGED <<marks, sure>>
    BY <1>9 DEF RenderItem, TInv, TypeOK
  <2> QED
    BY <1>1, <2>2, <2>3, <2>4, <2>5, StageTInv
<1>10. CASE Fail(t)
  <2> DEFINE next == [r EXCEPT !.stage = "failed"]
  <2>1. Good(next)
    BY <1>2, <1>3, <1>4, GoodChanged
  <2>2. next.page = r.page /\ next.control = r.control /\ next.stage # "ended"
    BY <1>2 DEF Requests
  <2>3. Moves(t, next) /\ repeated' \subseteq Taps /\ UNCHANGED <<marks, sure>>
    BY <1>10 DEF Fail, Moves, TInv, TypeOK
  <2> QED
    BY <1>1, <2>1, <2>2, <2>3, StageTInv
<1>11. CASE Repeat(t)
  <2> DEFINE next == [r EXCEPT !.stage = "sent"]
  <2>1. Good(next)
    BY <1>2, <1>3, GoodChanged DEF Stages
  <2>2. next.page = r.page /\ next.control = r.control /\ next.stage # "ended"
    BY <1>2 DEF Requests
  <2>3. Moves(t, next) /\ repeated' \subseteq Taps /\ UNCHANGED <<marks, sure>>
    BY <1>11 DEF Repeat, Moves, TInv, TypeOK
  <2> QED
    BY <1>1, <2>1, <2>2, <2>3, StageTInv
<1> QED
  BY <1>5, <1>6, <1>7, <1>8, <1>9, <1>10, <1>11

LEMMA DiscardTInv ==
    ASSUME TInv, NEW t \in Taps, Discard(t)
    PROVE  TInv'
<1>1. request[t] # Unused
  BY DEF Discard, Unused
<1>2. Good(request[t]) /\ Good(Ended(request[t]))
  BY <1>1, GoodChanged DEF TInv, Stages
<1>3. /\ request' = [request EXCEPT ![t] = Ended(request[t])]
      /\ t \notin heeded
      /\ UNCHANGED <<marks, listed, fresh, view, heeded, repeated, sure>>
  BY DEF Discard
<1>4. \A u \in Taps : request'[u] = IF u = t THEN Ended(request[t]) ELSE request[u]
  BY <1>3 DEF TInv, TypeOK
<1>5. \A u \in Taps : request'[u] = Unused \/ Good(request'[u])
  BY <1>2, <1>4 DEF TInv
<1>6. TypeOK'
  BY <1>2, <1>3 DEF TInv, TypeOK, Good
<1>7. Placed'
  BY <1>3, <1>4 DEF TInv, TypeOK, Placed
<1> QED
  BY <1>3, <1>5, <1>6, <1>7 DEF TInv, Good, Scope, Requests

LEMMA ListTInv ==
    ASSUME TInv, NewWeek \/ ReplaceItems
    PROVE  TInv'
<1>1. /\ UNCHANGED <<view, request, heeded, repeated>>
      /\ sure' \subseteq sure
      /\ listed' \subseteq fresh
      /\ fresh' = fresh \ listed'
      /\ marks' \in [Controls -> Contents]
      /\ \A c \in Controls : marks'[c] \in {{}, Absent, marks[c]}
  <2>1. CASE NewWeek
    BY <2>1 DEF NewWeek, TInv, TypeOK, Contents
  <2>2. CASE ReplaceItems
    <3>1. PICK new \in SUBSET fresh :
            /\ marks' = [c \in Controls |->
                           CASE c \in new -> {}
                             [] c \in listed -> Absent
                             [] OTHER -> marks[c]]
            /\ listed' = new
            /\ fresh' = fresh \ new
            /\ sure' = sure \ (Pages \X (listed \cup new))
      BY <2>2 DEF ReplaceItems
    <3>2. listed \cap new = {}
      BY DEF TInv, TypeOK
    <3>3. \A c \in Controls : marks'[c] \in {{}, Absent, marks[c]}
      BY <3>1, <3>2
    <3> QED
      BY <2>2, <3>1, <3>3 DEF ReplaceItems, TInv, TypeOK, Contents
  <2> QED
    BY <2>1, <2>2
<1>2. \A c \in Controls : marks'[c] # Absent => marks'[c] \subseteq Flags(c)
  BY <1>1 DEF TInv, TypeOK
<1> QED
  BY <1>1, <1>2 DEF TInv, TypeOK, Placed, Good, Scope, Requests

LEMMA StepTInv == TInv /\ [Next]_vars => TInv'
<1> SUFFICES ASSUME TInv, [Next]_vars PROVE TInv'
  OBVIOUS
<1>1. CASE UNCHANGED vars
  BY <1>1 DEF vars, TInv, TypeOK, Placed, Good, Scope, Requests
<1>2. ASSUME NEW t \in Taps, NEW p \in Pages, NEW c \in Controls,
             NEW m \in ItemMarks \cup Reactions, Tap(t, p, c, m)
      PROVE  TInv'
  BY <1>2, TapTInv
<1>3. ASSUME NEW t \in Taps,
             \/ Check(t) \/ Remove(t) \/ Restore(t) \/ RenderItem(t)
             \/ SetFeedback(t) \/ Fail(t) \/ Repeat(t)
      PROVE  TInv'
  BY <1>3, ServerTInv
<1>4. ASSUME NEW t \in Taps, SwapIn(t) PROVE TInv'
  BY <1>4, SwapInTInv
<1>5. ASSUME NEW t \in Taps, ErrorAnswered(t) \/ ConnectionBreaks(t) PROVE TInv'
  <2>1. request[t] # Unused /\ Good(request[t]) /\ request[t].stage # "queued"
    BY <1>5 DEF ErrorAnswered, ConnectionBreaks, Unused, TInv
  <2>2. Good(Ended(request[t]))
    BY <2>1, GoodChanged DEF Stages
  <2> QED
    BY <1>5, <2>1, <2>2, UnansweredTInv DEF ErrorAnswered, ConnectionBreaks
<1>6. ASSUME NEW t \in Taps, Discard(t) PROVE TInv'
  BY <1>6, DiscardTInv
<1>7. ASSUME NEW p \in Pages, NEW screen \in Screens, Load(p, screen) PROVE TInv'
  BY <1>7, LoadTInv
<1>8. CASE NewWeek \/ ReplaceItems
  BY <1>8, ListTInv
<1> QED
  BY <1>1, <1>2, <1>3, <1>4, <1>5, <1>6, <1>7, <1>8 DEF Next

LEMMA TInvariance == Spec => []TInv
  BY InitTInv, StepTInv, PTL DEF Spec

(* Every variable keeps its type: a line never gets a reaction, a recipe   *)
(* never the mark of a line, and no row is written that is not there.      *)
THEOREM TypeCorrect == Spec => []TypeOK
<1>1. TInv => TypeOK
  BY DEF TInv
<1> QED
  BY <1>1, TInvariance, PTL

-----------------------------------------------------------------------------
(* The steps, by what they do to requests and rows. *)

LEMMA ServerStep ==
    ASSUME TInv, NEW t \in Taps,
           \/ Check(t) \/ Remove(t) \/ Restore(t) \/ RenderItem(t)
           \/ SetFeedback(t) \/ Fail(t) \/ Repeat(t)
    PROVE  /\ request[t] # Unused /\ Good(request[t])
           /\ UNCHANGED <<listed, fresh, view, heeded>>
           /\ \A u \in Taps : u # t => request'[u] = request[u]
           /\ request'[t] # Unused
           /\ request'[t].page = request[t].page
           /\ request'[t].control = request[t].control
           /\ request'[t].mark = request[t].mark
           /\ request'[t].on = request[t].on
           /\ \/ marks' = marks
              \/ /\ marks[request[t].control] # Absent
                 /\ marks' = [marks EXCEPT ![request[t].control] = Written(request[t])]
           /\ \/ request'[t].content \in {Absent, {}, request[t].content,
                    marks[request[t].control] \ {"removed"}}
              \/ request'[t].content = {"removed"} /\ request[t].mark = "removed"
              \/ request'[t].content = request[t].on
<1>1. request[t] # Unused
  BY DEF Check, Remove, Restore, RenderItem, SetFeedback, Fail, Repeat, Sent, Unused
<1>2. Good(request[t]) /\ request[t] \in Requests
  BY <1>1 DEF TInv, Good
<1>3. request \in [Taps -> Requests \cup {Unused}]
  BY DEF TInv, TypeOK
<1>4. ASSUME NEW r \in Requests, r # Unused PROVE r.stage # "unused"
  BY <1>4 DEF Requests, Stages
<1>5. CASE Fail(t) \/ Repeat(t) \/ RenderItem(t)
  BY <1>1, <1>2, <1>3, <1>5 DEF Fail, Repeat, RenderItem, Requests, Unused
<1>6. CASE Check(t)
  BY <1>1, <1>2, <1>3, <1>6 DEF Check, Store, Requests, Unused
<1>7. CASE Remove(t)
  BY <1>1, <1>2, <1>3, <1>7 DEF Remove, Store, Requests, Unused
<1>8. CASE Restore(t)
  BY <1>1, <1>2, <1>3, <1>8 DEF Restore, Store, Requests, Unused
<1>9. CASE SetFeedback(t)
  BY <1>1, <1>2, <1>3, <1>9 DEF SetFeedback, Store, Requests, Unused
<1> QED
  BY <1>5, <1>6, <1>7, <1>8, <1>9

LEMMA ListStep ==
    ASSUME TInv, NewWeek \/ ReplaceItems
    PROVE  /\ UNCHANGED <<view, request, heeded, repeated>>
           /\ \A c \in Controls : c \notin fresh => marks'[c] \in {Absent, marks[c]}
           /\ \A c \in fresh : marks'[c] \in {{}, marks[c]}
<1>1. fresh \subseteq Controls /\ listed \cap fresh = {}
  BY DEF TInv, TypeOK, Controls
<1>2. CASE NewWeek
  BY <1>1, <1>2 DEF NewWeek
<1>3. CASE ReplaceItems
  <2>1. PICK new \in SUBSET fresh :
          marks' = [c \in Controls |->
                      CASE c \in new -> {}
                        [] c \in listed -> Absent
                        [] OTHER -> marks[c]]
    BY <1>3 DEF ReplaceItems
  <2>2. listed \cap new = {}
    BY <1>1
  <2> QED
    BY <1>1, <1>3, <2>1, <2>2 DEF ReplaceItems
<1> QED
  BY <1>2, <1>3

(* Requests are never forgotten. *)
LEMMA Remembered ==
    ASSUME TInv, [Next]_vars, NEW t \in Taps, request[t] # Unused
    PROVE  /\ request'[t] # Unused
           /\ request'[t].page = request[t].page
           /\ request'[t].control = request[t].control
           /\ request'[t].mark = request[t].mark
           /\ request'[t].on = request[t].on \/ request[t].stage = "queued"
<1>1. Good(request[t]) /\ request[t] \in Requests
  BY DEF TInv, Good
<1>2. \A r \in Requests : /\ Ended(r) # Unused /\ Ended(r).page = r.page
                          /\ Ended(r).control = r.control /\ Ended(r).mark = r.mark
                          /\ Ended(r).on = r.on
  BY DEF Requests, Ended, Unused
<1>3. request \in [Taps -> Requests \cup {Unused}]
  BY DEF TInv, TypeOK
<1>4. CASE UNCHANGED vars
  BY <1>4 DEF vars
<1>5. ASSUME NEW u \in Taps, NEW p \in Pages, NEW c \in Controls,
             NEW m \in ItemMarks \cup Reactions, Tap(u, p, c, m)
      PROVE  request'[t] \in {request[t], Ended(request[t])}
  <2>1. u # t /\ u \notin heeded
    BY <1>5 DEF Tap, TInv, Placed
  <2> DEFINE queued == {v \in {w \in Waiting(p, c) : request[w].mark = m} : request[v].stage = "queued"}
  <2>2. u \notin queued
    BY <2>1 DEF Waiting
  <2> QED
    BY <1>5, <2>1, <2>2 DEF Tap
<1>6. ASSUME NEW u \in Taps,
             \/ Check(u) \/ Remove(u) \/ Restore(u) \/ RenderItem(u)
             \/ SetFeedback(u) \/ Fail(u) \/ Repeat(u)
      PROVE  /\ request'[t] # Unused
             /\ request'[t].page = request[t].page
             /\ request'[t].control = request[t].control
             /\ request'[t].mark = request[t].mark
             /\ request'[t].on = request[t].on
  BY <1>6, ServerStep
<1>7. ASSUME NEW u \in Taps, SwapIn(u) \/ Discard(u)
      PROVE  request'[t] \in {request[t], Ended(request[t])}
  BY <1>3, <1>7 DEF SwapIn, Discard
<1>8. ASSUME NEW u \in Taps, ErrorAnswered(u) \/ ConnectionBreaks(u)
      PROVE  \/ request'[t] \in {request[t], Ended(request[t])}
             \/ /\ request[t].stage = "queued"
                /\ \E x : request'[t] = [request[t] EXCEPT !.stage = "sent", !.on = x]
  <2>1. request[u].stage # "queued"
    BY <1>8 DEF ErrorAnswered, ConnectionBreaks
  <2> DEFINE next == {v \in Waiting(request[u].page, request[u].control) :
                        request[v].mark = request[u].mark /\ request[v].stage = "queued"}
  <2>2. u \notin next
    BY <2>1
  <2>3. PICK left \in {request[u], Ended(request[u])} : Unanswered(u, left)
    BY <1>8 DEF ErrorAnswered, ConnectionBreaks
  <2> QED
    BY <2>2, <2>3 DEF Unanswered
<1>9. CASE \E p \in Pages, screen \in Screens : Load(p, screen)
  BY <1>1, <1>2, <1>9 DEF Load
<1>10. CASE NewWeek \/ ReplaceItems
  BY <1>10 DEF NewWeek, ReplaceItems
<1>11. ASSUME NEW x
       PROVE  LET r == [request[t] EXCEPT !.stage = "sent", !.on = x]
              IN  /\ r # Unused /\ r.page = request[t].page
                  /\ r.control = request[t].control /\ r.mark = request[t].mark
  BY <1>1 DEF Requests, Unused
<1> QED
  BY <1>1, <1>2, <1>4, <1>5, <1>6, <1>7, <1>8, <1>9, <1>10, <1>11 DEF Next

(* A swap deletes lines for good: the write of a late tap finds no row.    *)
THEOREM DeletedForGood == Spec => GhostsStayGone
<1>1. ASSUME TInv, Next, NEW c \in Items, c \notin fresh, marks[c] = Absent
      PROVE  marks'[c] = Absent
  <2>1. c \in Controls /\ marks \in [Controls -> Contents]
    BY <1>1 DEF Controls, TInv, TypeOK
  <2>2. ASSUME NEW t \in Taps,
               \/ Check(t) \/ Remove(t) \/ Restore(t) \/ RenderItem(t)
               \/ SetFeedback(t) \/ Fail(t) \/ Repeat(t)
        PROVE  marks'[c] = Absent
    BY <1>1, <2>1, <2>2, ServerStep
  <2>3. CASE NewWeek \/ ReplaceItems
    BY <1>1, <2>1, <2>3, ListStep
  <2>4. CASE UNCHANGED marks
    BY <1>1, <2>4
  <2>5. ASSUME NEW t \in Taps,
               \/ \E p \in Pages, d \in Controls, m \in ItemMarks \cup Reactions : Tap(t, p, d, m)
               \/ SwapIn(t) \/ ErrorAnswered(t) \/ ConnectionBreaks(t) \/ Discard(t)
        PROVE  UNCHANGED marks
    BY <2>5 DEF Tap, SwapIn, ErrorAnswered, ConnectionBreaks, Unanswered, Discard
  <2>6. ASSUME NEW p \in Pages, NEW screen \in Screens, Load(p, screen)
        PROVE  UNCHANGED marks
    BY <2>6 DEF Load
  <2> QED
    BY <1>1, <2>2, <2>3, <2>4, <2>5, <2>6 DEF Next
<1>2. TInv /\ [Next]_vars =>
        [\A c \in Items : c \notin fresh /\ marks[c] = Absent => marks'[c] = Absent]_vars
  BY <1>1
<1> QED
  BY <1>2, TInvariance, PTL DEF GhostsStayGone, Spec

-----------------------------------------------------------------------------
(* Where marks come from: what is stored, shown, posted or answered of a   *)
(* row was chosen by a tap on that row.                                    *)

Meant(c, m) ==
    \E t \in Taps : request[t] # Unused /\ request[t].control = c /\ request[t].mark = m

Chosen(c, flags) == \A m \in flags \ Absent : Meant(c, m)

MInv ==
    /\ \A c \in Controls : Chosen(c, marks[c])
    /\ \A c \in Controls, p \in Pages : Chosen(c, view[p][c])
    /\ \A t \in Taps : request[t] # Unused =>
         /\ Chosen(request[t].control, request[t].on)
         /\ Chosen(request[t].control, request[t].content)

(* ... or will have been after the step. *)
MeantNext(c, m) ==
    \E t \in Taps : request'[t] # Unused /\ request'[t].control = c /\ request'[t].mark = m

ChosenNext(c, flags) == \A m \in flags \ Absent : MeantNext(c, m)

LEMMA ChosenStays ==
    ASSUME TInv, [Next]_vars
    PROVE  \A c, flags : Chosen(c, flags) => ChosenNext(c, flags)
<1>1. \A c, m : Meant(c, m) => MeantNext(c, m)
  BY Remembered DEF Meant, MeantNext
<1> QED
  BY <1>1 DEF Chosen, ChosenNext

LEMMA MInvNext ==
    ASSUME \A c \in Controls : ChosenNext(c, marks'[c]),
           \A c \in Controls, p \in Pages : ChosenNext(c, view'[p][c]),
           \A t \in Taps : request'[t] # Unused =>
             /\ ChosenNext(request'[t].control, request'[t].on)
             /\ ChosenNext(request'[t].control, request'[t].content)
    PROVE  MInv'
<1>1. (\A c \in Controls : Chosen(c, marks[c]))'
  BY DEF Chosen, ChosenNext, Meant, MeantNext, Unused, Absent
<1>2. (\A c \in Controls, p \in Pages : Chosen(c, view[p][c]))'
  BY DEF Chosen, ChosenNext, Meant, MeantNext, Unused, Absent
<1>3. (\A t \in Taps : request[t] # Unused =>
         /\ Chosen(request[t].control, request[t].on)
         /\ Chosen(request[t].control, request[t].content))'
  BY DEF Chosen, ChosenNext, Meant, MeantNext, Unused, Absent
<1> QED
  BY <1>1, <1>2, <1>3 DEF MInv

LEMMA InitMInv == Init => MInv
  BY DEF Init, MInv, Chosen, Controls

EndsOrStays(u) ==
    \/ request'[u] = request[u]
    \/ request[u] # Unused /\ request'[u] = Ended(request[u])

LEMMA ChosenKept ==
    ASSUME TInv, MInv, [Next]_vars, NEW u \in Taps, request'[u] # Unused,
           EndsOrStays(u)
    PROVE  /\ ChosenNext(request'[u].control, request'[u].on)
           /\ ChosenNext(request'[u].control, request'[u].content)
<1>1. request[u] # Unused
  BY DEF EndsOrStays
<1>2. request[u] \in Requests
  BY <1>1 DEF TInv, Good
<1>3. /\ request'[u].control = request[u].control /\ request'[u].on = request[u].on
      /\ request'[u].content \in {request[u].content, {}}
  BY <1>2 DEF EndsOrStays, Ended, Requests
<1>4. Chosen(request[u].control, {})
  BY DEF Chosen
<1> QED
  BY <1>1, <1>3, <1>4, ChosenStays DEF MInv

LEMMA EndedMInv ==
    ASSUME TInv, MInv, [Next]_vars,
           \A c \in Controls : ChosenNext(c, marks'[c]),
           \A c \in Controls, p \in Pages : ChosenNext(c, view'[p][c]),
           \A u \in Taps : EndsOrStays(u)
    PROVE  MInv'
  BY ChosenKept, MInvNext

LEMMA PostedFrom ==
    ASSUME NEW c \in Controls, NEW m \in Flags(c), NEW shown
    PROVE  Posted(c, m, shown) \subseteq shown \cup {m}
  BY DEF Posted, Flags, Controls, ItemMarks

LEMMA ServerMInv ==
    ASSUME TInv, MInv, [Next]_vars, NEW t \in Taps,
           \/ Check(t) \/ Remove(t) \/ Restore(t) \/ RenderItem(t)
           \/ SetFeedback(t) \/ Fail(t) \/ Repeat(t)
    PROVE  MInv'
<1> DEFINE c == request[t].control
<1>1. request[t] # Unused /\ c \in Controls
  BY ServerStep DEF Good, Requests
<1>2. Chosen(c, marks[c]) /\ Chosen(c, request[t].on) /\ Chosen(c, request[t].content)
  BY <1>1 DEF MInv
<1>3. \A d \in Controls : ChosenNext(d, marks'[d])
  <2>1. Chosen(c, Written(request[t]))
    BY <1>2 DEF Chosen, Written
  <2>2. marks \in [Controls -> Contents]
    BY DEF TInv, TypeOK
  <2>3. \A d \in Controls : Chosen(d, marks'[d])
    BY <1>1, <2>1, <2>2, ServerStep DEF MInv
  <2> QED
    BY <2>3, ChosenStays
<1>4. \A d \in Controls, p \in Pages : ChosenNext(d, view'[p][d])
  BY ServerStep, ChosenStays DEF MInv
<1>5. ChosenNext(c, request'[t].on) /\ ChosenNext(c, request'[t].content)
  <2>1. Chosen(c, {}) /\ Chosen(c, Absent) /\ Chosen(c, marks[c] \ {"removed"})
    BY <1>2 DEF Chosen
  <2>2. request[t].mark = "removed" => Chosen(c, {"removed"})
    BY <1>1 DEF Chosen, Meant
  <2>3. Chosen(c, request'[t].on) /\ Chosen(c, request'[t].content)
    BY <1>2, <2>1, <2>2, ServerStep
  <2> QED
    BY <2>3, ChosenStays
<1>6. ASSUME NEW u \in Taps, request'[u] # Unused
      PROVE  /\ ChosenNext(request'[u].control, request'[u].on)
             /\ ChosenNext(request'[u].control, request'[u].content)
  <2>1. CASE u = t
    BY <1>5, <2>1, ServerStep
  <2>2. CASE u # t
    <3>1. request'[u] = request[u]
      BY <2>2, ServerStep
    <3> QED
      BY <1>6, <3>1, ChosenStays DEF MInv
  <2> QED
    BY <2>1, <2>2
<1> QED
  BY <1>3, <1>4, <1>6, MInvNext

LEMMA TapMInv ==
    ASSUME TInv, MInv, [Next]_vars, NEW t \in Taps, NEW p \in Pages, NEW c \in Controls,
           NEW m \in ItemMarks \cup Reactions, Tap(t, p, c, m)
    PROVE  MInv'
<1> DEFINE shown == IF m = "removed" THEN view[p][c] ELSE Flip(view[p][c], m)
           same == {u \in Waiting(p, c) : request[u].mark = m}
           queued == {u \in same : request[u].stage = "queued"}
           mine == [page |-> p, control |-> c, mark |-> m,
                    on |-> Posted(c, m, shown), content |-> {},
                    stage |-> IF same = {} THEN "sent" ELSE "queued"]
<1>1. m \in Flags(c)
  <2>1. m \in Offered(p, c)
    BY DEF Tap
  <2>2. view[p][c] # Absent
    BY <2>1 DEF Offered, Absent
  <2> QED
    BY <2>1, <2>2 DEF Offered, TInv
<1>2. \A u \in Taps : request'[u] = IF u = t THEN mine
                                    ELSE IF u \in queued THEN Ended(request[u]) ELSE request[u]
  <2>1. t \notin queued
    BY DEF Tap, TInv, Placed, Waiting
  <2> QED
    BY <2>1 DEF Tap
<1>3. mine # Unused /\ mine.control = c /\ mine.mark = m
  BY DEF Unused
<1>4. ChosenNext(c, {m})
  BY <1>2, <1>3 DEF ChosenNext, MeantNext
<1>5. ChosenNext(c, shown)
  <2>1. ChosenNext(c, view[p][c])
    BY ChosenStays DEF MInv
  <2>2. shown \subseteq view[p][c] \cup {m}
    BY DEF Flip
  <2> QED
    BY <1>4, <2>1, <2>2 DEF ChosenNext
<1>6. ChosenNext(c, mine.on) /\ ChosenNext(c, mine.content)
  <2>1. mine.on \subseteq shown \cup {m} /\ mine.content = {}
    BY <1>1, PostedFrom
  <2> QED
    BY <1>4, <1>5, <2>1 DEF ChosenNext
<1>7. \A q \in Pages, d \in Controls : ChosenNext(d, view'[q][d])
  <2>1. view' = [view EXCEPT ![p][c] = shown] /\ view \in [Pages -> [Controls -> Contents]]
    BY DEF Tap, TInv, TypeOK
  <2>2. \A q \in Pages, d \in Controls :
          \/ view'[q][d] = view[q][d]
          \/ d = c /\ view'[q][d] = shown
    BY <2>1
  <2> QED
    BY <1>5, <2>2, ChosenStays DEF MInv
<1>8. \A d \in Controls : ChosenNext(d, marks'[d])
  BY ChosenStays DEF MInv, Tap
<1>9. ASSUME NEW u \in Taps, request'[u] # Unused
      PROVE  /\ ChosenNext(request'[u].control, request'[u].on)
             /\ ChosenNext(request'[u].control, request'[u].content)
  <2>1. CASE u = t
    BY <1>2, <1>3, <1>6, <2>1
  <2>2. CASE u # t /\ u \notin queued
    BY <1>2, <1>9, <2>2, ChosenStays DEF MInv
  <2>3. CASE u # t /\ u \in queued
    <3>1. request[u] # Unused /\ request[u] \in Requests /\ request'[u] = Ended(request[u])
      BY <1>2, <2>3 DEF Waiting, TInv, Placed, Good
    <3>2. /\ request'[u].control = request[u].control /\ request'[u].on = request[u].on
          /\ request'[u].content = {}
      BY <3>1 DEF Ended, Requests
    <3>3. u \in Taps /\ Chosen(request[u].control, request[u].on)
      BY <1>9, <3>1 DEF MInv
    <3>4. ChosenNext(request[u].control, request[u].on)
      BY <3>3, ChosenStays
    <3>5. ChosenNext(request[u].control, {})
      BY DEF ChosenNext
    <3> QED
      BY <3>2, <3>4, <3>5
  <2> QED
    BY <2>1, <2>2, <2>3
<1> QED
  BY <1>7, <1>8, <1>9, MInvNext

(* An answer comes from its request, and a late tap is posted from what its *)
(* page shows.                                                              *)
LEMMA SwapInMInv ==
    ASSUME TInv, MInv, [Next]_vars, NEW t \in Taps, SwapIn(t)
    PROVE  MInv'
<1> DEFINE r == request[t]
<1>1. Good(r) /\ r # Unused /\ r.page \in Pages /\ r.control \in Controls
  BY DEF SwapIn, TInv, Placed, Good, Requests
<1>2. \A c \in Controls : ChosenNext(c, marks'[c])
  BY ChosenStays DEF MInv, SwapIn
<1>3. \A c \in Controls, p \in Pages : ChosenNext(c, view'[p][c])
  <2>1. Chosen(r.control, r.content)
    BY <1>1 DEF MInv
  <2>2. \A c \in Controls, p \in Pages :
          view'[p][c] = view[p][c] \/ (c = r.control /\ view'[p][c] = r.content)
    BY <1>1 DEF SwapIn, TInv, TypeOK
  <2> QED
    BY <2>1, <2>2, ChosenStays DEF MInv
<1>4. \A u \in Taps : EndsOrStays(u)
  BY DEF EndsOrStays, SwapIn, TInv, Placed, Waiting
<1> QED
  BY <1>2, <1>3, <1>4, EndedMInv

LEMMA UnansweredMInv ==
    ASSUME TInv, MInv, [Next]_vars, NEW t \in Taps, ErrorAnswered(t) \/ ConnectionBreaks(t)
    PROVE  MInv'
<1> DEFINE r == request[t]
           next == {u \in Waiting(r.page, r.control) : request[u].mark = r.mark /\ request[u].stage = "queued"}
           seen == view[r.page][r.control]
<1>1. /\ t \in heeded /\ r.stage # "queued"
      /\ UNCHANGED <<marks, view>>
  BY DEF ErrorAnswered, ConnectionBreaks, Unanswered
<1>2. Good(r) /\ r # Unused /\ r.page \in Pages /\ r.control \in Controls /\ r.mark \in Flags(r.control)
  BY <1>1 DEF TInv, Placed, Good, Requests
<1>3. \A u \in Taps : \/ EndsOrStays(u)
                      \/ /\ u \in next
                         /\ request'[u] = [request[u] EXCEPT !.stage = "sent", !.on = Posted(r.control, r.mark, seen)]
  <2>1. t \notin next
    BY <1>1
  <2>2. PICK left \in {r, Ended(r)} : Unanswered(t, left)
    BY DEF ErrorAnswered, ConnectionBreaks
  <2> QED
    BY <1>2, <2>1, <2>2 DEF Unanswered, EndsOrStays
<1>4. \A c \in Controls : ChosenNext(c, marks'[c])
  BY <1>1, ChosenStays DEF MInv
<1>5. \A c \in Controls, p \in Pages : ChosenNext(c, view'[p][c])
  BY <1>1, ChosenStays DEF MInv
<1>6. Chosen(r.control, Posted(r.control, r.mark, seen))
  <2>1. Chosen(r.control, seen)
    BY <1>2 DEF MInv
  <2>2. Meant(r.control, r.mark)
    BY <1>2 DEF Meant
  <2>3. Posted(r.control, r.mark, seen) \subseteq seen \cup {r.mark}
    BY <1>2, PostedFrom
  <2> QED
    BY <2>1, <2>2, <2>3 DEF Chosen
<1>7. ASSUME NEW u \in Taps, request'[u] # Unused,
             u \in next,
             request'[u] = [request[u] EXCEPT !.stage = "sent", !.on = Posted(r.control, r.mark, seen)]
      PROVE  /\ ChosenNext(request'[u].control, request'[u].on)
             /\ ChosenNext(request'[u].control, request'[u].content)
  <2>1. request[u] # Unused /\ request[u] \in Requests /\ request[u].control = r.control
    BY <1>7 DEF Waiting, TInv, Placed, Good
  <2>2. /\ request'[u].control = r.control
        /\ request'[u].on = Posted(r.control, r.mark, seen)
        /\ request'[u].content = request[u].content
    BY <1>7, <2>1 DEF Requests
  <2>3. Chosen(r.control, request[u].content)
    BY <2>1 DEF MInv
  <2> QED
    BY <1>6, <2>2, <2>3, ChosenStays
<1>8. ASSUME NEW u \in Taps, request'[u] # Unused
      PROVE  /\ ChosenNext(request'[u].control, request'[u].on)
             /\ ChosenNext(request'[u].control, request'[u].content)
  BY <1>3, <1>7, <1>8, ChosenKept
<1> QED
  BY <1>4, <1>5, <1>8, MInvNext

LEMMA LoadMInv ==
    ASSUME TInv, MInv, [Next]_vars, NEW p \in Pages, NEW screen \in Screens, Load(p, screen)
    PROVE  MInv'
<1>1. \A c \in Controls : ChosenNext(c, marks'[c])
  BY ChosenStays DEF MInv, Load
<1>2. \A c \in Controls, q \in Pages : view'[q][c] \in {view[q][c], marks[c], Absent}
  BY DEF Load, TInv, TypeOK
<1>3. \A c \in Controls : Chosen(c, Absent)
  BY DEF Chosen
<1>4. \A c \in Controls, q \in Pages : ChosenNext(c, view'[q][c])
  BY <1>2, <1>3, ChosenStays DEF MInv
<1>5. \A u \in Taps : EndsOrStays(u)
  BY DEF EndsOrStays, Load, TInv, Placed
<1> QED
  BY <1>1, <1>4, <1>5, EndedMInv

LEMMA ListMInv ==
    ASSUME TInv, MInv, [Next]_vars, NewWeek \/ ReplaceItems
    PROVE  MInv'
<1>1. UNCHANGED <<view, request>>
  BY ListStep
<1>2. \A c \in Controls : marks'[c] \in {{}, Absent, marks[c]}
  BY ListStep
<1>3. \A c \in Controls : Chosen(c, Absent) /\ Chosen(c, {})
  BY DEF Chosen
<1>4. \A c \in Controls : ChosenNext(c, marks'[c])
  BY <1>2, <1>3, ChosenStays DEF MInv
<1>5. \A c \in Controls, q \in Pages : ChosenNext(c, view'[q][c])
  BY <1>1, ChosenStays DEF MInv
<1> QED
  BY <1>1, <1>4, <1>5, EndedMInv DEF EndsOrStays

LEMMA StepMInv == TInv /\ MInv /\ [Next]_vars => MInv'
<1> SUFFICES ASSUME TInv, MInv, [Next]_vars PROVE MInv'
  OBVIOUS
<1>1. ASSUME UNCHANGED vars PROVE MInv'
  <2>1. \A c \in Controls : ChosenNext(c, marks'[c])
    BY <1>1, ChosenStays DEF MInv, vars
  <2>2. \A c \in Controls, q \in Pages : ChosenNext(c, view'[q][c])
    BY <1>1, ChosenStays DEF MInv, vars
  <2>3. \A u \in Taps : EndsOrStays(u)
    BY <1>1 DEF EndsOrStays, vars
  <2> QED
    BY <2>1, <2>2, <2>3, EndedMInv
<1>2. ASSUME NEW t \in Taps, Discard(t) PROVE MInv'
  <2>1. \A c \in Controls : ChosenNext(c, marks'[c])
    BY <1>2, ChosenStays DEF MInv, Discard
  <2>2. \A c \in Controls, q \in Pages : ChosenNext(c, view'[q][c])
    BY <1>2, ChosenStays DEF MInv, Discard
  <2>3. \A u \in Taps : EndsOrStays(u)
    BY <1>2 DEF EndsOrStays, Discard, TInv, TypeOK, Unused
  <2> QED
    BY <2>1, <2>2, <2>3, EndedMInv
<1> QED
  BY <1>1, <1>2, ServerMInv, TapMInv, SwapInMInv, UnansweredMInv, LoadMInv, ListMInv DEF Next

(* A row gets no mark that no tap on that row asked for: a late tap never  *)
(* lands on another line, nor does an old form bring back something else.  *)
(* In this model new lines start unmarked, so that the marks a row already *)
(* has were asked for as well: MInv says it of all of them.                *)
THEOREM OnlyChosenMarks == Spec => MarksAreMeant
<1> DEFINE OfTaps ==
      \A c \in Controls : marks[c] # Absent =>
        \A m \in (marks'[c] \ marks[c]) \ Absent :
          \E t \in Taps : /\ request'[t] # Unused
                          /\ request'[t].control = c
                          /\ request'[t].mark = m
<1>1. ASSUME MInv' PROVE OfTaps
  <2>1. \A c \in Controls : \A m \in marks'[c] \ Absent :
          \E t \in Taps : request'[t] # Unused /\ request'[t].control = c /\ request'[t].mark = m
    BY <1>1 DEF MInv, Chosen, Meant, Unused, Absent
  <2> QED
    BY <2>1
<1>2. TInv /\ MInv /\ [Next]_vars => [OfTaps]_vars
  BY <1>1, StepMInv
<1>3. Spec => [][OfTaps]_vars
  BY <1>2, InitMInv, StepMInv, TInvariance, PTL DEF Spec
<1> QED
  BY <1>3, PTL DEF MarksAreMeant
-----------------------------------------------------------------------------
(* What a settled page is worth: the requests that are under way for it.   *)

Queued(t) == request[t].stage = "queued"
Place(t) == <<request[t].page, request[t].control>>
SameElement(t, u) == Place(t) = Place(u) /\ request[t].mark = request[u].mark

(* An element has one request under way, and one that waits for that.      *)
OneAtAnElement ==
    /\ \A t, u \in heeded : SameElement(t, u) /\ Queued(t) = Queued(u) => t = u
    /\ \A t \in heeded : Queued(t) => \E u \in heeded : SameElement(t, u) /\ ~Queued(u)

(* The answer that a sure fragment will be replaced by is right: it is the *)
(* only one under way, and of the line's removal it knows what is stored.  *)
AnswersAreRight ==
    \A t \in heeded : Place(t) \in sure /\ ~Queued(t) =>
        /\ \A u \in heeded : Place(u) = Place(t) /\ ~Queued(u) => u = t
        /\ request[t].mark = "checked" \/ request[t].stage = "written"
             => "removed" \notin marks[request[t].control]
        /\ request[t].stage = "answered"
             => request[t].content = Shown(request[t].control)

TruthInv == OneAtAnElement /\ AnswersAreRight /\ SettledPageTellsTruth

LEMMA InitTruth == Init => TruthInv
  BY DEF Init, TruthInv, OneAtAnElement, AnswersAreRight, SettledPageTellsTruth

LEMMA WaitingFacts ==
    ASSUME TInv, NEW t \in heeded
    PROVE  /\ t \in Taps /\ request[t] # Unused /\ request[t] \in Requests /\ Good(request[t])
           /\ request[t].page \in Pages /\ request[t].control \in Controls
           /\ request[t].mark \in Flags(request[t].control)
  BY DEF TInv, TypeOK, Placed, Good, Requests

(* Elements lose all their requests or none, and none is queued or sent.   *)
LEMMA KeptElements ==
    ASSUME OneAtAnElement, heeded' \subseteq heeded,
           \A u \in heeded' : /\ request'[u].page = request[u].page
                              /\ request'[u].control = request[u].control
                              /\ request'[u].mark = request[u].mark
                              /\ (request'[u].stage = "queued") = (request[u].stage = "queued"),
           \A u \in heeded', v \in heeded : SameElement(u, v) => v \in heeded'
    PROVE  OneAtAnElement'
  BY DEF OneAtAnElement, SameElement, Queued, Place

(* Nothing happens to a row, to its fragment or to what this waits for.    *)
LEMMA KeptTruth ==
    ASSUME TruthInv, heeded' \subseteq heeded,
           \A u \in heeded' : Place(u) \in sure' =>
             Place(u) \in sure /\ request'[u] = request[u]
               /\ marks'[request[u].control] = marks[request[u].control],
           \A u \in heeded' : /\ request'[u].page = request[u].page
                              /\ request'[u].control = request[u].control,
           \A u \in heeded', v \in heeded' : Place(u) = Place(v) /\ Place(u) \in sure' =>
             request'[v] = request[v]
    PROVE  AnswersAreRight'
  BY DEF TruthInv, AnswersAreRight, Place, Queued, Shown

LEMMA KeptSettled ==
    ASSUME TruthInv,
           \A p \in Pages, c \in Controls :
             /\ <<p, c>> \in sure'
             /\ \A u \in heeded' : ~(request'[u].page = p /\ request'[u].control = c)
             => /\ <<p, c>> \in sure
                /\ \A u \in heeded : ~(request[u].page = p /\ request[u].control = c)
                /\ marks'[c] = marks[c] /\ view'[p][c] = view[p][c]
    PROVE  SettledPageTellsTruth'
<1> SUFFICES ASSUME NEW p \in Pages, NEW c \in Controls, <<p, c>> \in sure', Waiting(p, c)' = {}
             PROVE  view'[p][c] = Shown(c)'
  BY DEF SettledPageTellsTruth
<1>1. \A u \in heeded' : ~(request'[u].page = p /\ request'[u].control = c)
  BY DEF Waiting
<1>2. /\ <<p, c>> \in sure /\ marks'[c] = marks[c] /\ view'[p][c] = view[p][c]
      /\ \A u \in heeded : ~(request[u].page = p /\ request[u].control = c)
  BY <1>1
<1>3. view[p][c] = Shown(c)
  BY <1>2 DEF TruthInv, SettledPageTellsTruth, Waiting
<1> QED
  BY <1>2, <1>3 DEF Shown

LEMMA QuietTruth ==
    ASSUME TruthInv, UNCHANGED <<marks, view, heeded, sure>>,
           \A u \in heeded : request'[u] = request[u]
    PROVE  TruthInv'
<1>1. OneAtAnElement'
  BY KeptElements DEF TruthInv
<1>2. AnswersAreRight'
  BY KeptTruth
<1>3. SettledPageTellsTruth'
  BY KeptSettled
<1> QED
  BY <1>1, <1>2, <1>3 DEF TruthInv

(* A statement of the server that writes leaves the row as the answer says. *)
LEMMA StoreRight ==
    ASSUME TInv, NEW t \in Taps,
           \/ Check(t) \/ Remove(t) \/ Restore(t) \/ SetFeedback(t)
    PROVE  \E row :
             LET c == request[t].control IN
             /\ sure' = SureAfter(t, row)
             /\ marks' = [marks EXCEPT ![c] = row]
             /\ row # Absent /\ request[t].mark = "checked"
                  => ("removed" \in row <=> "removed" \in marks[c])
             /\ request'[t].stage = "written" => request[t].mark = "checked" \/ "removed" \notin row
             /\ request'[t].stage = "answered"
                  => request'[t].content = IF "removed" \in row THEN {"removed"} ELSE row
             /\ request'[t].stage \in {"written", "answered", "failed"}
<1> DEFINE r == request[t]
           c == r.control
<1>1. r \in Requests /\ Good(r) /\ r # Unused /\ r.stage = "sent"
  BY DEF Check, Remove, Restore, SetFeedback, Sent, Unused, TInv, Good
<1>2. /\ c \in Controls /\ marks \in [Controls -> Contents] /\ request \in [Taps -> Requests \cup {Unused}]
      /\ marks[c] # Absent => marks[c] \subseteq Flags(c)
      /\ r.mark \in Flags(c) /\ r.on \subseteq Scope(r)
  BY <1>1 DEF TInv, TypeOK, Good, Requests
<1>3. "removed" \notin Absent
  BY DEF Absent
<1>4. CASE marks[c] = Absent
  <2>1. PICK s \in {"answered", "failed"} :
          /\ request' = [request EXCEPT ![t].stage = s, ![t].content = Absent]
          /\ sure' = SureAfter(t, Absent) /\ marks' = marks
    BY <1>4 DEF Check, Remove, Restore, SetFeedback, Store
  <2>2. request'[t].stage = s /\ request'[t].content = Absent
    BY <1>1, <1>2, <2>1 DEF Requests
  <2>3. marks' = [marks EXCEPT ![c] = Absent]
    BY <1>2, <1>4, <2>1
  <2> QED
    BY <1>3, <2>1, <2>2, <2>3
<1>5. CASE marks[c] # Absent
  <2> DEFINE row == Written(r)
  <2>1. row = (marks[c] \ Scope(r)) \cup r.on
    BY DEF Written
  <2>2. ASSUME NEW s \in {"written", "answered"}, NEW x,
               request' = [request EXCEPT ![t].stage = s, ![t].content = x]
        PROVE  request'[t].stage = s /\ request'[t].content = x
    BY <1>1, <1>2, <2>2 DEF Requests
  <2>3. CASE Check(t)
    <3>1. /\ request' = [request EXCEPT ![t].stage = "written", ![t].content = {}]
          /\ sure' = SureAfter(t, row) /\ marks' = [marks EXCEPT ![c] = row]
      BY <1>5, <2>3 DEF Check, Store
    <3>2. r.mark = "checked" /\ "removed" \notin Scope(r)
      BY <1>2, <2>3, ReactionsAssumption, ControlsAssumption
        DEF Check, Scope, Flags, ItemMarks, Controls
    <3> QED
      BY <1>2, <2>1, <2>2, <3>1, <3>2
  <2>4. CASE Remove(t)
    <3>1. /\ request' = [request EXCEPT ![t].stage = "answered", ![t].content = {"removed"}]
          /\ sure' = SureAfter(t, row) /\ marks' = [marks EXCEPT ![c] = row]
      BY <1>5, <2>4 DEF Remove, Store
    <3>2. r.mark = "removed" /\ "removed" \in r.on
      BY <1>2, <2>4, ReactionsAssumption, ControlsAssumption
        DEF Remove, Scope, Flags, ItemMarks, Controls
    <3> QED
      BY <2>1, <2>2, <3>1, <3>2
  <2>5. CASE Restore(t)
    <3>1. /\ request' = [request EXCEPT ![t].stage = "written", ![t].content = {}]
          /\ sure' = SureAfter(t, row) /\ marks' = [marks EXCEPT ![c] = row]
      BY <1>5, <2>5 DEF Restore, Store
    <3>2. r.mark = "removed" /\ r.on = {} /\ "removed" \in Scope(r)
      BY <1>2, <2>5, ReactionsAssumption, ControlsAssumption
        DEF Restore, Scope, Flags, ItemMarks, Controls
    <3> QED
      BY <2>1, <2>2, <3>1, <3>2
  <2>6. CASE SetFeedback(t)
    <3>1. /\ request' = [request EXCEPT ![t].stage = "answered", ![t].content = r.on]
          /\ sure' = SureAfter(t, row) /\ marks' = [marks EXCEPT ![c] = row]
          /\ c \in Recipes
      BY <1>5, <2>6 DEF SetFeedback, Store
    <3>2. Scope(r) = Reactions /\ Flags(c) = Reactions
      BY <3>1, ControlsAssumption DEF Scope, Flags
    <3>3. marks[c] \subseteq Reactions /\ r.on \subseteq Reactions /\ r.mark \in Reactions
      BY <1>2, <1>5, <3>2
    <3>4. row = r.on
      BY <2>1, <3>2, <3>3
    <3>5. "removed" \notin r.on /\ r.mark # "checked"
      BY <3>3, ReactionsAssumption DEF ItemMarks
    <3>6. request'[t].stage = "answered" /\ request'[t].content = row
      BY <2>2, <3>1, <3>4
    <3> HIDE DEF row
    <3> QED
      BY <3>1, <3>4, <3>5, <3>6
  <2> QED
    BY <2>3, <2>4, <2>5, <2>6
<1> QED
  BY <1>4, <1>5

LEMMA StoreTruth ==
    ASSUME TInv, TruthInv, NEW t \in Taps,
           \/ Check(t) \/ Remove(t) \/ Restore(t) \/ SetFeedback(t)
    PROVE  TruthInv'
<1> DEFINE r == request[t]
           c == r.control
<1>1. PICK row :
        /\ sure' = SureAfter(t, row)
        /\ marks' = [marks EXCEPT ![c] = row]
        /\ row # Absent /\ r.mark = "checked" => ("removed" \in row <=> "removed" \in marks[c])
        /\ request'[t].stage = "written" => r.mark = "checked" \/ "removed" \notin row
        /\ request'[t].stage = "answered"
             => request'[t].content = IF "removed" \in row THEN {"removed"} ELSE row
        /\ request'[t].stage \in {"written", "answered", "failed"}
  BY StoreRight
<1>2. /\ UNCHANGED <<view, heeded>>
      /\ \A u \in Taps : u # t => request'[u] = request[u]
      /\ \A u \in Taps : /\ request'[u].page = request[u].page
                         /\ request'[u].control = request[u].control
                         /\ request'[u].mark = request[u].mark
      /\ r.stage = "sent" /\ c \in Controls
  <2>1. r \in Requests /\ c \in Controls /\ r.stage = "sent"
    BY DEF Check, Remove, Restore, SetFeedback, Sent, Unused, TInv, Good, Requests
  <2>2. \E s, x : request' = [request EXCEPT ![t].stage = s, ![t].content = x]
    BY DEF Check, Remove, Restore, SetFeedback, Store
  <2> QED
    BY <2>1, <2>2 DEF Check, Remove, Restore, SetFeedback, Store, TInv, TypeOK, Requests
<1>3. heeded \subseteq Taps /\ marks'[c] = row /\ \A d \in Controls : d # c => marks'[d] = marks[d]
  BY <1>1, <1>2 DEF TInv, TypeOK
<1>4. "removed" \notin Absent
  BY DEF Absent
<1>5. OneAtAnElement'
  BY <1>1, <1>2, <1>3, KeptElements DEF TruthInv
<1> DEFINE own == t \in heeded /\ UnderWay(r.page, c) = {t}
<1>6. ASSUME NEW p \in Pages, NEW d \in Controls, <<p, d>> \in sure',
             ~(own /\ <<p, d>> = Place(t))
      PROVE  <<p, d>> \in sure /\ marks'[d] = marks[d]
  <2>1. CASE row = marks[c]
    <3>1. <<p, d>> \in sure
      BY <1>1, <1>6, <2>1 DEF SureAfter, Place
    <3> QED
      BY <1>3, <2>1, <3>1
  <2>2. CASE row # marks[c]
    <3>1. <<p, d>> \in sure /\ d # c
      BY <1>1, <1>6, <2>2 DEF SureAfter, Place
    <3> QED
      BY <1>3, <3>1
  <2> QED
    BY <2>1, <2>2
<1>7. ASSUME NEW u \in heeded, Place(u) \in sure', ~(own /\ Place(u) = Place(t))
      PROVE  /\ Place(u) \in sure /\ marks'[request[u].control] = marks[request[u].control]
             /\ ~Queued(u) => u # t
  <2>1. request[u].page \in Pages /\ request[u].control \in Controls
    BY WaitingFacts
  <2>2. Place(u) \in sure /\ marks'[request[u].control] = marks[request[u].control]
    BY <1>6, <1>7, <2>1 DEF Place
  <2>3. ASSUME u = t PROVE FALSE
    <3>1. \A v \in heeded : Place(v) = Place(t) /\ ~Queued(v) => v = t
      BY <1>2, <2>2, <2>3 DEF TruthInv, AnswersAreRight, Queued
    <3>2. UnderWay(r.page, c) = {t}
      BY <1>2, <2>3, <3>1 DEF UnderWay, Waiting, Queued, Place
    <3> QED
      BY <1>7, <2>3, <3>2
  <2> QED
    BY <2>2, <2>3
<1>8. ASSUME NEW u \in heeded, Place(u) \in sure', request'[u].stage # "queued"
      PROVE  /\ \A v \in heeded : Place(v) = Place(u) /\ request'[v].stage # "queued" => v = u
             /\ request[u].mark = "checked" \/ request'[u].stage = "written"
                  => "removed" \notin marks'[request[u].control]
             /\ request'[u].stage = "answered" => request'[u].content = Shown(request[u].control)'
  <2>0. \A v \in heeded : request'[v].stage = "queued" <=> Queued(v)
    BY <1>1, <1>2, <1>3 DEF Queued
  <2>1. CASE own /\ Place(u) = Place(t)
    <3>1. \A v \in heeded : Place(v) = Place(t) /\ ~Queued(v) => v = t
      BY <2>1 DEF UnderWay, Waiting, Place, Queued
    <3>2. u = t
      BY <1>8, <2>0, <2>1, <3>1
    <3>3. ASSUME r.mark = "checked" PROVE "removed" \notin row
      <4>1. CASE row = Absent
        BY <1>4, <4>1
      <4>2. CASE row # Absent
        <5>1. Place(t) \in sure
          BY <1>1, <1>8, <3>2, <3>3, <4>2 DEF SureAfter, Place
        <5>2. "removed" \notin marks[c]
          BY <1>2, <1>8, <3>2, <3>3, <5>1 DEF TruthInv, AnswersAreRight, Queued
        <5> QED
          BY <1>1, <3>3, <4>2, <5>2
      <4> QED
        BY <4>1, <4>2
    <3>4. request'[u].control = c
      BY <1>2, <3>2
    <3>5. \A v \in heeded : Place(v) = Place(u) /\ request'[v].stage # "queued" => v = u
      BY <2>0, <3>1, <3>2
    <3>6. r.mark = "checked" \/ request'[u].stage = "written" => "removed" \notin row
      BY <1>1, <3>2, <3>3
    <3>7. request'[u].stage = "answered" => request'[u].content = Shown(request[u].control)'
      BY <1>1, <1>3, <3>2, <3>4 DEF Shown
    <3> QED
      BY <1>3, <3>2, <3>5, <3>6, <3>7
  <2>2. CASE ~(own /\ Place(u) = Place(t))
    <3>1. /\ Place(u) \in sure /\ marks'[request[u].control] = marks[request[u].control]
          /\ u # t /\ request'[u] = request[u] /\ ~Queued(u)
      BY <1>2, <1>3, <1>7, <1>8, <2>0, <2>2
    <3>2. /\ \A v \in heeded : Place(v) = Place(u) /\ ~Queued(v) => v = u
          /\ request[u].mark = "checked" \/ request[u].stage = "written"
               => "removed" \notin marks[request[u].control]
          /\ request[u].stage = "answered" => request[u].content = Shown(request[u].control)
      BY <3>1 DEF TruthInv, AnswersAreRight
    <3> QED
      BY <2>0, <3>1, <3>2 DEF Shown
  <2> QED
    BY <2>1, <2>2
<1>9. AnswersAreRight'
  BY <1>2, <1>3, <1>8 DEF AnswersAreRight, Place, Queued, Shown
<1>10. SettledPageTellsTruth'
  <2> SUFFICES ASSUME NEW p \in Pages, NEW d \in Controls, <<p, d>> \in sure', Waiting(p, d)' = {}
               PROVE  view'[p][d] = Shown(d)'
    BY DEF SettledPageTellsTruth
  <2>1. Waiting(p, d) = {}
    BY <1>2, <1>3 DEF Waiting
  <2>2. ~(own /\ <<p, d>> = Place(t))
    BY <2>1 DEF Waiting, Place
  <2>3. <<p, d>> \in sure /\ marks'[d] = marks[d]
    BY <1>6, <2>2
  <2>4. view[p][d] = Shown(d)
    BY <2>1, <2>3 DEF TruthInv, SettledPageTellsTruth
  <2> QED
    BY <1>2, <2>3, <2>4 DEF Shown
<1> QED
  BY <1>5, <1>9, <1>10 DEF TruthInv

(* The answer is rendered, or a request fails, or is delivered again.      *)
LEMMA MoveTruth ==
    ASSUME TInv, TruthInv, NEW t \in Taps, RenderItem(t) \/ Fail(t) \/ Repeat(t)
    PROVE  TruthInv'
<1> DEFINE r == request[t]
<1>1. r \in Requests /\ heeded \subseteq Taps
  BY DEF RenderItem, Fail, Repeat, Unused, TInv, TypeOK, Good
<1>2. /\ UNCHANGED <<marks, view, heeded, sure>>
      /\ \A u \in Taps : u # t => request'[u] = request[u]
      /\ request'[t].page = r.page /\ request'[t].control = r.control /\ request'[t].mark = r.mark
      /\ r.stage # "queued" /\ request'[t].stage \in {"answered", "failed", "sent"}
      /\ request'[t].stage = "answered" =>
           r.stage = "written" /\ request'[t].content = marks[r.control] \ {"removed"}
  BY <1>1 DEF RenderItem, Fail, Repeat, TInv, TypeOK, Requests
<1>3. OneAtAnElement'
  BY <1>1, <1>2, KeptElements DEF TruthInv
<1>4. SettledPageTellsTruth'
  BY <1>1, <1>2, KeptSettled DEF SettledPageTellsTruth
<1>5. AnswersAreRight'
  <2> SUFFICES ASSUME NEW u \in heeded, Place(u)' \in sure, request'[u].stage # "queued"
               PROVE  /\ \A v \in heeded : Place(v)' = Place(u)' /\ request'[v].stage # "queued" => v = u
                      /\ request'[u].mark = "checked" \/ request'[u].stage = "written"
                           => "removed" \notin marks[request'[u].control]
                      /\ request'[u].stage = "answered"
                           => request'[u].content = Shown(request'[u].control)
    BY <1>2 DEF AnswersAreRight, Queued, Shown
  <2>1. /\ \A v \in heeded : Place(v)' = Place(v)
        /\ \A v \in heeded : request'[v].stage = "queued" <=> Queued(v)
    BY <1>1, <1>2 DEF Place, Queued
  <2>2. /\ \A v \in heeded : Place(v) = Place(u) /\ ~Queued(v) => v = u
        /\ request[u].mark = "checked" \/ request[u].stage = "written"
             => "removed" \notin marks[request[u].control]
        /\ request[u].stage = "answered" => request[u].content = Shown(request[u].control)
    BY <2>1 DEF TruthInv, AnswersAreRight
  <2>3. CASE u = t
    BY <1>2, <2>1, <2>2, <2>3 DEF Shown
  <2>4. CASE u # t
    BY <1>1, <1>2, <2>1, <2>2, <2>4
  <2> QED
    BY <2>3, <2>4
<1> QED
  BY <1>3, <1>4, <1>5 DEF TruthInv

LEMMA DiscardTruth == ASSUME TruthInv, TInv, NEW t \in Taps, Discard(t) PROVE TruthInv'
<1>1. \A u \in heeded : request'[u] = request[u]
  BY DEF Discard, TInv, TypeOK
<1> QED
  BY <1>1, QuietTruth DEF Discard

LEMMA SwapInTruth == ASSUME TInv, TruthInv, NEW t \in Taps, SwapIn(t) PROVE TruthInv'
<1> DEFINE r == request[t]
           gone == Waiting(r.page, r.control)
<1>1. /\ t \in heeded /\ r.stage = "answered" /\ heeded \subseteq Taps
      /\ r.page \in Pages /\ r.control \in Controls
      /\ heeded' = heeded \ gone /\ UNCHANGED <<marks, sure>>
      /\ view' = [view EXCEPT ![r.page][r.control] = r.content]
      /\ view \in [Pages -> [Controls -> Contents]]
  BY WaitingFacts DEF SwapIn, TInv, TypeOK
<1>2. \A u \in heeded' : request'[u] = request[u] /\ Place(u) # Place(t)
  BY <1>1 DEF SwapIn, Waiting, Place
<1>3. \A u \in heeded : Place(u) # Place(t) => u \in heeded'
  BY <1>1 DEF Waiting, Place
<1>4. OneAtAnElement'
  BY <1>1, <1>2, <1>3, KeptElements DEF TruthInv, SameElement
<1>5. AnswersAreRight'
  BY <1>1, <1>2, KeptTruth
<1>6. SettledPageTellsTruth'
  <2> SUFFICES ASSUME NEW p \in Pages, NEW c \in Controls, <<p, c>> \in sure, Waiting(p, c)' = {}
               PROVE  view'[p][c] = Shown(c)
    BY <1>1 DEF SettledPageTellsTruth, Shown
  <2>1. CASE <<p, c>> = Place(t)
    <3>1. r.content = Shown(r.control)
      BY <1>1, <2>1 DEF TruthInv, AnswersAreRight, Queued
    <3> QED
      BY <1>1, <2>1, <3>1 DEF Place
  <2>2. CASE <<p, c>> # Place(t)
    <3>1. Waiting(p, c) = {}
      BY <1>2, <1>3, <2>2 DEF Waiting, Place
    <3>2. view'[p][c] = view[p][c]
      BY <1>1, <2>2 DEF Place
    <3> QED
      BY <3>1, <3>2 DEF TruthInv, SettledPageTellsTruth
  <2> QED
    BY <2>1, <2>2
<1> QED
  BY <1>4, <1>5, <1>6 DEF TruthInv

LEMMA LoadTruth ==
    ASSUME TInv, TruthInv, NEW p \in Pages, NEW screen \in Screens, Load(p, screen)
    PROVE  TruthInv'
<1>1. /\ heeded' = {t \in heeded : request[t].page # p} /\ heeded \subseteq Taps
      /\ marks' = marks
      /\ \A t \in heeded' : request'[t] = request[t]
      /\ \A q \in Pages \ {p} : view'[q] = view[q]
      /\ \A c \in screen \cap Controls : Listed(c) => view'[p][c] = marks[c]
      /\ \A q \in Pages, c \in Controls : <<q, c>> \in sure' =>
           \/ q # p /\ <<q, c>> \in sure
           \/ q = p /\ c \in screen /\ Listed(c)
  BY DEF Load, TInv, TypeOK
<1>2. OneAtAnElement'
  BY <1>1, KeptElements DEF TruthInv, SameElement, Place
<1>3. \A u \in heeded : request[u].page \in Pages /\ request[u].control \in Controls
  BY WaitingFacts
<1>4. AnswersAreRight'
  BY <1>1, <1>3, KeptTruth DEF Place
<1>5. SettledPageTellsTruth'
  <2> SUFFICES ASSUME NEW q \in Pages, NEW c \in Controls, <<q, c>> \in sure', Waiting(q, c)' = {}
               PROVE  view'[q][c] = Shown(c)
    BY <1>1 DEF SettledPageTellsTruth, Shown
  <2>1. CASE q = p
    <3>1. view'[p][c] = marks[c] /\ Listed(c)
      BY <1>1, <2>1
    <3>2. "removed" \notin marks[c]
      <4>1. c \in Recipes => Flags(c) = Reactions
        BY DEF Flags
      <4>2. marks[c] = Absent \/ marks[c] \subseteq Flags(c)
        BY DEF TInv, TypeOK
      <4> QED
        BY <3>1, <4>1, <4>2 DEF Listed, Controls, Absent, ItemMarks
    <3> QED
      BY <2>1, <3>1, <3>2 DEF Shown
  <2>2. CASE q # p
    <3>1. Waiting(q, c) = {}
      BY <1>1, <2>2 DEF Waiting
    <3> QED
      BY <1>1, <2>2, <3>1 DEF TruthInv, SettledPageTellsTruth
  <2> QED
    BY <2>1, <2>2
<1> QED
  BY <1>2, <1>4, <1>5 DEF TruthInv

(* Of the rows that a new list brings or takes away no page is sure.       *)
LEMMA ListTruth ==
    ASSUME TInv, TruthInv, NewWeek \/ ReplaceItems
    PROVE  TruthInv'
<1>1. PICK new \in SUBSET fresh :
        /\ \A c \in Controls : c \notin listed \cup new => marks'[c] = marks[c]
        /\ sure' = sure \ (Pages \X (listed \cup new))
        /\ UNCHANGED <<view, request, heeded>>
  BY DEF NewWeek, ReplaceItems
<1>2. \A u \in heeded : request[u].page \in Pages /\ request[u].control \in Controls
  BY WaitingFacts
<1>3. OneAtAnElement'
  BY <1>1, KeptElements DEF TruthInv
<1>4. AnswersAreRight'
  BY <1>1, <1>2, KeptTruth DEF Place
<1>5. SettledPageTellsTruth'
  BY <1>1, KeptSettled
<1> QED
  BY <1>3, <1>4, <1>5 DEF TruthInv

LEMMA TapTruth ==
    ASSUME TInv, TruthInv, NEW t \in Taps, NEW p \in Pages, NEW c \in Controls,
           NEW m \in ItemMarks \cup Reactions, Tap(t, p, c, m)
    PROVE  TruthInv'
<1> DEFINE same == {u \in Waiting(p, c) : request[u].mark = m}
           queued == {u \in same : request[u].stage = "queued"}
<1>1. /\ t \notin heeded /\ heeded \subseteq Taps /\ m \in Offered(p, c)
      /\ heeded' = (heeded \ queued) \cup {t} /\ marks' = marks
      /\ request'[t].page = p /\ request'[t].control = c /\ request'[t].mark = m
      /\ request'[t].stage = IF same = {} THEN "sent" ELSE "queued"
      /\ \A u \in heeded \ queued : u # t /\ request'[u] = request[u]
      /\ \A q \in Pages, d \in Controls : <<q, d>> # <<p, c>> => view'[q][d] = view[q][d]
      /\ sure' \subseteq sure
      /\ <<p, c>> \in sure' => UnderWay(p, c) \subseteq same
  <2>1. t \notin heeded /\ heeded \subseteq Taps
    BY DEF Tap, TInv, TypeOK, Placed
  <2>2. view \in [Pages -> [Controls -> Contents]]
    BY DEF TInv, TypeOK
  <2>3. /\ m \in Offered(p, c)
        /\ heeded' = (heeded \ queued) \cup {t} /\ marks' = marks
        /\ \E shown : view' = [view EXCEPT ![p][c] = shown]
        /\ sure' = IF UnderWay(p, c) \subseteq same THEN sure ELSE sure \ {<<p, c>>}
    BY DEF Tap
  <2>0. t \notin queued
    BY <2>1 DEF Waiting
  <2>4. request'[t] = [page |-> p, control |-> c, mark |-> m,
                       on |-> Posted(c, m, IF m = "removed" THEN view[p][c] ELSE Flip(view[p][c], m)),
                       content |-> {},
                       stage |-> IF same = {} THEN "sent" ELSE "queued"]
    BY <2>0 DEF Tap
  <2>5. \A u \in heeded \ queued : u # t /\ request'[u] = request[u]
    BY <2>1 DEF Tap
  <2>6. \A q \in Pages, d \in Controls : <<q, d>> # <<p, c>> => view'[q][d] = view[q][d]
    BY <2>2, <2>3
  <2> QED
    BY <2>1, <2>3, <2>4, <2>5, <2>6
<1>2. \A u \in heeded : u \in same <=> Place(u) = <<p, c>> /\ request[u].mark = m
  BY DEF Waiting, Place
<1>3. \A u \in queued : Queued(u) /\ u \in same
  BY DEF Queued
<1>4. \A u \in heeded : Queued(u) /\ u \in same => u \in queued
  BY DEF Queued
<1>5. OneAtAnElement'
  <2>1. ASSUME NEW u \in heeded', NEW v \in heeded', SameElement(u, v)', Queued(u)' = Queued(v)'
        PROVE  u = v
    <3>1. CASE u # t /\ v # t
      <4>1. /\ u \in heeded /\ v \in heeded
            /\ SameElement(u, v) /\ Queued(u) = Queued(v)
        BY <1>1, <2>1, <3>1 DEF SameElement, Place, Queued
      <4> QED
        BY <4>1 DEF TruthInv, OneAtAnElement
    <3>2. ASSUME NEW w \in heeded \ queued, SameElement(w, t)', Queued(w)' = Queued(t)'
          PROVE  FALSE
      <4>1. w \in same /\ same # {}
        BY <1>1, <1>2, <3>2 DEF SameElement, Place
      <4>2. Queued(w)
        BY <1>1, <3>2, <4>1 DEF Queued
      <4> QED
        BY <1>4, <3>2, <4>1, <4>2
    <3>3. CASE u = t /\ v # t
      <4>1. SameElement(v, t)' /\ Queued(v)' = Queued(t)' /\ v \in heeded \ queued
        BY <1>1, <2>1, <3>3 DEF SameElement
      <4> QED
        BY <3>2, <4>1
    <3>4. CASE u # t /\ v = t
      BY <1>1, <2>1, <3>2, <3>4
    <3> QED
      BY <3>1, <3>3, <3>4
  <2>2. ASSUME NEW u \in heeded', Queued(u)'
        PROVE  \E v \in heeded' : SameElement(u, v)' /\ ~Queued(v)'
    <3>1. CASE u = t
      <4>1. PICK w \in same : TRUE
        BY <1>1, <2>2, <3>1 DEF Queued
      <4>2. w \in heeded
        BY DEF Waiting
      <4>3. PICK v \in heeded : v \in same /\ ~Queued(v)
        BY <1>2, <4>1, <4>2 DEF TruthInv, OneAtAnElement, SameElement, Queued
      <4>4. v \in heeded \ queued
        BY <1>3, <4>3
      <4> QED
        BY <1>1, <1>2, <3>1, <4>3, <4>4 DEF SameElement, Place, Queued
    <3>2. CASE u # t
      <4>1. u \in heeded \ queued /\ Queued(u) /\ u \notin same
        BY <1>1, <1>4, <2>2, <3>2 DEF Queued
      <4>2. PICK v \in heeded : SameElement(u, v) /\ ~Queued(v)
        BY <4>1 DEF TruthInv, OneAtAnElement
      <4>3. v \in heeded \ queued
        BY <1>3, <4>2
      <4> QED
        BY <1>1, <4>1, <4>2, <4>3 DEF SameElement, Place, Queued
    <3> QED
      BY <3>1, <3>2
  <2> QED
    BY <2>1, <2>2 DEF OneAtAnElement
<1>6. ASSUME <<p, c>> \in sure, m = "checked", same = {}, UnderWay(p, c) = {}
      PROVE  "removed" \notin marks[c]
  <2>1. \A u \in heeded : Place(u) # <<p, c>>
    <3> SUFFICES ASSUME NEW u \in heeded, Place(u) = <<p, c>> PROVE FALSE
      OBVIOUS
    <3>1. PICK v \in heeded : Place(v) = <<p, c>> /\ ~Queued(v)
      BY DEF TruthInv, OneAtAnElement, SameElement
    <3>2. v \in UnderWay(p, c)
      BY <3>1 DEF UnderWay, Waiting, Place, Queued
    <3> QED
      BY <1>6, <3>2
  <2>2. view[p][c] = Shown(c)
    BY <1>6, <2>1 DEF TruthInv, SettledPageTellsTruth, Waiting, Place
  <2>3. "removed" \notin view[p][c]
    BY <1>1, <1>6 DEF Offered, Absent
  <2> QED
    BY <2>2, <2>3 DEF Shown
<1>7. AnswersAreRight'
  <2> SUFFICES ASSUME NEW u \in heeded', Place(u)' \in sure', ~Queued(u)'
               PROVE  /\ \A v \in heeded' : Place(v)' = Place(u)' /\ ~Queued(v)' => v = u
                      /\ request'[u].mark = "checked" \/ request'[u].stage = "written"
                           => "removed" \notin marks[request'[u].control]
                      /\ request'[u].stage = "answered"
                           => request'[u].content = Shown(request'[u].control)
    BY <1>1 DEF AnswersAreRight, Shown
  <2>1. CASE u = t
    <3>1. same = {} /\ <<p, c>> \in sure' /\ request'[t].stage = "sent"
      BY <1>1, <2>1 DEF Queued, Place
    <3>2. UnderWay(p, c) = {} /\ <<p, c>> \in sure
      BY <1>1, <3>1
    <3>3. ASSUME NEW v \in heeded', Place(v)' = Place(u)', ~Queued(v)' PROVE v = u
      <4> SUFFICES ASSUME v # t PROVE FALSE
        BY <2>1
      <4>1. v \in heeded /\ Place(v) = <<p, c>> /\ ~Queued(v)
        BY <1>1, <2>1, <3>3 DEF Place, Queued
      <4>2. v \in UnderWay(p, c)
        BY <4>1 DEF UnderWay, Waiting, Place, Queued
      <4> QED
        BY <3>2, <4>2
    <3> QED
      BY <1>1, <1>6, <2>1, <3>1, <3>2, <3>3
  <2>2. CASE u # t
    <3>1. u \in heeded \ queued /\ request'[u] = request[u] /\ ~Queued(u) /\ Place(u) \in sure
      BY <1>1, <2>2 DEF Queued, Place
    <3>2. ASSUME NEW v \in heeded', Place(v)' = Place(u)', ~Queued(v)' PROVE v # t
      <4> SUFFICES ASSUME v = t PROVE FALSE
        OBVIOUS
      <4>1. same = {} /\ Place(u) = <<p, c>> /\ <<p, c>> \in sure'
        BY <1>1, <3>1, <3>2 DEF Queued, Place
      <4>2. u \in UnderWay(p, c)
        BY <3>1, <4>1 DEF UnderWay, Waiting, Place, Queued
      <4> QED
        BY <1>1, <4>1, <4>2
    <3>3. /\ \A v \in heeded : Place(v) = Place(u) /\ ~Queued(v) => v = u
          /\ request[u].mark = "checked" \/ request[u].stage = "written"
               => "removed" \notin marks[request[u].control]
          /\ request[u].stage = "answered" => request[u].content = Shown(request[u].control)
      BY <3>1 DEF TruthInv, AnswersAreRight
    <3>4. ASSUME NEW v \in heeded', Place(v)' = Place(u)', ~Queued(v)' PROVE v = u
      <4>1. v \in heeded /\ request'[v] = request[v]
        BY <1>1, <3>2, <3>4
      <4> QED
        BY <3>1, <3>3, <3>4, <4>1 DEF Place, Queued
    <3> QED
      BY <3>1, <3>3, <3>4
  <2> QED
    BY <2>1, <2>2
<1>8. SettledPageTellsTruth'
  <2> SUFFICES ASSUME NEW q \in Pages, NEW d \in Controls, <<q, d>> \in sure', Waiting(q, d)' = {}
               PROVE  view'[q][d] = Shown(d)
    BY <1>1 DEF SettledPageTellsTruth, Shown
  <2>1. <<q, d>> # <<p, c>>
    BY <1>1 DEF Waiting
  <2>2. Waiting(q, d) = {}
    <3> SUFFICES ASSUME NEW u \in heeded, Place(u) = <<q, d>> PROVE FALSE
      BY DEF Waiting, Place
    <3>1. u \in heeded \ queued
      BY <1>2, <1>3, <2>1
    <3> QED
      BY <1>1, <3>1 DEF Waiting, Place
  <2>3. view[q][d] = Shown(d)
    BY <1>1, <2>2 DEF TruthInv, SettledPageTellsTruth
  <2> QED
    BY <1>1, <2>1, <2>3
<1> QED
  BY <1>5, <1>7, <1>8 DEF TruthInv

(* Of a fragment whose answer is lost its page is not sure any more.       *)
LEMMA UnansweredTruth ==
    ASSUME TInv, TruthInv, NEW t \in Taps, ErrorAnswered(t) \/ ConnectionBreaks(t)
    PROVE  TruthInv'
<1> DEFINE r == request[t]
           next == {u \in Waiting(r.page, r.control) : request[u].mark = r.mark /\ request[u].stage = "queued"}
<1>1. /\ t \in heeded /\ heeded' = heeded \ {t} /\ ~Queued(t) /\ heeded \subseteq Taps
      /\ sure' = sure \ {Place(t)} /\ UNCHANGED <<marks, view>>
  BY DEF ErrorAnswered, ConnectionBreaks, Unanswered, Place, Queued, TInv, TypeOK
<1>2. \A u \in heeded : u \in next <=> SameElement(u, t) /\ Queued(u)
  BY DEF Waiting, SameElement, Place, Queued
<1>3. ASSUME NEW u \in heeded'
      PROVE  /\ u \notin next => request'[u] = request[u]
             /\ u \in next => ~Queued(u)'
             /\ SameElement(u, u)' /\ Place(u)' = Place(u) /\ request'[u].mark = request[u].mark
  <2>1. request[u] \in Requests /\ u \in Taps /\ u # t
    BY <1>1, WaitingFacts
  <2>2. request'[u] = IF u \in next
                      THEN [request[u] EXCEPT !.stage = "sent",
                              !.on = Posted(r.control, r.mark, view[r.page][r.control])]
                      ELSE request[u]
    BY <2>1 DEF ErrorAnswered, ConnectionBreaks, Unanswered
  <2> QED
    BY <2>1, <2>2 DEF SameElement, Place, Queued, Requests
<1>4. \A u, v \in heeded' : SameElement(u, v)' <=> SameElement(u, v)
  BY <1>3 DEF SameElement
<1>5. \A u \in heeded' : Queued(u)' <=> Queued(u) /\ ~SameElement(u, t)
  BY <1>1, <1>2, <1>3 DEF Queued
<1>6. ASSUME NEW u \in heeded', SameElement(u, t) PROVE Queued(u)
  <2>1. u \in heeded /\ u # t
    BY <1>1
  <2>2. Queued(u) # Queued(t)
    BY <1>1, <1>6, <2>1 DEF TruthInv, OneAtAnElement
  <2> QED
    BY <1>1, <2>2 DEF Queued
<1>7. OneAtAnElement'
  <2>1. ASSUME NEW u \in heeded', NEW v \in heeded', SameElement(u, v)', Queued(u)' = Queued(v)'
        PROVE  u = v
    <3>1. SameElement(u, v) /\ (SameElement(u, t) <=> SameElement(v, t))
      BY <1>4, <2>1 DEF SameElement
    <3>2. Queued(u) = Queued(v)
      BY <1>5, <1>6, <2>1, <3>1 DEF Queued
    <3> QED
      BY <1>1, <3>1, <3>2 DEF TruthInv, OneAtAnElement
  <2>2. ASSUME NEW u \in heeded', Queued(u)'
        PROVE  \E v \in heeded' : SameElement(u, v)' /\ ~Queued(v)'
    <3>1. Queued(u) /\ ~SameElement(u, t) /\ u \in heeded
      BY <1>1, <1>5, <2>2
    <3>2. PICK v \in heeded : SameElement(u, v) /\ ~Queued(v)
      BY <3>1 DEF TruthInv, OneAtAnElement
    <3>3. v \in heeded'
      BY <1>1, <3>1, <3>2
    <3> QED
      BY <1>4, <1>5, <3>2, <3>3
  <2> QED
    BY <2>1, <2>2 DEF OneAtAnElement
<1>8. AnswersAreRight'
  <2>1. \A u \in heeded' : Place(u) # Place(t) => request'[u] = request[u]
    BY <1>1, <1>2, <1>3 DEF SameElement
  <2> QED
    BY <1>1, <1>3, <2>1, KeptTruth DEF Place
<1>9. SettledPageTellsTruth'
  <2> SUFFICES ASSUME NEW p \in Pages, NEW c \in Controls, <<p, c>> \in sure', Waiting(p, c)' = {}
               PROVE  view[p][c] = Shown(c)
    BY <1>1 DEF SettledPageTellsTruth, Shown
  <2>1. Waiting(p, c) = {}
    <3> SUFFICES ASSUME NEW u \in heeded, Place(u) = <<p, c>> PROVE FALSE
      BY DEF Waiting, Place
    <3>1. u \in heeded'
      BY <1>1
    <3> QED
      BY <1>3, <3>1 DEF Waiting, Place
  <2> QED
    BY <1>1, <2>1 DEF TruthInv, SettledPageTellsTruth
<1> QED
  BY <1>7, <1>8, <1>9 DEF TruthInv

LEMMA StepTruth == TInv /\ TruthInv /\ [Next]_vars => TruthInv'
<1> SUFFICES ASSUME TInv, TruthInv, [Next]_vars PROVE TruthInv'
  OBVIOUS
<1>1. CASE UNCHANGED vars
  BY <1>1, QuietTruth DEF vars
<1>2. ASSUME NEW t \in Taps, NEW p \in Pages, NEW c \in Controls,
             NEW m \in ItemMarks \cup Reactions, Tap(t, p, c, m)
      PROVE  TruthInv'
  BY <1>2, TapTruth
<1>3. ASSUME NEW t \in Taps, Check(t) \/ Remove(t) \/ Restore(t) \/ SetFeedback(t)
      PROVE  TruthInv'
  BY <1>3, StoreTruth
<1>4. ASSUME NEW t \in Taps, RenderItem(t) \/ Fail(t) \/ Repeat(t) PROVE TruthInv'
  BY <1>4, MoveTruth
<1>5. ASSUME NEW t \in Taps, SwapIn(t) PROVE TruthInv'
  BY <1>5, SwapInTruth
<1>6. ASSUME NEW t \in Taps, ErrorAnswered(t) \/ ConnectionBreaks(t) PROVE TruthInv'
  BY <1>6, UnansweredTruth
<1>7. ASSUME NEW t \in Taps, Discard(t) PROVE TruthInv'
  BY <1>7, DiscardTruth
<1>8. ASSUME NEW p \in Pages, NEW screen \in Screens, Load(p, screen) PROVE TruthInv'
  BY <1>8, LoadTruth
<1>9. CASE NewWeek \/ ReplaceItems
  BY <1>9, ListTruth
<1> QED
  BY <1>1, <1>2, <1>3, <1>4, <1>5, <1>6, <1>7, <1>8, <1>9 DEF Next

(* A page that waits for nothing shows what is stored, unless it cannot    *)
(* know: however many people tap, however often answers are lost, queued,  *)
(* or carried out twice.                                                   *)
THEOREM SettledPagesAreRight == Spec => []SettledPageTellsTruth
<1>1. TruthInv => SettledPageTellsTruth
  BY DEF TruthInv
<1> QED
  BY <1>1, InitTruth, StepTruth, TInvariance, PTL DEF Spec
=============================================================================
