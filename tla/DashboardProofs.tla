--------------------------- MODULE DashboardProofs ---------------------------
(***************************************************************************)
(* Why the page never goes back unless it was overtaken: the cache's total  *)
(* only grows, so a document copied after the last render is not behind     *)
(* what the page shows, and Render tells every tick under way that it may   *)
(* now be.                                                                  *)
(***************************************************************************)
EXTENDS Dashboard, TLAPS

Document == [total : Nat, age : Int \cup {None}]
Ticking ==
    [since : Nat, status : Document \cup {None}, feed : (SUBSET UasIds) \cup {None},
     fresh : BOOLEAN]

CacheOK ==
    /\ clock \in Nat /\ total \in Nat /\ newest \in Nat \cup {None}
    /\ DOMAIN heard \subseteq UasIds
    /\ heard \in [DOMAIN heard -> Nat]

PageOK ==
    /\ tick \in [Slots -> Ticking \cup {None}]
    /\ page \in [pill : {"none", "ACTIVE", "IDLE", "OFFLINE"}, total : Nat, live : SUBSET UasIds]

\* A status document that is on the page or on its way there is not ahead of the cache.
NotAhead ==
    /\ page.total <= total
    /\ \A s \in Slots : tick[s] # None /\ tick[s].status # None => tick[s].status.total <= total

\* One that arrived for a tick nothing has overtaken is not behind the page.
NotBehind ==
    \A s \in Slots : tick[s] # None /\ tick[s].status # None /\ tick[s].fresh =>
        page.total <= tick[s].status.total

DashInv == CacheOK /\ PageOK /\ NotAhead /\ NotBehind

LEMMA DashInitInv == DashInit => DashInv
BY DEF DashInit, Init, DashInv, CacheOK, PageOK, NotAhead, NotBehind

\* What the handlers copy has the type of a document.
LEMMA Documents ==
    ASSUME CacheOK, NEW now \in Nat
    PROVE  Health(now) \in Document /\ Health(now).total = total /\ Snapshot \in SUBSET UasIds
BY DEF CacheOK, Health, Age, Document, Snapshot

\* The page goes by the documents alone: a step of the cache disturbs nothing.
LEMMA CacheSteps ==
    ASSUME DashInv, tick' = tick, page' = page, CacheOK', total' >= total
    PROVE  DashInv'
BY DEF DashInv, CacheOK, PageOK, NotAhead, NotBehind, Ticking, Document

\* A step of the page leaves the cache alone.
LEMMA CacheKept ==
    ASSUME CacheOK, UNCHANGED <<vars, total, newest>>
    PROVE  CacheOK'
BY DEF CacheOK, vars

LEMMA DashStepInv == DashInv /\ [DashNext]_dashVars => DashInv'
<1> SUFFICES ASSUME DashInv, [DashNext]_dashVars PROVE DashInv'
  OBVIOUS
<1>0. CacheOK /\ PageOK /\ NotAhead /\ NotBehind
  BY DEF DashInv
<1>1. CASE CacheTick
  BY <1>0, <1>1, CacheSteps DEF CacheTick, Tick, pageVars, CacheOK
<1>2. CASE CacheEvict
  <2>1. CacheOK'
    BY <1>0, <1>2 DEF CacheEvict, Evict, CacheOK
  <2> QED
    BY <1>0, <1>2, <2>1, CacheSteps DEF CacheEvict, pageVars, CacheOK
<1>3. ASSUME NEW u \in UasIds, DashHear(u) PROVE DashInv'
  <2>1. PICK at \in 0..clock :
          heard' = [v \in DOMAIN heard \cup {u} |-> IF v = u THEN at ELSE heard[v]]
    BY <1>3 DEF DashHear, Hear
  <2>2. CacheOK'
    BY <1>0, <1>3, <2>1 DEF DashHear, Hear, CacheOK
  <2> QED
    BY <1>0, <1>3, <2>2, CacheSteps DEF DashHear, pageVars, CacheOK
<1>4. ASSUME NEW u \in UasIds, CacheNotify(u) PROVE DashInv'
  BY <1>0, <1>4, CacheSteps DEF CacheNotify, Notify, pageVars, CacheOK
<1>5. ASSUME NEW s \in Slots, TickBegin(s) PROVE DashInv'
  <2>1. CacheOK'
    BY <1>0, <1>5, CacheKept DEF TickBegin
  <2>2. [since |-> clock, status |-> None, feed |-> None, fresh |-> TRUE] \in Ticking
    BY <1>0 DEF CacheOK, Ticking
  <2>3. PageOK'
    BY <1>0, <1>5, <2>2 DEF TickBegin, PageOK
  <2>4. NotAhead' /\ NotBehind'
    BY <1>0, <1>5 DEF TickBegin, PageOK, NotAhead, NotBehind
  <2> QED
    BY <2>1, <2>3, <2>4 DEF DashInv
<1>6. ASSUME NEW s \in Slots, AnswerStatus(s) PROVE DashInv'
  <2>1. CacheOK'
    BY <1>0, <1>6, CacheKept DEF AnswerStatus
  <2>2. PICK now \in tick[s].since..clock : tick' = [tick EXCEPT ![s].status = Health(now)]
    BY <1>6 DEF AnswerStatus
  <2>3. tick[s] \in Ticking /\ now \in Nat
    BY <1>0, <1>6, <2>2 DEF AnswerStatus, PageOK, CacheOK, Ticking
  <2>4. Health(now) \in Document /\ Health(now).total = total
    BY <1>0, <2>3, Documents
  <2>5. PageOK'
    BY <1>0, <1>6, <2>2, <2>3, <2>4 DEF AnswerStatus, PageOK, Ticking
  <2>6. NotAhead' /\ NotBehind'
    BY <1>0, <1>6, <2>2, <2>3, <2>4
       DEF AnswerStatus, PageOK, CacheOK, NotAhead, NotBehind, Ticking
  <2> QED
    BY <2>1, <2>5, <2>6 DEF DashInv
<1>7. ASSUME NEW s \in Slots, AnswerFeed(s) PROVE DashInv'
  <2>1. CacheOK'
    BY <1>0, <1>7, CacheKept DEF AnswerFeed
  <2>2. tick[s] \in Ticking /\ Snapshot \in SUBSET UasIds
    BY <1>0, <1>7 DEF AnswerFeed, PageOK, CacheOK, Snapshot
  <2>3. PageOK'
    BY <1>0, <1>7, <2>2 DEF AnswerFeed, PageOK, Ticking
  <2>4. NotAhead' /\ NotBehind'
    BY <1>0, <1>7, <2>2 DEF AnswerFeed, PageOK, NotAhead, NotBehind, Ticking
  <2> QED
    BY <2>1, <2>3, <2>4 DEF DashInv
<1>8. ASSUME NEW s \in Slots, Render(s) PROVE DashInv'
  <2>1. CacheOK'
    BY <1>0, <1>8, CacheKept DEF Render
  <2>2. tick[s] \in Ticking /\ tick[s].status \in Document /\ tick[s].feed \in SUBSET UasIds
    BY <1>0, <1>8 DEF Render, PageOK, Ticking
  <2>3. Pill(tick[s].status.age) \in {"ACTIVE", "IDLE"}
    BY DEF Pill
  <2>4. tick' \in [Slots -> Ticking \cup {None}]
    BY <1>0, <1>8 DEF Render, TickDone, PageOK, Ticking
  <2>5. page' \in [pill : {"none", "ACTIVE", "IDLE", "OFFLINE"}, total : Nat, live : SUBSET UasIds]
    BY <1>8, <2>2, <2>3 DEF Render, Document
  <2>6. \A x \in Slots : tick'[x] # None =>
          /\ tick[x] # None /\ tick'[x].status = tick[x].status /\ ~tick'[x].fresh
    BY <1>0, <1>8 DEF Render, TickDone, PageOK, Ticking
  <2>7. NotAhead'
    BY <1>0, <1>8, <2>6 DEF Render, NotAhead
  <2>8. NotBehind'
    BY <2>6 DEF NotBehind
  <2> QED
    BY <2>1, <2>4, <2>5, <2>7, <2>8 DEF DashInv, PageOK
<1>9. ASSUME NEW s \in Slots, TickFails(s) PROVE DashInv'
  <2>1. CacheOK'
    BY <1>0, <1>9, CacheKept DEF TickFails
  <2>2. PageOK' /\ page'.total = page.total
    BY <1>0, <1>9 DEF TickFails, PageOK
  <2>3. NotAhead' /\ NotBehind'
    BY <1>0, <1>9, <2>2 DEF TickFails, PageOK, NotAhead, NotBehind
  <2> QED
    BY <2>1, <2>2, <2>3 DEF DashInv
<1>10. CASE LoadRecent \/ ThrottleOver \/ UNCHANGED dashVars
  BY <1>0, <1>10, CacheKept DEF LoadRecent, ThrottleOver, dashVars, pageVars,
     DashInv, PageOK, NotAhead, NotBehind
<1> QED
  BY <1>1, <1>2, <1>3, <1>4, <1>5, <1>6, <1>7, <1>8, <1>9, <1>10 DEF DashNext

\* Nothing the page shows or awaits is ahead of the cache, and only an overtaken tick is
\* behind the page.
THEOREM DashInvariance == DashSpec => []DashInv
BY DashInitInv, DashStepInv, PTL DEF DashSpec

\* For any number of pages' ticks under way, any TTL and any losses: the total on the
\* screen goes back only when an overtaken tick is rendered.
THEOREM PageForward == DashSpec => PageMovesForward
<1>1. DashInv => \A s \in Slots : tick[s] # None /\ tick[s].fresh /\ Render(s) =>
                    page'.total >= page.total
  BY DEF DashInv, PageOK, NotBehind, Render, Ticking, Document
<1>2. DashInv /\ [DashNext]_dashVars =>
        [\A s \in Slots : tick[s] # None /\ tick[s].fresh /\ Render(s) =>
            page'.total >= page.total]_dashVars
  BY <1>1
<1> QED
  BY DashInvariance, <1>2, PTL DEF DashSpec, PageMovesForward

=============================================================================
