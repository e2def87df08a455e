------------------------------ MODULE Dashboard ------------------------------
(***************************************************************************)
(* The page the feed server serves (feed_server.py), over a cache that is   *)
(* what Airspace says.  A tick of the page asks for /status and for the     *)
(* feed at once; each handler thread copies the cache in a critical section *)
(* of its own, and the page renders when both documents are there.  The     *)
(* poll chain never overlaps itself, but setUnits() starts a tick of its    *)
(* own: two ticks may be under way, and rendered in another order than      *)
(* their documents were copied.  The table of recent detections is loaded   *)
(* now and then, and badges whoever is live when its rows arrive.           *)
(***************************************************************************)
EXTENDS Airspace

CONSTANTS
    Slots,       \* who starts ticks: the poll chain and the unit buttons
    HistoryOn,   \* whether the server was given a history
    IdleAfter,   \* the silence after which the pill says IDLE
    MaxTime,     \* bound: the clock stops here
    RxUntil,     \* bound: nothing is heard after this time
    MaxMessages, \* bound: messages heard
    MaxClicks,   \* bound: presses of a unit button
    MaxFails,    \* bound: requests that fail
    None         \* undefined, null

VARIABLES
    total,   \* messages_total
    newest,  \* the newest transport stamp, or None
    tick,    \* tick[s]: the tick() of slot s that awaits its documents, or None
    page,    \* what is on the screen
    recent,  \* the table of recent detections and its throttle
    clicks, fails

pageVars == <<tick, page, recent, clicks, fails>>
dashVars == <<vars, total, newest, pageVars>>

DashInit ==
    /\ Init
    /\ total = 0 /\ newest = None
    /\ tick = [s \in Slots |-> None]
    /\ page = [pill |-> "none", total |-> 0, live |-> {}]
    /\ recent = [due |-> TRUE, loading |-> FALSE, badges |-> {}]
    /\ clicks = MaxClicks /\ fails = MaxFails

-----------------------------------------------------------------------------
(* The cache.                                                               *)

DashHear(u) ==
    /\ clock <= RxUntil /\ total < MaxMessages
    /\ Hear(u)
    /\ total' = total + 1
    /\ newest' = heard'[u]
    /\ UNCHANGED pageVars

Silent == {u \in DOMAIN heard : clock - heard[u] > Ttl}

CacheTick == clock < MaxTime /\ Tick /\ UNCHANGED <<total, newest, pageVars>>
CacheEvict == Silent # {} /\ Evict(Silent) /\ UNCHANGED <<total, newest, pageVars>>
CacheNotify(u) == Notify(u) /\ UNCHANGED <<total, newest, pageVars>>

-----------------------------------------------------------------------------
(* The page and the handlers.                                               *)

\* poll() after its timeout, or a unit button.  `since` and `fresh` are history: when
\* the tick began, and whether nothing was rendered since.
TickBegin(s) ==
    /\ tick[s] = None
    /\ s # "poll" => clicks > 0
    /\ clicks' = IF s = "poll" THEN clicks ELSE clicks - 1
    /\ tick' = [tick EXCEPT ![s] = [since |-> clock, status |-> None, feed |-> None,
                                    fresh |-> TRUE]]
    /\ UNCHANGED <<vars, total, newest, page, recent, fails>>

Age(now) == IF newest = None THEN None ELSE now - newest

\* Mutant: /status counts the messages of the drones that are still there.
HealthOfPresent(now) ==
    [total |-> IF DOMAIN heard = {} THEN 0 ELSE total, age |-> Age(now)]
\* health() and snapshot(), as far as the page shows them.
Health(now) == [total |-> total, age |-> Age(now)]
Snapshot == DOMAIN heard

\* A handler thread, which read the clock before it waited for the lock, copies the
\* cache and the page gets the document.
AnswerStatus(s) ==
    /\ tick[s] # None /\ tick[s].status = None
    /\ \E now \in tick[s].since..clock : tick' = [tick EXCEPT ![s].status = Health(now)]
    /\ UNCHANGED <<vars, total, newest, page, recent, clicks, fails>>

AnswerFeed(s) ==
    /\ tick[s] # None /\ tick[s].feed = None
    /\ tick' = [tick EXCEPT ![s].feed = Snapshot]
    /\ UNCHANGED <<vars, total, newest, page, recent, clicks, fails>>

\* Mutant: in JavaScript null < 300.
PillUnguarded(age) == IF age = None \/ age < IdleAfter THEN "ACTIVE" ELSE "IDLE"
Pill(age) == IF age # None /\ age < IdleAfter THEN "ACTIVE" ELSE "IDLE"

\* maybeLoadRecent: the throttle is set when the load starts.
MaybeLoadRecent ==
    IF HistoryOn /\ recent.due
    THEN [recent EXCEPT !.due = FALSE, !.loading = TRUE]
    ELSE recent

\* The tick of s is over; those still under way have been overtaken by what it rendered.
TickDone(s) ==
    [x \in Slots |-> IF x = s \/ tick[x] = None THEN None ELSE [tick[x] EXCEPT !.fresh = FALSE]]

\* Both documents are there: the rest of tick().
Render(s) ==
    /\ tick[s] # None /\ tick[s].status # None /\ tick[s].feed # None
    /\ page' = [pill |-> Pill(tick[s].status.age), total |-> tick[s].status.total,
                live |-> tick[s].feed]
    /\ recent' = MaybeLoadRecent
    /\ tick' = TickDone(s)
    /\ UNCHANGED <<vars, total, newest, clicks, fails>>

\* A request gets no document: Promise.all rejects and the tick is over.  What was
\* rendered stays, and the other answer is ignored.
TickFails(s) ==
    /\ fails > 0 /\ tick[s] # None /\ (tick[s].status = None \/ tick[s].feed = None)
    /\ fails' = fails - 1
    /\ page' = [page EXCEPT !.pill = "OFFLINE"]
    /\ tick' = [tick EXCEPT ![s] = None]
    /\ UNCHANGED <<vars, total, newest, recent, clicks>>

\* /history/recent.json arrives with the drones the log knows, or it fails.
LoadRecent ==
    /\ recent.loading
    /\ \/ /\ \E logged \in SUBSET UasIds :
               recent' = [recent EXCEPT !.loading = FALSE, !.badges = logged \cap page.live]
          /\ UNCHANGED fails
       \/ /\ fails > 0 /\ fails' = fails - 1
          /\ recent' = [recent EXCEPT !.loading = FALSE]
    /\ UNCHANGED <<vars, total, newest, tick, page, clicks>>

\* RECENT_INTERVAL_MS has passed, and the last load has come back by then.
ThrottleOver ==
    /\ ~recent.due /\ ~recent.loading
    /\ recent' = [recent EXCEPT !.due = TRUE]
    /\ UNCHANGED <<vars, total, newest, tick, page, clicks, fails>>

DashNext ==
    \/ CacheTick \/ CacheEvict
    \/ \E u \in UasIds : DashHear(u) \/ CacheNotify(u)
    \/ \E s \in Slots :
          TickBegin(s) \/ AnswerStatus(s) \/ AnswerFeed(s) \/ Render(s) \/ TickFails(s)
    \/ LoadRecent \/ ThrottleOver

DashSpec == DashInit /\ [][DashNext]_dashVars

\* Time passes and the sweeper sweeps, the server answers, the page's timers go off.
\* Nobody has to press a button and no transmitter has to send.
DashFairness ==
    /\ WF_dashVars(CacheTick) /\ WF_dashVars(CacheEvict)
    /\ \A u \in UasIds : WF_dashVars(CacheNotify(u))
    /\ WF_dashVars(TickBegin("poll"))
    /\ \A s \in Slots :
          WF_dashVars(AnswerStatus(s)) /\ WF_dashVars(AnswerFeed(s)) /\ WF_dashVars(Render(s))
    /\ WF_dashVars(LoadRecent) /\ WF_dashVars(ThrottleOver)

FairDashSpec == DashSpec /\ DashFairness

-----------------------------------------------------------------------------
(* Properties.                                                              *)

\* The screen only goes back when an overtaken tick is rendered: a tick that began
\* after the last render never shows a smaller total, whatever the other tick, the
\* handlers and the sweeper did in between, and whoever was evicted.
PageMovesForward ==
    [][\A s \in Slots : tick[s] # None /\ tick[s].fresh /\ Render(s) => page'.total >= page.total]_dashVars

\* Once the air is silent the page says so for good: no drone, no live badge in the
\* table of recent detections, and the pill back from ACTIVE or OFFLINE to IDLE,
\* however many requests were lost on the way.
PageConverges == <>[](page.live = {} /\ page.pill = "IDLE" /\ recent.badges = {})

=============================================================================
