------------------------------ MODULE FeedEngine ------------------------------
(***************************************************************************)
(* core/feeds.py with its one subscriber, modules/rss_announcer.py: one    *)
(* feed of the engine, the periodic task and a manual fetch that poll it,  *)
(* and what is kept of it across restarts.                                 *)
(*                                                                         *)
(* Entries are numbers in the order of their publication; the feed shows   *)
(* the newest Window of them, and the number of the newest is its ETag.    *)
(* Of the other feeds, which a gather() polls together with this one, only *)
(* their failure is here.  A send to IRC succeeds, fails, or never returns *)
(* (RateLimitedSender: a caller that stop() abandons).                     *)
(***************************************************************************)
EXTENDS Integers, FiniteSets, Functions

CONSTANTS
  Window,       \* entries that the feed shows
  MaxSeen,      \* feeds.max_items_per_feed
  PollLimit,    \* max_items_per_poll
  ManualLimit,  \* max_items_per_manual
  MaxEntries,   \* bound: publications
  MaxRestarts   \* bound: ends of the process

ASSUME FeedAssumption ==
  /\ {Window, MaxSeen, PollLimit, ManualLimit} \subseteq Nat \ {0}
  /\ MaxEntries \in Nat /\ MaxRestarts \in Nat

VARIABLES
  published,  \* entries so far
  state,      \* FeedState: etag (0 is None) and seen_ids, [id -> its place]
  stored,     \* the same in the database or in the file
  at,         \* where _run() and poll_now() stand
  lock,       \* who holds _poll_lock, or "free"
  poll,       \* _poll_feed() of each: the tag it asked with, what it got, the
              \* entries it has still to announce
  fate,       \* history: what became of each entry; "passed" is beyond the
              \* limit, cancelled, or failed to send; "early" was saved by one
              \* poll while another had still to announce it
  cut,        \* history: a poll ended between the tag and the entries, or another
              \* saved in between, and the feed has not changed since
  forgotten,  \* history: entries that a restart or MaxSeen made unseen again
  restarts

known == <<state, stored>>
callers == <<at, lock, poll>>
fates == <<fate, cut, forgotten>>
feedVars == <<published, known, callers, fates, restarts>>

Callers == {"run", "manual"}
Limit == [c \in Callers |-> IF c = "run" THEN PollLimit ELSE ManualLimit]
Entries == 1 .. MaxEntries
Nothing == [etag |-> 0, seen |-> <<>>]
NoPoll == [step |-> "none", asked |-> 0, got |-> 0, rest |-> {}]

\* notify() one by one, then _save_state()
Announcing(S) ==
  [step |-> IF S = {} THEN "save" ELSE "notify", asked |-> 0, got |-> 0, rest |-> S]

\* The ids of the feed when n entries are out
Shown(n) == {e \in Entries : e <= n /\ e > n - Window}

\* What one of these has before it, itself included, when the newest come first
Place(e, S) == Cardinality({f \in S : f >= e})
Newest(e, S) == e \in S /\ \A f \in S : f <= e

FeedTypeOK ==
  /\ published \in 0 .. MaxEntries
  /\ \A s \in {state, stored} :
       /\ s.etag \in 0 .. MaxEntries
       /\ DOMAIN s.seen \subseteq Entries /\ IsInjective(s.seen)
       /\ Range(s.seen) = 1 .. Cardinality(DOMAIN s.seen)
       /\ Cardinality(DOMAIN s.seen) <= MaxSeen
  /\ at \in [Callers -> {"off", "lock", "polling", "resting", "dead"}]
  /\ \A c \in Callers : at[c] = "polling" <=> lock = c
  /\ lock \in Callers \cup {"free"}
  /\ \A c \in Callers :
       /\ poll[c].step \in {"none", "fetch", "parse", "notify", "hung", "save"}
       /\ lock = c => poll[c].step # "none"
       /\ poll[c].asked \in 0 .. MaxEntries /\ poll[c].got \in 0 .. MaxEntries
       /\ poll[c].rest \subseteq Entries
       /\ poll[c].step \in {"notify", "hung"} <=> poll[c].rest # {}
       /\ Cardinality(poll[c].rest) <= Limit[c]
  /\ fate \in [Entries -> {"new", "early", "passed", "announced", "repeated"}]
  /\ cut \in BOOLEAN
  /\ forgotten \subseteq Entries
  /\ restarts \in 0 .. MaxRestarts

\* start() has restored nothing.
FeedInit ==
  /\ published \in 0 .. MaxEntries
  /\ state = Nothing /\ stored = Nothing
  /\ at = [c \in Callers |-> IF c = "run" THEN "lock" ELSE "off"]
  /\ lock = "free" /\ poll = [c \in Callers |-> NoPoll]
  /\ fate = [e \in Entries |-> "new"]
  /\ cut = FALSE /\ forgotten = {} /\ restarts = 0

\* The feed's author (external).
Publish ==
  /\ published < MaxEntries
  /\ published' = published + 1
  /\ cut' = FALSE
  /\ UNCHANGED <<known, callers, fate, forgotten, restarts>>

-----------------------------------------------------------------------------
(* _run() and poll_now().                                                  *)

\* Where gather() leaves its caller when it returns or raises.
After(c, raised) == IF c = "manual" THEN "off" ELSE IF raised THEN "dead" ELSE "resting"

\* refresh_interval
Rest ==
  /\ at["run"] = "resting"
  /\ at' = [at EXCEPT !["run"] = "lock"]
  /\ UNCHANGED <<published, known, lock, poll, fates, restarts>>

\* !rssfetch, from IRC or from the control socket.  Bound: not while an orphan
\* of the last one is left.
Request ==
  /\ at["manual"] = "off" /\ poll["manual"].step = "none"
  /\ at' = [at EXCEPT !["manual"] = "lock"]
  /\ UNCHANGED <<published, known, lock, poll, fates, restarts>>

\* The lock, and the poll of this feed up to its fetch().
Acquire(c) ==
  /\ at[c] = "lock" /\ lock = "free"
  /\ lock' = c
  /\ at' = [at EXCEPT ![c] = "polling"]
  /\ poll' = [poll EXCEPT ![c] = [NoPoll EXCEPT !.step = "fetch", !.asked = state.etag]]
  /\ UNCHANGED <<published, known, fates, restarts>>

\* _poll_feed() returns or raises; if it is no orphan, gather() goes with it.
Over(c, raised) ==
  /\ poll' = [poll EXCEPT ![c] = NoPoll]
  /\ IF lock = c
       THEN lock' = "free" /\ at' = [at EXCEPT ![c] = After(c, raised)]
       ELSE UNCHANGED <<lock, at>>

\* The state of another feed cannot be saved: gather() raises and this poll
\* goes on alone, an orphan without the lock.
OthersFail(c) ==
  /\ lock = c
  /\ lock' = "free" /\ at' = [at EXCEPT ![c] = After(c, TRUE)]
  /\ UNCHANGED <<poll, published, known, fates, restarts>>

-----------------------------------------------------------------------------
(* _poll_feed().                                                           *)

\* Mutant of FetchFails: the tag is taken over before the status is looked at.
FetchFails_keepTag(c) ==
  /\ poll[c].step = "fetch"
  /\ state' = [state EXCEPT !.etag = published]
  /\ Over(c, FALSE)
  /\ UNCHANGED <<published, stored, fates, restarts>>

\* A timeout, an error status, a body that is too long
FetchFails(c) ==
  /\ poll[c].step = "fetch"
  /\ Over(c, FALSE)
  /\ UNCHANGED <<published, known, fates, restarts>>

\* 304
NotModified(c) ==
  /\ poll[c].step = "fetch" /\ poll[c].asked = published
  /\ Over(c, FALSE)
  /\ UNCHANGED <<published, known, fates, restarts>>

\* The tag is taken over before the body is parsed.
Fetched(c) ==
  /\ poll[c].step = "fetch" /\ (poll[c].asked # published \/ published = 0)
  /\ state' = [state EXCEPT !.etag = published]
  /\ poll' = [poll EXCEPT ![c] = [NoPoll EXCEPT !.step = "parse", !.got = published]]
  /\ UNCHANGED <<published, stored, at, lock, fates, restarts>>

\* What becomes of the entries of S that have no other fate yet
Fate(S, f) ==
  [e \in Entries |-> IF e \in S /\ fate[e] \in {"new", "early"} THEN f ELSE fate[e]]

\* The ids that _select_unseen() keeps: those of the feed come first.
Merged(ids) ==
  LET old == DOMAIN state.seen \ ids
      place == [e \in ids \cup old |->
        IF e \in ids THEN Place(e, ids)
        ELSE Cardinality(ids)
               + Cardinality({f \in old : state.seen[f] <= state.seen[e]})]
  IN Restrict(place, {e \in DOMAIN place : place[e] <= MaxSeen})

Begin(c, unseen) ==
  LET now == {e \in unseen : Place(e, unseen) <= Limit[c]}
  IN /\ poll' = [poll EXCEPT ![c] = Announcing(now)]
     /\ fate' = Fate(unseen \ now, "passed")

\* Mutant of Select: what was seen is saved before it is announced.
Select_saveFirst(c) ==
  /\ poll[c].step = "parse"
  /\ state' = [state EXCEPT !.seen = Merged(Shown(poll[c].got))]
  /\ stored' = state'
  /\ Begin(c, Shown(poll[c].got) \ DOMAIN state.seen)
  /\ UNCHANGED <<published, at, lock, cut, forgotten, restarts>>

\* What is new counts as seen from now on, announced or not; the newest come
\* first, and those beyond the limit are passed over for good.  A body names no
\* id twice here: of one that does, _select_unseen() announces both entries.
Select(c) ==
  /\ poll[c].step = "parse"
  /\ state' = [state EXCEPT !.seen = Merged(Shown(poll[c].got))]
  /\ Begin(c, Shown(poll[c].got) \ DOMAIN state.seen)
  /\ forgotten' = forgotten \cup
       ((DOMAIN state.seen \cup Shown(poll[c].got)) \ DOMAIN state'.seen)
  /\ UNCHANGED <<published, stored, at, lock, cut, restarts>>

Next1(c, e) ==
  /\ Newest(e, poll[c].rest)
  /\ poll' = [poll EXCEPT ![c] = Announcing(poll[c].rest \ {e})]

\* Entries that the other poll has still to announce
Pending(c) == UNION {poll[d].rest : d \in Callers \ {c}}

\* Once more is right when it was forgotten in between, and only then.  It is
\* forgotten no more when it is in seen_ids, and no other poll has it too.
Announce(c) ==
  /\ poll[c].step = "notify"
  /\ \E e \in poll[c].rest :
       LET again == fate[e] \in {"announced", "repeated"}
           settled == e \in DOMAIN state.seen \ Pending(c)
       IN /\ Next1(c, e)
          /\ fate' = [fate EXCEPT ![e] = IF again /\ e \notin forgotten THEN "repeated"
                                                                        ELSE "announced"]
          /\ forgotten' = IF again /\ settled THEN forgotten \ {e} ELSE forgotten
  /\ UNCHANGED <<published, known, at, lock, cut, restarts>>

\* No connection, a full queue, or the channel's minimum interval: logged.
NotAnnounced(c) ==
  /\ poll[c].step = "notify"
  /\ \E e \in poll[c].rest : Next1(c, e) /\ fate' = Fate({e}, "passed")
  /\ UNCHANGED <<published, known, at, lock, cut, forgotten, restarts>>

\* _save_state(): the state, which may be ahead of the other poll
StoreState(c) == stored' = state /\ fate' = Fate(Pending(c), "early")

Parsing == \E c \in Callers : poll[c].step = "parse"

Save(c) ==
  /\ poll[c].step = "save"
  /\ StoreState(c)
  /\ cut' = (cut \/ Parsing)
  /\ Over(c, FALSE)
  /\ UNCHANGED <<published, state, forgotten, restarts>>

\* An OSError of the file is logged, an error of the database is raised.
SaveFails(c) ==
  /\ poll[c].step = "save"
  /\ \E raised \in BOOLEAN : Over(c, raised)
  /\ UNCHANGED <<published, known, fates, restarts>>

-----------------------------------------------------------------------------
(* Connections and restarts.                                               *)

\* A connection ends while the poll awaits a send(), which is never answered.
Hang(c) ==
  /\ poll[c].step = "notify"
  /\ poll' = [poll EXCEPT ![c].step = "hung"]
  /\ UNCHANGED <<published, known, at, lock, fates, restarts>>

\* Mutant of Cancel: the lock is not released.
Cancel_keepLock ==
  /\ at["manual"] = "polling"
  /\ at' = [at EXCEPT !["manual"] = "off"]
  /\ poll' = [poll EXCEPT !["manual"] = NoPoll]
  /\ fate' = Fate(poll["manual"].rest, "passed")
  /\ UNCHANGED <<published, known, lock, cut, forgotten, restarts>>

\* Mutant of Cancel: the entries count as seen only if they were saved.
Cancel_rollBack ==
  /\ at["manual"] = "polling"
  /\ at' = [at EXCEPT !["manual"] = "off"]
  /\ lock' = "free" /\ poll' = [poll EXCEPT !["manual"] = NoPoll]
  /\ state' = stored
  /\ UNCHANGED <<published, stored, fates, restarts>>

\* The end of a connection cancels the command that awaits poll_now(); a save
\* that has begun goes on in its thread.
Cancel ==
  /\ at["manual"] \in {"lock", "polling"}
  /\ at' = [at EXCEPT !["manual"] = "off"]
  /\ IF lock = "manual"
       THEN /\ lock' = "free"
            /\ poll' = [poll EXCEPT !["manual"] = NoPoll]
            /\ cut' = (cut \/ Parsing)
            /\ \/ poll["manual"].step = "save" /\ StoreState("manual")
               \/ stored' = stored /\ fate' = Fate(poll["manual"].rest, "passed")
       ELSE UNCHANGED <<lock, poll, fate, cut, stored>>
  /\ UNCHANGED <<published, state, forgotten, restarts>>

\* The process ends, at any moment, and start() restores what is stored.  The
\* file that was being written may be empty.
FeedRestart ==
  /\ restarts < MaxRestarts
  /\ restarts' = restarts + 1
  /\ \/ UNCHANGED <<stored, fate>>
     \/ \E c \in Callers :
          /\ poll[c].step = "save"
          /\ StoreState(c) \/ (stored' = Nothing /\ UNCHANGED fate)
  /\ state' = stored'
  /\ forgotten' = forgotten \cup {e \in Entries \ DOMAIN stored'.seen : fate[e] = "announced"}
  /\ at' = [c \in Callers |-> IF c = "run" THEN "lock" ELSE "off"]
  /\ lock' = "free" /\ poll' = [c \in Callers |-> NoPoll]
  /\ cut' = (cut \/ Parsing)
  /\ UNCHANGED published

Poll(c) ==
  \/ FetchFails(c) \/ NotModified(c) \/ Fetched(c) \/ Select(c)
  \/ Announce(c) \/ NotAnnounced(c) \/ Save(c) \/ SaveFails(c)

FeedNext ==
  \/ Publish \/ Rest \/ Request \/ Cancel \/ FeedRestart
  \/ \E c \in Callers : Acquire(c) \/ OthersFail(c) \/ Poll(c) \/ Hang(c)

\* Every task that can run does, every fetch and save ends, the lock is handed
\* on in turn, and the feed's server does not fail for ever.
Fairness ==
  /\ WF_feedVars(Rest) /\ SF_feedVars(Acquire("run")) /\ WF_feedVars(Acquire("manual"))
  /\ \A c \in Callers : WF_feedVars(Poll(c))
  /\ SF_feedVars(Fetched("run"))

FeedSpec == FeedInit /\ [][FeedNext]_feedVars /\ Fairness

-----------------------------------------------------------------------------
(* Properties.                                                             *)

(***************************************************************************)
(* Nothing is announced twice, whichever polls overlap, fail or are        *)
(* cancelled, but for what a restart found unsaved or what MaxSeen pushed  *)
(* out of seen_ids.                                                        *)
(***************************************************************************)
AnnouncedOnce == \A e \in Entries : fate[e] # "repeated"

(***************************************************************************)
(* What is saved as seen, and so stays silent after a restart, was either  *)
(* announced or passed over knowingly: a crash loses no entry.  The        *)
(* exception is a save while another poll was still announcing.            *)
(***************************************************************************)
SavedWasHandled ==
  \A e \in DOMAIN stored.seen : fate[e] # "new"

Hung == \E c \in Callers : poll[c].step = "hung"

(***************************************************************************)
(* The feeds are polled again and again, whatever manual fetches do and    *)
(* however they end, unless saving raised or a send() never returned.      *)
(***************************************************************************)
PollingGoesOn == []<>(at["run"] \in {"resting", "dead"} \/ Hung)

(***************************************************************************)
(* Nothing that the feed shows is missed: again and again, all of it has   *)
(* been announced or passed over; or polling has ended, or a poll that was *)
(* cut short has left its tag, under which nobody asks for the entries     *)
(* until the feed changes again.                                           *)
(***************************************************************************)
EntriesArrive == []<>
  \/ \A e \in Shown(published) : fate[e] # "new"
  \/ at["run"] = "dead" \/ Hung \/ cut
=============================================================================
