----------------------------- MODULE ChannelState -----------------------------
(***************************************************************************)
(* novariusirc/irc/state.py and the lines of core/client.py that feed it:  *)
(* who the bot believes to be in which channel, and with which membership  *)
(* modes, against who is.                                                  *)
(*                                                                         *)
(* The server (external) sends its events in one stream, so an event and   *)
(* its handling are one step.  A NAMES or WHO answer is a snapshot that is *)
(* sent in several lines, between which other events of the stream come.   *)
(* Nicks are case-folded identifiers; the channels' own modes, topics and  *)
(* hosts are left out.                                                     *)
(***************************************************************************)
EXTENDS Integers, FiniteSets

CONSTANTS
  Nicks,
  Channels,
  Modes,       \* PREFIX modes: operator, voice
  MultiPrefix, \* multi-prefix is active: an entry shows all modes, not one
  Presence,    \* account-notify or away-notify is active: the bot sends WHO
  MaxSnapshots \* bound: NAMES and WHO answers

ASSUME StateAssumption == Presence \in BOOLEAN /\ MultiPrefix \in BOOLEAN /\ MaxSnapshots \in Nat

VARIABLES
  there,       \* the truth: who is in each channel that the bot is in
  has,         \* the truth: the modes of each of them
  me,          \* the bot's nick, _current_nick: 001 tells it the first
  users,       \* keys of IRCState.users
  channels,    \* keys of IRCState.channels
  members, names_in_progress, names_seen, names_removed,  \* IRCChannel
  modes,       \* IRCMembership.modes
  listing,     \* channels for which the server has a NAMES answer to send
  left,        \* the entries of it that are still to come
  who,         \* the entries of a WHO answer that are still to come
  snapshots,   \* answers so far
  raced,       \* history: channels where a snapshot met an event that no
               \* tombstone in names_removed covers
  outdated     \* history: channels where an entry showed modes of before, or the
               \* one with the modes of a member was passed over,
               \* or a ghost of an earlier race has come back in person

world == <<there, has, me>>
Kept == <<members, names_in_progress, names_seen, names_removed, modes>>
books == <<users, channels, Kept>>
answers == <<listing, left, who, snapshots>>
vars == <<world, books, answers, raced, outdated>>

Absent == [c \in Channels |-> {}]

NoModes == [n \in Nicks |-> {}]
Entries == [nick : Nicks, modes : SUBSET Modes]
Named(entries) == {e.nick : e \in entries}

TypeOK ==
  /\ there \in [Channels -> SUBSET Nicks]
  /\ has \in [Channels -> [Nicks -> SUBSET Modes]]
  /\ me \in Nicks
  /\ users \subseteq Nicks /\ channels \subseteq Channels
  /\ members \in [Channels -> SUBSET Nicks]
  /\ names_in_progress \in [Channels -> BOOLEAN]
  /\ names_seen \in [Channels -> SUBSET Nicks]
  /\ names_removed \in [Channels -> SUBSET Nicks]
  /\ modes \in [Channels -> [Nicks -> SUBSET Modes]]
  /\ \A c \in Channels \ channels :
       members[c] = {} /\ ~names_in_progress[c]
  /\ \A c \in Channels :
       ~names_in_progress[c] => names_seen[c] = {} /\ names_removed[c] = {}
  /\ listing \subseteq Channels /\ raced \subseteq Channels /\ outdated \subseteq Channels
  /\ left \in [Channels -> SUBSET Entries] /\ who \in [Channels -> SUBSET Entries]
  /\ snapshots \in 0 .. MaxSnapshots

Init ==
  /\ there = Absent /\ has = [c \in Channels |-> NoModes]
  /\ me \in Nicks
  /\ users = {} /\ channels = {}
  /\ members = Absent /\ names_seen = Absent /\ names_removed = Absent
  /\ names_in_progress = [c \in Channels |-> FALSE] /\ modes = has
  /\ listing = {} /\ left = Absent /\ who = Absent /\ snapshots = 0
  /\ raced = {} /\ outdated = {}

Joined == {c \in Channels : me \in there[c]}

-----------------------------------------------------------------------------
(* IRCState.                                                               *)

\* IRCChannel, as a value: what the operations below do to one channel.
Book(c) == [members |-> members[c], busy |-> names_in_progress[c],
            seen |-> names_seen[c], removed |-> names_removed[c], modes |-> modes[c]]

Forgotten == [members |-> {}, busy |-> FALSE, seen |-> {}, removed |-> {}, modes |-> NoModes]

Write(book) ==
  /\ members' = [c \in Channels |-> book[c].members]
  /\ names_in_progress' = [c \in Channels |-> book[c].busy]
  /\ names_seen' = [c \in Channels |-> book[c].seen]
  /\ names_removed' = [c \in Channels |-> book[c].removed]
  /\ modes' = [c \in Channels |-> book[c].modes]

Change(c, b) == Write([d \in Channels |-> IF d = c THEN b ELSE Book(d)])

\* Mutant of Drop: whoever leaves a channel is forgotten.
Drop_always(nicks, source) == users' = (users \cup {source}) \ nicks

\* Mutant of Drop: nobody is forgotten.
Drop_never(nicks, source) == users' = users \cup {source}

\* _drop_orphan_user() for each of `nicks', and ensure_user() for `source'.
Drop(nicks, source) ==
  users' = {n \in users \cup {source} : n \notin nicks \/ \E c \in Channels : n \in members'[c]}

join(b, n) ==
  [b EXCEPT !.members = @ \cup {n},
            !.seen = IF b.busy THEN @ \cup {n} ELSE @,
            !.removed = IF b.busy THEN @ \ {n} ELSE @]

part(b, n) ==
  [b EXCEPT !.members = @ \ {n},
            !.seen = IF b.busy THEN @ \ {n} ELSE @,
            !.removed = IF b.busy THEN @ \cup {n} ELSE @,
            !.modes[n] = {}]

quit(b, n) == IF n \in b.members THEN part(b, n) ELSE b

Moved(f, old, new) == [[f EXCEPT ![old] = {}] EXCEPT ![new] = f[old]]

\* Mutant of rename: the new nick does not count as seen.
rename_unseen(b, old, new) ==
  IF old \notin b.members THEN b
  ELSE [b EXCEPT !.members = (@ \ {old}) \cup {new},
                 !.seen = IF b.busy THEN @ \ {old} ELSE @,
                 !.removed = IF b.busy THEN @ \cup {old} ELSE @,
                 !.modes = Moved(@, old, new)]

rename(b, old, new) ==
  IF old \notin b.members THEN b
  ELSE [b EXCEPT !.members = (@ \ {old}) \cup {new},
                 !.seen = IF b.busy THEN (@ \ {old}) \cup {new} ELSE @,
                 !.removed = IF b.busy THEN @ \cup {old} ELSE @,
                 !.modes = Moved(@, old, new)]

\* Mutant of add_name: who is a member already keeps the modes known.
add_name_once(b, e) ==
  LET fresh == IF b.busy THEN b ELSE [b EXCEPT !.busy = TRUE, !.seen = {}, !.removed = {}]
  IN IF e.nick \in fresh.removed THEN fresh
     ELSE [fresh EXCEPT !.members = @ \cup {e.nick}, !.seen = @ \cup {e.nick},
                        !.modes[e.nick] = IF e.nick \in b.members THEN @ ELSE e.modes]

\* One entry; the first of an answer begins a new view.
add_name(b, e) ==
  LET fresh == IF b.busy THEN b ELSE [b EXCEPT !.busy = TRUE, !.seen = {}, !.removed = {}]
  IN IF e.nick \in fresh.removed THEN fresh
     ELSE [fresh EXCEPT !.members = @ \cup {e.nick}, !.seen = @ \cup {e.nick},
                        !.modes[e.nick] = e.modes]

\* Who was not seen is no member any more.
finish_names(b) ==
  IF b.busy THEN [Forgotten EXCEPT !.members = b.members \cap b.seen,
                                   !.modes = [n \in Nicks |-> IF n \in b.seen THEN b.modes[n] ELSE {}]]
            ELSE b

set_membership_mode(b, n, m, enabled) ==
  IF n \notin b.members THEN b
  ELSE [b EXCEPT !.modes[n] = IF enabled THEN @ \cup {m} ELSE @ \ {m}]

-----------------------------------------------------------------------------
(* Events and their handlers.                                              *)

\* The snapshots that are being sent meet the event just handled: a listed
\* nick that is gone without a tombstone, or, before the first entry, a nick
\* that is new; or a rename elsewhere takes the ghost of an earlier race for
\* a nick it has seen.
NoteRaces ==
  raced' = raced \cup {c \in listing' :
    \/ \E n \in Named(left'[c]) \ there'[c] :
         ~(names_in_progress'[c] /\ n \in names_removed'[c])
    \/ ~(names_seen'[c] \subseteq there'[c])
    \/ ~names_in_progress'[c] /\ ~(there'[c] \subseteq Named(left'[c]))}

\* The server takes the snapshot: who is in the channel, with all or one of
\* the modes.
Shown(ms) == IF MultiPrefix \/ ms = {} THEN {ms} ELSE {{m} : m \in ms}

Answers(answer, c) ==
  \E show \in [there'[c] -> SUBSET Modes] :
    /\ \A n \in there'[c] : show[n] \in Shown(has'[c][n])
    /\ answer' = [answer EXCEPT ![c] = {[nick |-> n, modes |-> show[n]] : n \in there'[c]}]

\* An entry that shows, as it is read, what is not so any more.
Outdated(e, c) ==
  IF MultiPrefix THEN e.modes # has[c][e.nick] ELSE ~(e.modes \subseteq has[c][e.nick])

\* JOIN.  The bot's own, after the last answer about the channel, is answered
\* with NAMES; anybody may be there already.
Join(n, c) ==
  /\ n \notin there[c]
  /\ \/ /\ c \in Joined
        /\ there' = [there EXCEPT ![c] = @ \cup {n}]
        /\ UNCHANGED has
     \/ /\ n = me /\ c \notin listing /\ who[c] = {}
        /\ \E others \in SUBSET Nicks : there' = [there EXCEPT ![c] = others \cup {n}]
        /\ \E theirs \in [Nicks -> SUBSET Modes] :
             /\ \A o \in Nicks \ there'[c] : theirs[o] = {}
             /\ has' = [has EXCEPT ![c] = theirs]
  /\ channels' = channels \cup {c}
  /\ Change(c, join(Book(c), n))
  /\ Drop({}, n)
  /\ IF n = me
       THEN /\ snapshots < MaxSnapshots
            /\ snapshots' = snapshots + 1
            /\ listing' = listing \cup {c}
            /\ Answers(left, c)
            /\ raced' = raced \ {c} /\ outdated' = outdated \ {c}
       ELSE /\ UNCHANGED <<snapshots, listing, left>>
            /\ NoteRaces
            /\ outdated' = IF modes[c][n] # {} THEN outdated \cup {c} ELSE outdated
  /\ UNCHANGED <<me, who>>

\* n leaves by a line from k.  The bot's own is the end of the channel.
Departs(n, k, c) ==
  /\ c \in Joined /\ n \in there[c] /\ k \in there[c]
  /\ there' = [there EXCEPT ![c] = IF n = me THEN {} ELSE @ \ {n}]
  /\ has' = [has EXCEPT ![c] = IF n = me THEN NoModes ELSE [@ EXCEPT ![n] = {}]]
  /\ IF n = me
       THEN /\ channels' = channels \ {c}
            /\ Change(c, Forgotten)
            /\ Drop(members[c], k)
       ELSE /\ Change(c, part(Book(c), n))
            /\ Drop({n}, k)
            /\ UNCHANGED channels
  /\ UNCHANGED <<me, answers, outdated>>
  /\ NoteRaces

Part(n, c) == Departs(n, n, c)

Kick(k, n, c) == Departs(n, k, c)

\* QUIT of somebody in one of the bot's channels; users.pop() asks nothing.
Quit(n) ==
  /\ n # me /\ \E c \in Joined : n \in there[c]
  /\ there' = [c \in Channels |-> there[c] \ {n}]
  /\ has' = [c \in Channels |-> [has[c] EXCEPT ![n] = {}]]
  /\ Write([c \in Channels |-> quit(Book(c), n)])
  /\ users' = users \ {n}
  /\ UNCHANGED <<me, channels, answers, outdated>>
  /\ NoteRaces

\* NICK, to another spelling or to a nick that nobody has.  ensure_user() for
\* the source comes first, so rename() finds the user under the old key.  The
\* old key is a tombstone, in another spelling too: the modes of an entry that
\* is still to come are not read.
Nick(n, new) ==
  /\ \E c \in Joined : n \in there[c]
  /\ new = n \/ (new # me /\ \A c \in Channels : new \notin there[c])
  /\ there' = [c \in Channels |->
       IF n \in there[c] THEN (there[c] \ {n}) \cup {new} ELSE there[c]]
  /\ has' = [c \in Channels |-> IF n \in there[c] THEN Moved(has[c], n, new) ELSE has[c]]
  /\ me' = IF n = me THEN new ELSE me
  /\ Write([c \in Channels |-> rename(Book(c), n, new)])
  /\ users' = (users \ {n}) \cup {new}
  /\ UNCHANGED <<channels, answers>>
  /\ NoteRaces
  /\ outdated' = outdated \cup {c \in listing : n \in Named(left[c]) /\ modes[c][n] # has[c][n]}

\* One letter of a mode string that is a membership mode; the others are the
\* channel's own.
_apply_channel_modes(c, n, m, adding) == Change(c, set_membership_mode(Book(c), n, m, adding))

\* MODE with a membership mode, by somebody in the channel.
Mode(n, m, c) ==
  /\ c \in Joined /\ n \in there[c]
  /\ has' = [has EXCEPT ![c][n] = IF m \in @ THEN @ \ {m} ELSE @ \cup {m}]
  /\ _apply_channel_modes(c, n, m, m \in has'[c][n])
  /\ \E setter \in there[c] : Drop({}, setter)
  /\ UNCHANGED <<there, me, channels, answers, raced, outdated>>

\* "JOIN 0": the bot has left all channels, and state.clear() forgets all.
LeaveAll ==
  /\ Joined # {}
  /\ there' = Absent /\ has' = [c \in Channels |-> NoModes]
  /\ users' = {} /\ channels' = {}
  /\ Write([c \in Channels |-> Forgotten])
  /\ UNCHANGED <<me, answers, raced, outdated>>

\* A private line, an ACCOUNT or AWAY: ensure_user() for its source.
Hear(n) ==
  /\ Drop({}, n)
  /\ UNCHANGED <<world, channels, Kept, answers, raced, outdated>>

-----------------------------------------------------------------------------
(* Snapshots.                                                              *)

\* A NAMES answer that the bot's own JOIN did not ask for.
BeginNames(c) ==
  /\ c \in Joined \ listing /\ snapshots < MaxSnapshots
  /\ snapshots' = snapshots + 1
  /\ listing' = listing \cup {c}
  /\ UNCHANGED <<world, books, who>>
  /\ Answers(left, c)
  /\ raced' = raced \ {c} /\ outdated' = outdated \ {c}

\* Numeric 353 with one of the entries.
Names(e, c) ==
  /\ c \in listing
  /\ left' = [left EXCEPT ![c] = @ \ {e}]
  /\ IF c \in channels
       THEN Change(c, add_name(Book(c), e)) /\ Drop({}, e.nick)
       ELSE UNCHANGED <<users, Kept>>
  /\ outdated' = IF Outdated(e, c) THEN outdated \cup {c} ELSE outdated
  /\ UNCHANGED <<world, channels, listing, who, snapshots, raced>>

\* Numeric 366.
EndOfNames(c) ==
  /\ c \in listing /\ left[c] = {}
  /\ listing' = listing \ {c}
  /\ IF c \in channels
       THEN /\ Change(c, finish_names(Book(c)))
            /\ users' = {n \in users :
                 n \notin members[c] \ members'[c] \/ \E d \in Channels : n \in members'[d]}
       ELSE UNCHANGED <<users, Kept>>
  /\ UNCHANGED <<world, channels, left, who, snapshots, raced, outdated>>

BeginWho(c) ==
  /\ Presence
  /\ c \in Joined /\ who[c] = {} /\ snapshots < MaxSnapshots
  /\ snapshots' = snapshots + 1
  /\ UNCHANGED <<world, books, listing, left, raced, outdated>>
  /\ Answers(who, c)

\* _update_who_state(): join() without asking names_removed; modes are added.
_update_who_state(b, e) ==
  [join(b, e.nick) EXCEPT !.modes[e.nick] = @ \cup e.modes]

\* Numerics 352 and 354.
WhoReply(e, c) ==
  /\ who' = [who EXCEPT ![c] = @ \ {e}]
  /\ IF c \in channels
       THEN Change(c, _update_who_state(Book(c), e)) /\ Drop({}, e.nick)
       ELSE UNCHANGED <<users, Kept>>
  /\ raced' = IF e.nick \in there[c] THEN raced ELSE raced \cup {c}
  /\ outdated' = IF e.modes \subseteq has[c][e.nick] THEN outdated ELSE outdated \cup {c}
  /\ UNCHANGED <<world, channels, listing, left, snapshots>>

Next ==
  \/ \E c \in Channels :
       \/ \E n \in Nicks : Join(n, c) \/ \E m \in Modes : Mode(n, m, c)
       \/ \E e \in left[c] : Names(e, c)
       \/ \E e \in who[c] : WhoReply(e, c)
       \/ \E n \in Nicks : Part(n, c) \/ \E k \in Nicks : Kick(k, n, c)
       \/ BeginNames(c) \/ EndOfNames(c) \/ BeginWho(c)
  \/ \E n \in Nicks : Quit(n) \/ Hear(n) \/ \E new \in Nicks : Nick(n, new)
  \/ LeaveAll

Spec == Init /\ [][Next]_vars

-----------------------------------------------------------------------------
(* Properties.                                                             *)

(***************************************************************************)
(* The indexes agree: every member is a known user, the nicks seen in a    *)
(* NAMES answer are members, and the bot has a book for exactly the        *)
(* channels it is in, through renames, orphans, resyncs and re-joins.      *)
(***************************************************************************)
IndexesAgree ==
  /\ channels = Joined
  /\ \A c \in Channels :
       /\ members[c] \subseteq users
       /\ names_in_progress[c] => names_seen[c] \subseteq members[c]

(***************************************************************************)
(* Who loses the last channel shared with the bot is forgotten in the same *)
(* step, by PART, KICK, QUIT, a nick change, the end of a NAMES answer or  *)
(* the bot's own departure (_drop_orphan_user): the table of users does    *)
(* not grow with everybody who was ever seen in a channel.                 *)
(***************************************************************************)
OrphansAreDropped ==
  [][\A n \in Nicks :
       (\E c \in Channels : n \in members[c]) /\ (\A c \in Channels : n \notin members'[c])
         => n \notin users']_vars

(***************************************************************************)
(* Outside of a NAMES answer the members are those who are there: a resync *)
(* removes the stale ones and keeps those who joined, left or were renamed *)
(* in between.  The exception are the races that no tombstone covers.      *)
(***************************************************************************)
MembersAreThere ==
  \A c \in Joined \ (listing \cup raced) : members[c] = there[c]

(***************************************************************************)
(* Members have the modes that the books say, through MODE, departures,    *)
(* returns, nick changes and resyncs: nobody keeps the modes of an earlier *)
(* stay or of an earlier holder of the nick.  With multi-prefix no mode is *)
(* missing either.  The exception are entries that are out of date when    *)
(* they are read, and those passed over for a nick that changed.           *)
(***************************************************************************)
ModesAreHeld ==
  \A c \in Joined \ (listing \cup raced \cup outdated) : \A n \in Nicks :
    IF MultiPrefix THEN modes[c][n] = has[c][n] ELSE modes[c][n] \subseteq has[c][n]

(***************************************************************************)
(* "NAMES resynchronization removes stale members while preserving         *)
(* concurrent joins and nick changes" (docs/IRC_PROTOCOL.md).  It does not *)
(* remove all: a nick that leaves before the first entry of the answer, or *)
(* quits or is renamed before it was ever listed, leaves no tombstone, and *)
(* its own entry makes it a member.                                        *)
(***************************************************************************)
NamesLeaveNoGhosts == \A c \in Joined \ listing : members[c] \subseteq there[c]
=============================================================================
