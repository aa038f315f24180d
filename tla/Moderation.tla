------------------------------- MODULE Moderation -------------------------------
(***************************************************************************)
(* core/moderation.py over core/moderation_store.py: what is remembered    *)
(* about the writers of a channel, how a line is judged, and how warnings, *)
(* mutes, kicks and bans are recorded, moved on a nick change, dropped and *)
(* restored.                                                               *)
(*                                                                         *)
(* The reader queues lines and renames at once; the event loop judges the  *)
(* lines later.  check_message() and apply_action() await nothing, so one  *)
(* line is judged in one step.  A text is good or bad: the word, URL and   *)
(* caps checks differ only in the pattern.                                 *)
(***************************************************************************)
EXTENDS Integers, Sequences, FiniteSets

CONSTANTS
  Persons, Nicks, Keys, Channels,
  Fold,           \* [casemapping -> [Nicks -> Keys]]: irc_casefold()
  Files,          \* [moderation] tables of the configuration file
  Minute,         \* the rate limit's window, in ticks
  MaxRate,        \* rate_limit.messages_per_minute
  Threshold,      \* spam.threshold
  Duration,       \* spam.duration_seconds, in ticks
  ToKick, ToBan,  \* warnings.to_kick, warnings.to_ban
  RuleKinds,      \* <<disposition, scope, id>>, of one pattern
  QueueSize,      \* network.event_queue_size
  MaxTime, MaxLines, MaxRenames, MaxLoads, MaxEdits   \* bounds

Actions == {"warn", "mute", "kick", "ban"}

ASSUME ModerationAssumption ==
  /\ "rfc1459" \in DOMAIN Fold /\ \A f \in DOMAIN Fold : Fold[f] \in [Nicks -> Keys]
  /\ \A f \in Files : {f.rate, f.spam, f.words} \subseteq Actions \cup {"off"}
  /\ ToKick \in Nat \ {0} /\ ToBan \in Nat /\ ToKick <= ToBan
  /\ Duration \in Nat \ {0} /\ Minute \in Nat \ {0}
  /\ MaxRate \in Nat \ {0} /\ Threshold \in Nat \ {0, 1}

VARIABLES
  file,       \* the table in use
  store,      \* is there a ModerationStore?
  network,    \* the CASEMAPPING of the network
  clock,
  nick,       \* who is called what
  queue,      \* lines that the event loop has not handled
  status,     \* user_status[channel][key]
  tables,     \* the channels that user_status has an entry for
  muted,      \* muted_users: the end of the mute, or 0
  banned,     \* banned_users
  rules,      \* _stored_rules
  enabled,    \* _stored_settings of the key "enabled"
  overdue,    \* history: which of the two were not read since they were changed
  rows,       \* table moderation_actions
  ruleRows, settingRows,   \* tables moderation_rules and moderation_settings
  counts,     \* lines, renames, loads and edits so far
  moved,      \* history: a punishment left its nick since the memory was loaded
  caught,     \* history: who was banned, under whatever nick, since then
  offences    \* history: how often somebody was to be warned since then

configuration == <<file, store, network>>
memory == <<status, tables, muted, banned>>
settings == <<rules, enabled, overdue>>
database == <<rows, ruleRows, settingRows>>
history == <<moved, caught, offences>>
vars == <<configuration, clock, nick, queue, memory, settings, database, counts, history>>

Texts == {"good", "bad"}
Absent == [warnings |-> -1, times |-> <<>>, recent |-> <<>>]
NewStatus == [warnings |-> 0, times |-> <<>>, recent |-> <<>>]
Scopes == Channels \cup {"global"}

TypeOK ==
  /\ file \in Files /\ store \in BOOLEAN /\ network \in DOMAIN Fold
  /\ clock \in 0 .. MaxTime
  /\ nick \in [Persons -> Nicks]
  /\ \A i \in DOMAIN queue :
       queue[i].nick \in Nicks /\ queue[i].text \in Texts /\ queue[i].channel \in Channels
  /\ Len(queue) <= QueueSize
  /\ \A c \in Channels, k \in Keys :
       LET s == status[c][k] IN
       /\ s # Absent => c \in tables /\ s.warnings \in Nat
       /\ Len(s.times) <= MaxLines /\ Len(s.recent) <= Threshold
       /\ muted[c][k] \in 0 .. MaxTime + Duration
  /\ banned \subseteq Channels \X Keys /\ tables \subseteq Channels
  /\ rules \in [RuleKinds -> {"absent", "on", "off"}] /\ ruleRows \in [RuleKinds -> {"absent", "on", "off"}]
  /\ enabled \in [Scopes -> {"unset", "on", "off"}] /\ settingRows \in [Scopes -> {"unset", "on", "off"}]
  /\ overdue \subseteq {"rules", "settings"}
  /\ \A i \in DOMAIN rows : rows[i].action \in Actions /\ rows[i].nick \in Nicks
  /\ caught \subseteq Channels \X Persons

Key(n) == Fold[network][n]

Init ==
  /\ file \in Files /\ store \in BOOLEAN /\ network \in DOMAIN Fold
  /\ clock = 0 /\ queue = <<>>
  /\ nick \in [Persons -> Nicks]
  /\ \A p, q \in Persons : p # q => Key(nick[p]) # Key(nick[q])
  /\ status = [c \in Channels |-> [k \in Keys |-> Absent]] /\ tables = {}
  /\ muted = [c \in Channels |-> [k \in Keys |-> 0]] /\ banned = {}
  /\ rules = [r \in RuleKinds |-> "absent"] /\ ruleRows = rules
  /\ enabled = [s \in Scopes |-> "unset"] /\ settingRows = enabled
  /\ rows = <<>> /\ overdue = {}
  /\ counts = [lines |-> 0, renames |-> 0, loads |-> 0, edits |-> 0]
  /\ moved = FALSE /\ caught = {} /\ offences = [c \in Channels |-> [p \in Persons |-> 0]]

Count(what) == counts' = [counts EXCEPT ![what] = @ + 1]

-----------------------------------------------------------------------------
(* Judging a line.                                                         *)

\* Files, then database settings: global first, then the channel's.
_channel_config(c) ==
  CASE enabled[c] # "unset"        -> enabled[c] = "on"
    [] enabled["global"] # "unset" -> enabled["global"] = "on"
    [] OTHER                       -> TRUE

\* One pattern of the file blocks a bad text too, if the file has one.
_rules(c, disposition) ==
  \/ (disposition = "block" /\ file.inline)
  \/ \E r \in RuleKinds : r[1] = disposition /\ r[2] \in {c, "global"} /\ rules[r] = "on"

_status(c, k) == IF status[c][k] = Absent THEN NewStatus ELSE status[c][k]

\* The status after the rate and the spam check, which stop at the first
\* violation, and the verdict.
Examined(c, k, text) ==
  LET s == _status(c, k)
      times == IF file.rate = "off" THEN s.times
               ELSE Append(SelectSeq(s.times, LAMBDA t : t > clock - Minute), clock)
      fast == file.rate # "off" /\ Len(times) > MaxRate
      all == Append(s.recent, text)
      recent == IF file.spam = "off" \/ fast THEN s.recent
                ELSE SubSeq(all, IF Len(all) > Threshold THEN 2 ELSE 1, Len(all))
      spam == file.spam # "off" /\ Len(recent) = Threshold
                /\ \A i \in DOMAIN recent : recent[i] = text
      bad == file.words # "off" /\ text = "bad" /\ _rules(c, "block") /\ ~_rules(c, "allow")
  IN [status |-> [warnings |-> s.warnings, times |-> times, recent |-> recent],
      verdict |-> CASE fast  -> file.rate
                    [] ~fast /\ spam -> file.spam
                    [] ~fast /\ ~spam /\ bad -> file.words
                    [] OTHER -> "none"]

\* The warnings that count: with a store, the recorded ones of this spelling.
Warnings(c, n, s) ==
  IF store
  THEN Len(SelectSeq(rows, LAMBDA r : r.action = "warn" /\ r.nick = n /\ r.channel = c))
  ELSE s.warnings

\* Mutant of Escalated: the lower threshold is asked first.
Escalated_kick_first(action, warnings) ==
  IF action = "warn" /\ warnings >= ToKick THEN "kick" ELSE action

Escalated(action, warnings) ==
  CASE action = "warn" /\ warnings >= ToBan -> "ban"
    [] action = "warn" /\ warnings >= ToKick /\ warnings < ToBan -> "kick"
    [] OTHER -> action

Holders(n) == {p \in Persons : Key(nick[p]) = Key(n)}

\* A muted or banned writer is punished again; an ended mute is forgotten.
check_message(c, k, text) ==
  LET judged == _channel_config(c)
      mute == judged /\ muted[c][k] > clock
      ban == judged /\ ~mute /\ <<c, k>> \in banned
      examined == judged /\ ~mute /\ ~ban
  IN [verdict  |-> CASE mute -> "mute" [] ban -> "ban"
                     [] examined -> Examined(c, k, text).verdict
                     [] OTHER -> "none",
      status   |-> IF examined THEN Examined(c, k, text).status ELSE status[c][k],
      until    |-> IF judged /\ ~mute THEN 0 ELSE muted[c][k],
      examined |-> examined]

Record(action, n, c) ==
  rows' = IF store
          THEN Append(rows, [action |-> action, nick |-> n, channel |-> c,
                             until |-> IF action = "mute" THEN clock + Duration ELSE 0])
          ELSE rows

apply_action(c, n, checked) ==
  LET s == IF checked.status = Absent THEN NewStatus ELSE checked.status
      warnings == Warnings(c, n, s) + 1
      action == Escalated(checked.verdict, warnings)
  IN /\ status' = [status EXCEPT ![c][Key(n)] =
                     IF checked.verdict = "warn" THEN [s EXCEPT !.warnings = warnings] ELSE s]
     /\ tables' = tables \cup {c}
     /\ muted' = [muted EXCEPT ![c][Key(n)] =
                    IF action = "mute" THEN clock + Duration ELSE checked.until]
     /\ banned' = IF action = "ban" THEN banned \cup {<<c, Key(n)>>} ELSE banned
     /\ Record(action, n, c)
     /\ caught' = IF action = "ban" THEN caught \cup {<<c, p>> : p \in Holders(n)} ELSE caught
     /\ offences' = [offences EXCEPT ![c] = [p \in Persons |->
                       @[p] + (IF checked.verdict = "warn" /\ p \in Holders(n) THEN 1 ELSE 0)]]
     /\ UNCHANGED moved

\* The event loop: _handle_privmsg() and _handle_action().
_moderate_message ==
  /\ queue # <<>>
  /\ LET line == Head(queue)
         c == line.channel
         checked == check_message(c, Key(line.nick), line.text)
     IN \/ /\ checked.verdict # "none"
           /\ apply_action(c, line.nick, checked)
        \/ /\ checked.verdict = "none"
           /\ status' = [status EXCEPT ![c][Key(line.nick)] = checked.status]
           /\ tables' = IF checked.examined THEN tables \cup {c} ELSE tables
           /\ muted' = [muted EXCEPT ![c][Key(line.nick)] = checked.until]
           /\ UNCHANGED <<banned, rows, history>>
  /\ queue' = Tail(queue)
  /\ UNCHANGED <<configuration, clock, nick, settings, ruleRows, settingRows, counts>>

-----------------------------------------------------------------------------
(* The reader.                                                             *)

Say(p, c, text) ==
  /\ counts.lines < MaxLines /\ Len(queue) < QueueSize
  /\ queue' = Append(queue, [nick |-> nick[p], channel |-> c, text |-> text])
  /\ Count("lines")
  /\ UNCHANGED <<configuration, clock, nick, memory, settings, database, history>>

\* Mutant of rename_user: the ban stays with the old nick.
rename_user_without_ban(old, new) ==
  /\ status' = [c \in Channels |->
       IF c \in tables /\ status[c][old] # Absent
       THEN [status[c] EXCEPT ![old] = Absent, ![new] = status[c][old]] ELSE status[c]]
  /\ muted' = [c \in Channels |->
       IF c \in tables /\ muted[c][old] # 0
       THEN [muted[c] EXCEPT ![old] = 0, ![new] = muted[c][old]] ELSE muted[c]]
  /\ banned' = banned
  /\ UNCHANGED tables

\* Only in the channels that somebody has a status in.
rename_user(old, new) ==
  /\ status' = [c \in Channels |->
       IF c \in tables /\ status[c][old] # Absent
       THEN [status[c] EXCEPT ![old] = Absent, ![new] = status[c][old]] ELSE status[c]]
  /\ muted' = [c \in Channels |->
       IF c \in tables /\ muted[c][old] # 0
       THEN [muted[c] EXCEPT ![old] = 0, ![new] = muted[c][old]] ELSE muted[c]]
  /\ banned' = LET following == {b \in banned : b[1] \in tables /\ b[2] = old} IN
               (banned \ following) \cup {<<b[1], new>> : b \in following}
  /\ UNCHANGED tables

Rename(p, n) ==
  /\ counts.renames < MaxRenames
  /\ n # nick[p] /\ \A q \in Persons \ {p} : Key(nick[q]) # Key(n)
  /\ nick' = [nick EXCEPT ![p] = n]
  /\ rename_user(Key(nick[p]), Key(n))
  /\ moved' = (moved \/ (<<muted, banned>>)' # <<muted, banned>>)
  /\ Count("renames")
  /\ UNCHANGED <<configuration, clock, queue, settings, database, caught, offences>>

-----------------------------------------------------------------------------
(* The database commands, the store, and what is loaded from it.           *)

\* Mutant of Restored: a mute begins anew.
Restored_anew(f) ==
  LET Active(c, k) == {i \in DOMAIN rows : /\ rows[i].channel = c /\ Fold[f][rows[i].nick] = k
                                           /\ rows[i].action = "mute" /\ rows[i].until > clock}
  IN [muted  |-> [c \in Channels |-> [k \in Keys |->
                    IF Active(c, k) = {} THEN 0 ELSE clock + Duration]],
      banned |-> {<<rows[i].channel, Fold[f][rows[i].nick]>> :
                    i \in {j \in DOMAIN rows : rows[j].action = "ban"}}]

\* Nothing calls reset_warnings(), unban_user() and unmute_user(): no row is
\* revoked.  Of several mutes the last row stays.
Restored(f) ==
  LET Active(c, k) == {i \in DOMAIN rows : /\ rows[i].channel = c /\ Fold[f][rows[i].nick] = k
                                           /\ rows[i].action = "mute" /\ rows[i].until > clock}
      Last(S) == CHOOSE i \in S : \A j \in S : j <= i
  IN [muted  |-> [c \in Channels |-> [k \in Keys |->
                    IF Active(c, k) = {} THEN 0 ELSE rows[Last(Active(c, k))].until]],
      banned |-> {<<rows[i].channel, Fold[f][rows[i].nick]>> :
                    i \in {j \in DOMAIN rows : rows[j].action = "ban"}}]

\* Without a store rows is empty, and so is what comes back.
_restore_active_actions(f) ==
  /\ muted' = Restored(f).muted /\ banned' = Restored(f).banned
  /\ status' = [c \in Channels |-> [k \in Keys |-> Absent]] /\ tables' = {}
  /\ moved' = FALSE /\ caught' = {}
  /\ offences' = [c \in Channels |-> [p \in Persons |-> 0]]

Forget ==
  /\ counts.loads < MaxLoads
  /\ queue' = <<>>
  /\ Count("loads")
  /\ UNCHANGED <<configuration, clock, nick, database>>

\* A new connection: set_casefold() for rfc1459 and, when 005 names another
\* CASEMAPPING, once more for that.  It restores before it changes the folding:
\* the last call, under which the memory is filled, still folds as rfc1459.
set_casefold ==
  /\ Forget
  /\ \/ tables # {} \/ banned # {} \/ \E c \in Channels, k \in Keys : muted[c][k] # 0
  /\ _restore_active_actions("rfc1459")
  /\ UNCHANGED settings

\* A new process: the constructor, and set_casefold() over its result.
Restart ==
  /\ Forget
  /\ _restore_active_actions("rfc1459")
  /\ rules' = ruleRows /\ enabled' = settingRows /\ overdue' = {}

\* Mutant of _refresh_rules: a read that is put off is left out.
_refresh_rules_not == UNCHANGED <<rules, overdue>>

\* The read that follows a commit has a connection of its own.  It may raise:
\* the command is told to have failed, and the memory stays what it was.
_refresh_rules ==
  \/ rules' = ruleRows' /\ overdue' = overdue \ {"rules"}
  \/ UNCHANGED rules /\ overdue' = overdue \cup {"rules"}

_refresh_settings ==
  \/ enabled' = settingRows' /\ overdue' = overdue \ {"settings"}
  \/ UNCHANGED enabled /\ overdue' = overdue \cup {"settings"}

\* The store's add_rule() takes an id that is free; set_rule_enabled() and
\* remove_rule() do nothing about a rule that it does not have.
StoreRule(r, to) ==
  /\ to = "add" <=> ruleRows[r] = "absent"
  /\ ruleRows' = [ruleRows EXCEPT ![r] = IF to = "add" THEN "on" ELSE to]

\* The manager's add_rule(), set_rule_enabled(), remove_rule().  A rule is not
\* added twice, as far as the memory knows.
EditRule(r, to) ==
  /\ store /\ counts.edits < MaxEdits
  /\ to = "add" => \A q \in RuleKinds :
                     <<q[1], q[2]>> = <<r[1], r[2]>> => rules[q] = "absent"
  /\ StoreRule(r, to)
  /\ _refresh_rules
  /\ Count("edits")
  /\ UNCHANGED <<configuration, clock, nick, queue, memory, enabled, rows, settingRows, history>>

\* The command: add, enable, disable or remove.
modrule == \E r \in RuleKinds, to \in {"add", "on", "off", "absent"} : EditRule(r, to)

\* The store's set_setting() replaces what is there; remove_setting().
StoreSetting(s, to) ==
  /\ to = "unset" => settingRows[s] # "unset"
  /\ settingRows' = [settingRows EXCEPT ![s] = to]

\* The manager's set_setting(), remove_setting().
EditSetting(s, to) ==
  /\ store /\ counts.edits < MaxEdits
  /\ StoreSetting(s, to)
  /\ _refresh_settings
  /\ Count("edits")
  /\ UNCHANGED <<configuration, clock, nick, queue, memory, rules, rows, ruleRows, history>>

\* The command: set or reset.
modset == \E s \in Scopes, to \in {"unset", "on", "off"} : EditSetting(s, to)

Tick ==
  /\ clock < MaxTime
  /\ clock' = clock + 1
  /\ UNCHANGED <<configuration, nick, queue, memory, settings, database, counts, history>>

Next ==
  \/ _moderate_message
  \/ \E p \in Persons, c \in Channels, text \in Texts : Say(p, c, text)
  \/ \E p \in Persons, n \in Nicks : Rename(p, n)
  \/ set_casefold
  \/ Restart
  \/ modrule \/ modset
  \/ Tick

Spec == Init /\ [][Next]_vars

-----------------------------------------------------------------------------
\* On a network that folds as the manager first does, the store and the memory
\* do not drift apart: unless a punished nick was changed since, a restart
\* restores every ban, every mute with its end, every rule and every setting,
\* and nothing else (__init__(), apply_action() and the refreshes).  Rules and
\* settings are behind the store after a refresh that failed, until the next.
RestartChangesNothing ==
  /\ "rules" \notin overdue => rules = ruleRows
  /\ "settings" \notin overdue => enabled = settingRows
  /\ store /\ network = "rfc1459" /\ ~moved =>
       /\ banned = Restored("rfc1459").banned
       /\ \A c \in Channels, k \in Keys :
            LET until == Restored("rfc1459").muted[c][k] IN
            muted[c][k] = until \/ (until = 0 /\ muted[c][k] <= clock)

\* Whom the bot has banned in this session stays banned under every nick that
\* follows, whoever takes the old one (apply_action(), rename_user()).
BanFollowsPerson == \A b \in caught : <<b[1], Key(nick[b[2]])>> \in banned

\* Without a store, who was to be warned to_ban times is banned, across nick
\* changes and lines handled late (apply_action(), lines 466-477).
EscalationReachesBan ==
  ~store => \A c \in Channels, p \in Persons :
              offences[c][p] >= ToBan => <<c, Key(nick[p])>> \in banned
=============================================================================
