---------------------------- MODULE ServicesProofs ----------------------------
(***************************************************************************)
(* The two services that act on channels of their own accord.  Of          *)
(* Moderation: bans follow people, warnings lead to bans, and restarts     *)
(* change nothing.  Of FeedEngine: no entry is announced twice, none is    *)
(* saved as seen without a fate, and its lists keep to their limits.       *)
(***************************************************************************)
EXTENDS Moderation, FeedEngine, FiniteSetTheorems, TLAPS

Lines == [nick : Nicks, channel : Channels, text : Texts]
Rows == [action : Actions, nick : Nicks, channel : Channels, until : Nat]

\* The types that the rest needs.
ModTypes ==
  /\ file \in Files /\ network \in DOMAIN Fold /\ clock \in Nat
  /\ nick \in [Persons -> Nicks]
  /\ queue \in Seq(Lines) /\ rows \in Seq(Rows)
  /\ tables \subseteq Channels
  /\ muted \in [Channels -> [Keys -> Nat]]
  /\ offences \in [Channels -> [Persons -> Nat]]
  /\ DOMAIN status = Channels
  /\ \A c \in Channels : DOMAIN status[c] = Keys
  /\ \A c \in Channels, k \in Keys : "warnings" \in DOMAIN status[c][k]
  /\ \A p, q \in Persons : p # q => Key(nick[p]) # Key(nick[q])

\* A ban moves with its nick only in a channel that has an entry.
BanInv ==
  /\ caught \subseteq Channels \X Persons
  /\ \A c \in Channels, p \in Persons : <<c, p>> \in caught =>
       c \in tables /\ <<c, Key(nick[p])>> \in banned

\* The warnings of a spelling are at least those of who bears it, unless he is
\* banned, and a spelling with as many as that is banned.
Counted(s) == IF s = Absent THEN 0 ELSE s.warnings

WarnInv ==
  ~store =>
    /\ \A c \in Channels, k \in Keys :
         /\ Counted(status[c][k]) \in Nat
         /\ Counted(status[c][k]) >= ToBan => <<c, k>> \in banned
    /\ \A c \in Channels, p \in Persons :
         /\ offences[c][p] > 0 => c \in tables
         /\ \/ <<c, Key(nick[p])>> \in banned
            \/ offences[c][p] <= Counted(status[c][Key(nick[p])])

RulesInv ==
  /\ "rules" \notin overdue => rules = ruleRows
  /\ "settings" \notin overdue => enabled = settingRows

Mutes(c, k) == {i \in DOMAIN rows : /\ rows[i].channel = c /\ Fold["rfc1459"][rows[i].nick] = k
                                    /\ rows[i].action = "mute"}
LastMute(c, k, i) == i \in Mutes(c, k) /\ \A j \in Mutes(c, k) : j <= i

\* Of the mutes of one spelling there is a last one, which ends last.
RowsInv ==
  /\ \A i \in DOMAIN rows : rows[i].until <= clock + Duration
  /\ \A i, j \in DOMAIN rows : rows[i].action = "mute" /\ rows[j].action = "mute" /\ i <= j =>
       rows[i].until <= rows[j].until
  /\ \A c \in Channels, k \in Keys : Mutes(c, k) # {} => \E i \in Mutes(c, k) : LastMute(c, k, i)

\* The memory is what the rows say, but for mutes that have ended.
StoreInv ==
  store /\ network = "rfc1459" /\ ~moved =>
    /\ banned = Restored("rfc1459").banned
    /\ \A c \in Channels, k \in Keys :
         /\ \A i \in Mutes(c, k) : LastMute(c, k, i) /\ rows[i].until > clock =>
              muted[c][k] = rows[i].until
         /\ muted[c][k] > clock => \E i \in Mutes(c, k) : rows[i].until = muted[c][k]

ModInv == ModTypes /\ BanInv /\ WarnInv /\ RulesInv /\ RowsInv /\ StoreInv

LEMMA KeyOfNick == ASSUME ModTypes, NEW n \in Nicks PROVE Key(n) \in Keys
BY ModerationAssumption DEF ModTypes, Key

LEMMA RowTypes ==
  ASSUME ModTypes
  PROVE  /\ DOMAIN rows = 1 .. Len(rows) /\ Len(rows) \in Nat
         /\ \A i \in DOMAIN rows : rows[i] \in Rows /\ rows[i].until \in Nat
<1>1. rows \in Seq(Rows)
  BY DEF ModTypes
<1>2. /\ DOMAIN rows = 1 .. Len(rows) /\ Len(rows) \in Nat
      /\ \A i \in DOMAIN rows : rows[i] \in Rows
  BY <1>1
<1>3. \A r \in Rows : r.until \in Nat
  BY DEF Rows
<1> QED
  BY <1>2, <1>3

LEMMA FirstLine ==
  ASSUME ModTypes, queue # <<>>
  PROVE  /\ Head(queue).nick \in Nicks /\ Head(queue).channel \in Channels
         /\ Tail(queue) \in Seq(Lines)
<1>1. queue \in Seq(Lines)
  BY DEF ModTypes
<1>2. Head(queue) \in Lines /\ Tail(queue) \in Seq(Lines)
  BY <1>1
<1> QED
  BY <1>2 DEF Lines

LEMMA InitMod == Init => ModInv
<1> SUFFICES ASSUME Init PROVE ModInv
  OBVIOUS
<1> USE DEF Init
<1>1. /\ status = [c \in Channels |-> [k \in Keys |-> Absent]]
      /\ offences = [c \in Channels |-> [p \in Persons |-> 0]]
      /\ muted = [c \in Channels |-> [k \in Keys |-> 0]]
      /\ rows = <<>> /\ queue = <<>> /\ caught = {} /\ banned = {} /\ clock = 0
  OBVIOUS
<1>2. ModTypes
  <2>1. \A c \in Channels, k \in Keys : "warnings" \in DOMAIN status[c][k]
    BY <1>1 DEF Absent
  <2>2. queue \in Seq(Lines) /\ rows \in Seq(Rows)
    BY <1>1
  <2>3. muted \in [Channels -> [Keys -> Nat]] /\ offences \in [Channels -> [Persons -> Nat]]
    BY <1>1
  <2>4. DOMAIN status = Channels /\ \A c \in Channels : DOMAIN status[c] = Keys
    BY <1>1
  <2> QED
    BY <2>1, <2>2, <2>3, <2>4 DEF ModTypes
<1>3. BanInv
  BY <1>1 DEF BanInv
<1>4. WarnInv
  <2>1. \A c \in Channels, k \in Keys : Counted(status[c][k]) = 0
    BY <1>1 DEF Counted
  <2>2. \A c \in Channels, p \in Persons : offences[c][p] = 0 /\ Key(nick[p]) \in Keys
    BY <1>1, <1>2, KeyOfNick DEF ModTypes
  <2>3. ~(0 >= ToBan)
    BY ModerationAssumption
  <2> QED
    BY <2>1, <2>2, <2>3 DEF WarnInv
<1>5. RulesInv
  BY DEF RulesInv
<1>6. DOMAIN rows = {}
  BY <1>1
<1>7. \A c \in Channels, k \in Keys : Mutes(c, k) = {}
  BY <1>6 DEF Mutes
<1>8. RowsInv
  BY <1>6, <1>7 DEF RowsInv
<1>9. StoreInv
  <2>1. Restored("rfc1459").banned = {}
    BY <1>6 DEF Restored
  <2>2. \A c \in Channels, k \in Keys : ~(muted[c][k] > clock)
    BY <1>1
  <2> QED
    BY <1>1, <1>7, <2>1, <2>2 DEF StoreInv
<1> QED
  BY <1>2, <1>3, <1>4, <1>5, <1>8, <1>9 DEF ModInv

-----------------------------------------------------------------------------
(* Judging a line.                                                         *)

\* What check_message() makes of the status, and of a mute that has ended.
LEMMA Checked ==
  ASSUME ModTypes, NEW c \in Channels, NEW k \in Keys, NEW text
  PROVE  LET checked == check_message(c, k, text) IN
         /\ checked.verdict \in Actions \cup {"none"}
         /\ "warnings" \in DOMAIN checked.status
         /\ \/ checked.status = status[c][k]
            \/ checked.status.warnings = _status(c, k).warnings
         /\ \/ checked.until = muted[c][k]
            \/ checked.until = 0 /\ muted[c][k] <= clock
<1> DEFINE e == Examined(c, k, text)
<1>1. e.status.warnings = _status(c, k).warnings /\ "warnings" \in DOMAIN e.status
  BY DEF Examined
<1>2. {file.rate, file.spam, file.words} \subseteq Actions \cup {"off"}
  BY ModerationAssumption DEF ModTypes
<1>3. e.verdict \in Actions \cup {"none"}
  BY <1>2 DEF Examined
<1> HIDE DEF e
<1> DEFINE checked == check_message(c, k, text)
<1>4. checked.verdict \in Actions \cup {"none"}
  BY <1>3 DEF check_message, Actions, e
<1>5. checked.status = status[c][k] \/ checked.status = e.status
  BY DEF check_message, e
<1>6. \/ checked.until = muted[c][k]
      \/ checked.until = 0 /\ muted[c][k] <= clock
  BY DEF check_message, ModTypes
<1> HIDE DEF checked
<1>7. "warnings" \in DOMAIN checked.status
  BY <1>1, <1>5 DEF ModTypes
<1> QED
  BY <1>1, <1>4, <1>5, <1>6, <1>7 DEF checked

\* What a judged line leaves behind: the status s, the end of a mute and the
\* action taken.  "warned" says that the verdict was a warning.
Outcome(c, n, action, warned, s, until) ==
  /\ status' = [status EXCEPT ![c][Key(n)] = s] /\ "warnings" \in DOMAIN s
  /\ muted' = [muted EXCEPT ![c][Key(n)] = until]
  /\ IF action = "mute" THEN until = clock + Duration
     ELSE until = muted[c][Key(n)] \/ (until = 0 /\ muted[c][Key(n)] <= clock)
  /\ tables \subseteq tables' /\ tables' \subseteq tables \cup {c}
  /\ action # "none" => c \in tables'
  /\ warned => action # "none"
  /\ banned' = IF action = "ban" THEN banned \cup {<<c, Key(n)>>} ELSE banned
  /\ caught' = IF action = "ban" THEN caught \cup {<<c, p>> : p \in Holders(n)} ELSE caught
  /\ rows' = IF store /\ action # "none"
               THEN Append(rows, [action |-> action, nick |-> n, channel |-> c,
                                  until |-> IF action = "mute" THEN clock + Duration ELSE 0])
               ELSE rows
  /\ offences' \in [Channels -> [Persons -> Nat]]
  /\ \A d \in Channels, p \in Persons :
       offences'[d][p] = offences[d][p] + (IF warned /\ d = c /\ p \in Holders(n) THEN 1 ELSE 0)
  /\ ~store /\ _status(c, Key(n)).warnings \in Nat =>
               \/ warned /\ s.warnings = _status(c, Key(n)).warnings + 1
                  /\ (s.warnings >= ToBan => action = "ban")
               \/ ~warned /\ (s = status[c][Key(n)] \/ s.warnings = _status(c, Key(n)).warnings)
  /\ queue' = Tail(queue)
  /\ UNCHANGED <<configuration, clock, nick, settings, ruleRows, settingRows, moved>>

LEMMA JudgedLine ==
  ASSUME ModTypes, _moderate_message
  PROVE  \E c \in Channels, n \in Nicks, action \in Actions \cup {"none"}, warned \in BOOLEAN :
           \E s, until : Outcome(c, n, action, warned, s, until)
<1> DEFINE n == Head(queue).nick
           c == Head(queue).channel
           checked == check_message(c, Key(n), Head(queue).text)
<1>1. /\ \/ /\ checked.verdict # "none"
            /\ apply_action(c, n, checked)
         \/ /\ checked.verdict = "none"
            /\ status' = [status EXCEPT ![c][Key(n)] = checked.status]
            /\ tables' = IF checked.examined THEN tables \cup {c} ELSE tables
            /\ muted' = [muted EXCEPT ![c][Key(n)] = checked.until]
            /\ UNCHANGED <<banned, rows, history>>
      /\ queue' = Tail(queue)
      /\ UNCHANGED <<configuration, clock, nick, settings, ruleRows, settingRows>>
  BY DEF _moderate_message
<1>2. n \in Nicks /\ c \in Channels
  BY FirstLine DEF _moderate_message
<1>3. Key(n) \in Keys
  BY <1>2, KeyOfNick
<1>4. /\ checked.verdict \in Actions \cup {"none"}
      /\ "warnings" \in DOMAIN checked.status
      /\ \/ checked.status = status[c][Key(n)]
         \/ checked.status.warnings = _status(c, Key(n)).warnings
      /\ \/ checked.until = muted[c][Key(n)]
         \/ checked.until = 0 /\ muted[c][Key(n)] <= clock
  BY <1>2, <1>3, Checked
<1> HIDE DEF n, c, checked
<1>5. CASE checked.verdict = "none"
  <2>1. offences' = offences /\ caught' = caught /\ moved' = moved
    BY <1>1, <1>5 DEF history, apply_action
  <2>2. \A d \in Channels, p \in Persons : offences'[d][p] = offences[d][p] + 0
    BY <2>1 DEF ModTypes
  <2>3. Outcome(c, n, "none", FALSE, checked.status, checked.until)
    BY <1>1, <1>4, <1>5, <2>1, <2>2 DEF Outcome, ModTypes
  <2> QED
    BY <1>2, <2>3
<1>6. CASE checked.verdict # "none"
  <2> DEFINE old == IF checked.status = Absent THEN NewStatus ELSE checked.status
             warnings == Warnings(c, n, old) + 1
             action == Escalated(checked.verdict, warnings)
             warned == checked.verdict = "warn"
             s == IF warned THEN [old EXCEPT !.warnings = warnings] ELSE old
             until == IF action = "mute" THEN clock + Duration ELSE checked.until
  <2>1. apply_action(c, n, checked)
    BY <1>1, <1>6
  <2>2. /\ status' = [status EXCEPT ![c][Key(n)] = s]
        /\ tables' = tables \cup {c}
        /\ muted' = [muted EXCEPT ![c][Key(n)] = until]
        /\ banned' = IF action = "ban" THEN banned \cup {<<c, Key(n)>>} ELSE banned
        /\ Record(action, n, c)
        /\ caught' = IF action = "ban" THEN caught \cup {<<c, p>> : p \in Holders(n)} ELSE caught
        /\ offences' = [offences EXCEPT ![c] = [p \in Persons |->
             @[p] + (IF warned /\ p \in Holders(n) THEN 1 ELSE 0)]]
        /\ UNCHANGED moved
    BY <2>1 DEF apply_action
  <2>3. action \in Actions
    BY <1>4, <1>6 DEF Escalated, Actions
  <2>4. warnings \in Nat /\ warned /\ warnings >= ToBan => action = "ban"
    BY ModerationAssumption DEF Escalated
  <2>5. "warnings" \in DOMAIN old
    BY <1>4 DEF NewStatus
  <2>6. "warnings" \in DOMAIN s /\ (warned => s.warnings = warnings)
    BY <2>5
  <2>7. checked.status = status[c][Key(n)] => old = _status(c, Key(n))
    BY DEF _status
  <2>8. _status(c, Key(n)).warnings \in Nat => old.warnings = _status(c, Key(n)).warnings
    BY <1>4, <2>7 DEF NewStatus, Absent
  <2>9. ~store => warnings = old.warnings + 1
    BY DEF Warnings
  <2> HIDE DEF old, warnings, action
  <2>10. /\ offences' \in [Channels -> [Persons -> Nat]]
         /\ \A d \in Channels, p \in Persons :
              offences'[d][p] = offences[d][p] + (IF warned /\ d = c /\ p \in Holders(n) THEN 1 ELSE 0)
    <3> DEFINE more(p) == IF warned /\ p \in Holders(n) THEN 1 ELSE 0
               row == [p \in Persons |-> offences[c][p] + more(p)]
    <3>1. offences' = [offences EXCEPT ![c] = row]
      BY <2>2
    <3>2. row \in [Persons -> Nat] /\ \A p \in Persons : row[p] = offences[c][p] + more(p)
      BY <1>2 DEF ModTypes
    <3>3. offences \in [Channels -> [Persons -> Nat]]
      BY DEF ModTypes
    <3> HIDE DEF row
    <3>4. offences' \in [Channels -> [Persons -> Nat]] /\ offences'[c] = row
          /\ \A d \in Channels \ {c} : offences'[d] = offences[d]
      BY <1>2, <3>1, <3>2, <3>3
    <3>5. \A d \in Channels \ {c}, p \in Persons : offences[d][p] + 0 = offences[d][p]
      BY <3>3
    <3> QED
      BY <3>2, <3>4, <3>5
  <2>11. rows' = IF store
                   THEN Append(rows, [action |-> action, nick |-> n, channel |-> c,
                                      until |-> IF action = "mute" THEN clock + Duration ELSE 0])
                   ELSE rows
    BY <2>2 DEF Record
  <2>12. action # "none"
    BY <2>3 DEF Actions
  <2>13. ~store /\ _status(c, Key(n)).warnings \in Nat =>
           \/ warned /\ s.warnings = _status(c, Key(n)).warnings + 1
              /\ (s.warnings >= ToBan => action = "ban")
           \/ ~warned /\ s.warnings = _status(c, Key(n)).warnings
    BY <2>4, <2>6, <2>8, <2>9
  <2>14. IF action = "mute" THEN until = clock + Duration
         ELSE until = muted[c][Key(n)] \/ (until = 0 /\ muted[c][Key(n)] <= clock)
    BY <1>4
  <2> HIDE DEF s, until
  <2>15. Outcome(c, n, action, warned, s, until)
    BY <1>1, <2>2, <2>6, <2>10, <2>11, <2>12, <2>13, <2>14 DEF Outcome
  <2> QED
    BY <1>2, <2>3, <2>15
<1> QED
  BY <1>5, <1>6

-----------------------------------------------------------------------------
(* What is loaded.                                                         *)

\* Of the mutes that have not ended, the last row is the last of all.
LEMMA RestoredMute ==
  ASSUME ModTypes, RowsInv, NEW c \in Channels, NEW k \in Keys
  PROVE  LET u == Restored("rfc1459").muted[c][k] IN
         \/ u = 0 /\ \A i \in Mutes(c, k) : rows[i].until <= clock
         \/ \E i \in Mutes(c, k) : LastMute(c, k, i) /\ rows[i].until > clock /\ u = rows[i].until
<1> DEFINE Active == {i \in DOMAIN rows : /\ rows[i].channel = c /\ Fold["rfc1459"][rows[i].nick] = k
                                          /\ rows[i].action = "mute" /\ rows[i].until > clock}
           last == CHOOSE i \in Active : \A j \in Active : j <= i
<1>1. Restored("rfc1459").muted[c][k] = IF Active = {} THEN 0 ELSE rows[last].until
  BY DEF Restored
<1>2. Active = {i \in Mutes(c, k) : rows[i].until > clock}
  BY DEF Mutes
<1>3. /\ DOMAIN rows \subseteq Nat /\ Mutes(c, k) \subseteq DOMAIN rows
      /\ \A i \in DOMAIN rows : rows[i].until \in Nat
  BY RowTypes DEF Mutes
<1>4. clock \in Nat
  BY DEF ModTypes
<1> HIDE DEF Active
<1>5. CASE Active = {}
  BY <1>1, <1>2, <1>3, <1>4, <1>5
<1>6. CASE Active # {}
  <2>1. PICK m \in Mutes(c, k) : LastMute(c, k, m)
    BY <1>2, <1>6 DEF RowsInv
  <2>2. PICK a \in Active : TRUE
    BY <1>6
  <2>3. a \in Mutes(c, k) /\ a <= m /\ rows[a].until > clock
    BY <1>2, <2>1, <2>2 DEF LastMute
  <2>4. rows[a].until <= rows[m].until
    BY <1>3, <2>1, <2>3 DEF RowsInv, Mutes
  <2>5. rows[m].until > clock
    BY <1>3, <1>4, <2>1, <2>3, <2>4
  <2>6. m \in Active /\ \A j \in Active : j <= m
    BY <1>2, <2>1, <2>5 DEF LastMute
  <2>7. last \in Active /\ \A j \in Active : j <= last
    BY <2>6
  <2> HIDE DEF last
  <2>8. last = m
    BY <1>2, <1>3, <2>6, <2>7
  <2> QED
    BY <1>1, <1>6, <2>1, <2>5, <2>8
<1> QED
  BY <1>5, <1>6

-----------------------------------------------------------------------------
(* The types.                                                              *)

LEMMA JudgedTypes ==
  ASSUME ModTypes, NEW c \in Channels, NEW n \in Nicks, NEW action \in Actions \cup {"none"},
         NEW warned \in BOOLEAN, NEW s, NEW until, Outcome(c, n, action, warned, s, until)
  PROVE  ModTypes'
<1> USE DEF ModTypes
<1>1. Key(n) \in Keys
  BY KeyOfNick
<1>2. UNCHANGED <<file, store, network, clock, nick>>
  BY DEF Outcome, configuration
<1>3. queue' \in Seq(Lines)
  <2>1. CASE queue # <<>>
    BY <2>1, FirstLine DEF Outcome
  <2>2. CASE queue = <<>>
    BY <2>2 DEF Outcome
  <2> QED
    BY <2>1, <2>2
<1>4. clock + Duration \in Nat /\ 0 \in Nat
  BY ModerationAssumption
<1>5. until \in Nat
  BY <1>1, <1>4 DEF Outcome
<1>6. muted' \in [Channels -> [Keys -> Nat]]
  BY <1>1, <1>5 DEF Outcome
<1>7. rows' \in Seq(Rows)
  <2>1. CASE rows' = rows
    BY <2>1
  <2>2. CASE store /\ action # "none"
    <3> DEFINE row == [action |-> action, nick |-> n, channel |-> c,
                       until |-> IF action = "mute" THEN clock + Duration ELSE 0]
    <3>1. row \in Rows
      BY <1>4, <2>2 DEF Rows
    <3>2. rows' = Append(rows, row)
      BY <2>2 DEF Outcome
    <3> HIDE DEF row
    <3> QED
      BY <3>1, <3>2
  <2> QED
    BY <2>1, <2>2 DEF Outcome
<1>8. tables' \subseteq Channels /\ offences' \in [Channels -> [Persons -> Nat]]
  BY DEF Outcome
<1>9. /\ DOMAIN status' = Channels /\ \A d \in Channels : DOMAIN status'[d] = Keys
      /\ \A d \in Channels, k \in Keys : "warnings" \in DOMAIN status'[d][k]
  BY <1>1 DEF Outcome
<1>10. \A p, q \in Persons : p # q => Key(nick[p])' # Key(nick[q])'
  BY <1>2 DEF Key
<1> QED
  BY <1>2, <1>3, <1>6, <1>7, <1>8, <1>9, <1>10 DEF Key

LEMMA RenameTypes ==
  ASSUME ModTypes, NEW p \in Persons, NEW n \in Nicks, Rename(p, n)
  PROVE  ModTypes'
<1> USE DEF ModTypes
<1>1. /\ UNCHANGED <<file, store, network, clock, queue, rows, tables, offences>>
      /\ nick' = [nick EXCEPT ![p] = n] /\ \A q \in Persons \ {p} : Key(nick[q]) # Key(n)
      /\ rename_user(Key(nick[p]), Key(n))
  BY DEF Rename, configuration, database, rename_user
<1>2. nick' \in [Persons -> Nicks]
  BY <1>1
<1>3. \A q \in Persons : Key(nick[q])' = IF q = p THEN Key(n) ELSE Key(nick[q])
  BY <1>1 DEF Key
<1>4. \A a, b \in Persons : a # b => Key(nick[a])' # Key(nick[b])'
  BY <1>1, <1>3
<1>5. Key(nick[p]) \in Keys /\ Key(n) \in Keys
  BY KeyOfNick
<1>6. /\ DOMAIN status' = Channels /\ \A c \in Channels : DOMAIN status'[c] = Keys
      /\ \A c \in Channels, k \in Keys : "warnings" \in DOMAIN status'[c][k]
  <2>1. status' = [c \in Channels |->
          IF c \in tables /\ status[c][Key(nick[p])] # Absent
          THEN [status[c] EXCEPT ![Key(nick[p])] = Absent, ![Key(n)] = status[c][Key(nick[p])]]
          ELSE status[c]]
    BY <1>1 DEF rename_user
  <2>2. "warnings" \in DOMAIN Absent
    BY DEF Absent
  <2>3. DOMAIN status' = Channels /\ \A c \in Channels : DOMAIN status'[c] = Keys
    BY <2>1
  <2>4. ASSUME NEW c \in Channels, NEW k \in Keys PROVE "warnings" \in DOMAIN status'[c][k]
    BY <1>5, <2>1, <2>2
  <2> QED
    BY <2>3, <2>4
<1>7. muted' \in [Channels -> [Keys -> Nat]]
  <2>1. muted' = [c \in Channels |->
          IF c \in tables /\ muted[c][Key(nick[p])] # 0
          THEN [muted[c] EXCEPT ![Key(nick[p])] = 0, ![Key(n)] = muted[c][Key(nick[p])]]
          ELSE muted[c]]
    BY <1>1 DEF rename_user
  <2>2. ASSUME NEW c \in Channels
        PROVE  [muted[c] EXCEPT ![Key(nick[p])] = 0, ![Key(n)] = muted[c][Key(nick[p])]] \in [Keys -> Nat]
    <3>1. \A f \in [Keys -> Nat], a, b \in Keys, v \in Nat :
            [f EXCEPT ![a] = 0, ![b] = v] \in [Keys -> Nat]
      OBVIOUS
    <3>2. muted[c] \in [Keys -> Nat] /\ muted[c][Key(nick[p])] \in Nat
      BY <1>5
    <3> QED
      BY <1>5, <3>1, <3>2
  <2> QED
    BY <2>1, <2>2
<1> QED
  BY <1>1, <1>2, <1>4, <1>6, <1>7 DEF Key

LEMMA LoadTypes ==
  ASSUME ModTypes, RowsInv, set_casefold \/ Restart
  PROVE  ModTypes'
<1> USE DEF ModTypes
<1>1. /\ UNCHANGED <<file, store, network, clock, nick, rows>> /\ queue' = <<>>
      /\ _restore_active_actions("rfc1459")
  BY DEF set_casefold, Restart, Forget, configuration, database
<1>2. \A c \in Channels, k \in Keys : Restored("rfc1459").muted[c][k] \in Nat
  <2>1. ASSUME NEW c \in Channels, NEW k \in Keys PROVE Restored("rfc1459").muted[c][k] \in Nat
    <3>1. \A i \in Mutes(c, k) : rows[i].until \in Nat
      BY RowTypes DEF Mutes
    <3>2. LET u == Restored("rfc1459").muted[c][k] IN
          \/ u = 0 /\ \A i \in Mutes(c, k) : rows[i].until <= clock
          \/ \E i \in Mutes(c, k) : LastMute(c, k, i) /\ rows[i].until > clock /\ u = rows[i].until
      BY RestoredMute
    <3> QED
      BY <3>1, <3>2
  <2> QED
    BY <2>1
<1>3. muted' \in [Channels -> [Keys -> Nat]]
  <2> DEFINE R == Restored("rfc1459").muted
  <2>1. R = [c \in Channels |-> [k \in Keys |-> R[c][k]]]
    BY DEF Restored
  <2>2. \A c \in Channels, k \in Keys : R[c][k] \in Nat
    BY <1>2
  <2>3. muted' = R
    BY <1>1 DEF _restore_active_actions
  <2> HIDE DEF R
  <2> QED
    BY <2>1, <2>2, <2>3
<1>4. /\ DOMAIN status' = Channels /\ \A c \in Channels : DOMAIN status'[c] = Keys
      /\ \A c \in Channels, k \in Keys : "warnings" \in DOMAIN status'[c][k]
  BY <1>1 DEF _restore_active_actions, Absent
<1>5. tables' \subseteq Channels /\ offences' \in [Channels -> [Persons -> Nat]]
  BY <1>1 DEF _restore_active_actions
<1> QED
  BY <1>1, <1>3, <1>4, <1>5 DEF Key

\* The steps that touch neither the memory nor the rows.
Elsewhere ==
  \/ \E p \in Persons, c \in Channels, text \in Texts : Say(p, c, text)
  \/ modrule \/ modset \/ Tick \/ UNCHANGED vars

LEMMA ElsewhereFrame ==
  ASSUME Elsewhere
  PROVE  /\ UNCHANGED <<configuration, nick, memory, rows, history>>
         /\ clock' = clock \/ clock' = clock + 1
BY DEF Elsewhere, Say, modrule, EditRule, modset, EditSetting, Tick, vars, database

LEMMA ElsewhereTypes ==
  ASSUME ModTypes, Elsewhere
  PROVE  ModTypes'
<1> USE DEF ModTypes
<1>1. /\ UNCHANGED <<file, store, network, nick, status, tables, muted, rows, offences>>
      /\ clock' \in Nat
  BY ElsewhereFrame DEF configuration, memory, history
<1>2. queue' \in Seq(Lines)
  <2>1. ASSUME NEW p \in Persons, NEW c \in Channels, NEW text \in Texts, Say(p, c, text)
        PROVE  queue' \in Seq(Lines)
    <3>1. [nick |-> nick[p], channel |-> c, text |-> text] \in Lines
      BY DEF Lines
    <3> QED
      BY <2>1, <3>1 DEF Say
  <2> QED
    BY <2>1 DEF Elsewhere, modrule, EditRule, modset, EditSetting, Tick, vars
<1> QED
  BY <1>1, <1>2 DEF Key

-----------------------------------------------------------------------------
(* Bans and the persons they are about.                                    *)

LEMMA JudgedBan ==
  ASSUME ModTypes, BanInv,
         NEW c \in Channels, NEW n \in Nicks, NEW action, NEW warned, NEW s, NEW until,
         Outcome(c, n, action, warned, s, until)
  PROVE  BanInv'
<1>1. /\ nick' = nick /\ network' = network /\ tables \subseteq tables'
      /\ action # "none" => c \in tables'
      /\ banned' = IF action = "ban" THEN banned \cup {<<c, Key(n)>>} ELSE banned
      /\ caught' = IF action = "ban" THEN caught \cup {<<c, p>> : p \in Holders(n)} ELSE caught
  BY DEF Outcome, configuration
<1>2. Holders(n) \subseteq Persons /\ \A p \in Holders(n) : Key(nick[p]) = Key(n)
  BY DEF Holders
<1>3. caught' \subseteq Channels \X Persons
  BY <1>1, <1>2 DEF BanInv
<1>4. ASSUME NEW d \in Channels, NEW p \in Persons, <<d, p>> \in caught'
      PROVE  d \in tables' /\ <<d, Key(nick[p])>> \in banned'
  BY <1>1, <1>2, <1>4 DEF BanInv
<1> QED
  BY <1>1, <1>3, <1>4 DEF BanInv, Key

\* What a rename does to the bans of one channel.
LEMMA RenamedBans ==
  ASSUME NEW old, NEW new, rename_user(old, new), NEW c, NEW k, <<c, k>> \in banned
  PROVE  /\ k # old \/ c \notin tables => <<c, k>> \in banned'
         /\ k = old /\ c \in tables => <<c, new>> \in banned'
<1> DEFINE following == {b \in banned : b[1] \in tables /\ b[2] = old}
<1>1. banned' = (banned \ following) \cup {<<b[1], new>> : b \in following}
  BY DEF rename_user
<1>2. <<c, k>>[1] = c /\ <<c, k>>[2] = k
  OBVIOUS
<1>3. CASE k = old /\ c \in tables
  <2>1. <<c, k>> \in following
    BY <1>2, <1>3
  <2>2. <<c, new>> \in {<<b[1], new>> : b \in following}
    BY <1>2, <2>1
  <2> QED
    BY <1>1, <1>3, <2>2
<1>4. CASE k # old \/ c \notin tables
  <2>1. <<c, k>> \notin following
    BY <1>2, <1>4
  <2> QED
    BY <1>1, <1>4, <2>1
<1> QED
  BY <1>3, <1>4

LEMMA RenameBan ==
  ASSUME ModTypes, BanInv, NEW p \in Persons, NEW n \in Nicks, Rename(p, n)
  PROVE  BanInv'
<1>1. /\ network' = network /\ tables' = tables /\ caught' = caught
      /\ nick' = [nick EXCEPT ![p] = n] /\ rename_user(Key(nick[p]), Key(n))
  BY DEF Rename, configuration, rename_user
<1>2. \A q \in Persons : Key(nick[q])' = IF q = p THEN Key(n) ELSE Key(nick[q])
  BY <1>1 DEF Key, ModTypes
<1>3. \A q \in Persons \ {p} : Key(nick[q]) # Key(nick[p])
  BY DEF ModTypes
<1>4. ASSUME NEW c \in Channels, NEW q \in Persons, <<c, q>> \in caught
      PROVE  c \in tables /\ <<c, Key(nick[q])'>> \in banned'
  <2>1. c \in tables /\ <<c, Key(nick[q])>> \in banned
    BY <1>4 DEF BanInv
  <2> QED
    BY <1>1, <1>2, <1>3, <2>1, RenamedBans
<1> QED
  BY <1>1, <1>4 DEF BanInv, Key

LEMMA OtherBan ==
  ASSUME ModTypes, BanInv, set_casefold \/ Restart \/ Elsewhere
  PROVE  BanInv'
<1>1. CASE set_casefold \/ Restart
  <2>1. caught' = {}
    BY <1>1 DEF set_casefold, Restart, _restore_active_actions
  <2> QED
    BY <2>1 DEF BanInv
<1>2. CASE Elsewhere
  <2>1. UNCHANGED <<nick, network, caught, tables, banned>>
    BY <1>2, ElsewhereFrame DEF configuration, memory, history
  <2> QED
    BY <2>1 DEF BanInv, Key
<1> QED
  BY <1>1, <1>2

-----------------------------------------------------------------------------
(* Warnings and offences, without a store.                                 *)

LEMMA StatusCounted ==
  ASSUME NEW c, NEW k PROVE _status(c, k).warnings = Counted(status[c][k])
BY DEF _status, Counted, NewStatus

LEMMA JudgedWarn ==
  ASSUME ModTypes, WarnInv, ~store,
         NEW c \in Channels, NEW n \in Nicks, NEW action, NEW warned \in BOOLEAN, NEW s, NEW until,
         Outcome(c, n, action, warned, s, until)
  PROVE  WarnInv'
<1> DEFINE key == Key(n)
           old == Counted(status[c][key])
           more == IF warned THEN 1 ELSE 0
<1>1. key \in Keys
  BY KeyOfNick
<1>2. /\ \A d \in Channels, k \in Keys :
           /\ Counted(status[d][k]) \in Nat
           /\ Counted(status[d][k]) >= ToBan => <<d, k>> \in banned
      /\ \A d \in Channels, p \in Persons :
           /\ offences[d][p] > 0 => d \in tables
           /\ \/ <<d, Key(nick[p])>> \in banned
              \/ offences[d][p] <= Counted(status[d][Key(nick[p])])
  BY DEF WarnInv
<1>3. /\ status' = [status EXCEPT ![c][key] = s]
      /\ tables \subseteq tables' /\ (warned => c \in tables')
      /\ banned \subseteq banned' /\ (action = "ban" => <<c, key>> \in banned')
      /\ \A d \in Channels, p \in Persons :
           offences'[d][p] = offences[d][p] + (IF warned /\ d = c /\ p \in Holders(n) THEN 1 ELSE 0)
      /\ nick' = nick /\ network' = network /\ store' = store
  BY DEF Outcome, configuration
<1>4. \/ warned /\ s.warnings = old + 1 /\ (s.warnings >= ToBan => action = "ban")
      \/ ~warned /\ (s = status[c][key] \/ s.warnings = old)
  BY <1>1, <1>2, StatusCounted DEF Outcome
<1>5. status'[c][key] = s /\ \A d \in Channels, k \in Keys : d # c \/ k # key => status'[d][k] = status[d][k]
  BY <1>1, <1>3 DEF ModTypes
<1>6. Counted(s) = old + more /\ (warned => Counted(s) = s.warnings)
  <2>1. old \in Nat
    BY <1>1, <1>2
  <2>2. Absent.warnings = -1
    BY DEF Absent
  <2> QED
    BY <1>4, <2>1, <2>2 DEF Counted
<1>7. \A p \in Persons : Key(nick[p]) \in Keys /\ (p \in Holders(n) <=> Key(nick[p]) = key)
  BY KeyOfNick DEF Holders, ModTypes
<1>8. \A d \in Channels, p \in Persons : offences[d][p] \in Nat
  BY DEF ModTypes
<1>9. old \in Nat /\ ToBan \in Nat /\ (old >= ToBan => <<c, key>> \in banned)
  BY <1>1, <1>2, ModerationAssumption
<1>10. Counted(s) \in Nat /\ (Counted(s) >= ToBan => <<c, key>> \in banned')
  <2>1. CASE warned
    BY <1>3, <1>4, <1>6, <1>9, <2>1
  <2>2. CASE ~warned
    BY <1>3, <1>6, <1>9, <2>2
  <2> QED
    BY <2>1, <2>2
<1> HIDE DEF key
<1>11. ASSUME NEW d \in Channels, NEW k \in Keys
       PROVE  /\ Counted(status'[d][k]) \in Nat
              /\ Counted(status'[d][k]) >= ToBan => <<d, k>> \in banned'
  <2>1. CASE d = c /\ k = key
    BY <1>5, <1>10, <2>1
  <2>2. CASE d # c \/ k # key
    BY <1>2, <1>3, <1>5, <2>2
  <2> QED
    BY <2>1, <2>2
<1>12. ASSUME NEW d \in Channels, NEW p \in Persons
       PROVE  /\ offences'[d][p] > 0 => d \in tables'
              /\ \/ <<d, Key(nick[p])>> \in banned'
                 \/ offences'[d][p] <= Counted(status'[d][Key(nick[p])])
  <2>1. Key(nick[p]) \in Keys /\ offences[d][p] \in Nat
    BY <1>7, <1>8
  <2>2. CASE d = c /\ Key(nick[p]) = key
    <3>1. offences'[d][p] = offences[d][p] + more /\ (warned => d \in tables')
      BY <1>3, <1>7, <1>8, <2>2
    <3>2. <<d, key>> \in banned \/ offences[d][p] <= old
      BY <1>2, <2>2
    <3>3. Counted(status'[d][Key(nick[p])]) = old + more
      BY <1>5, <1>6, <2>2
    <3>4. offences[d][p] > 0 => d \in tables
      BY <1>2
    <3> QED
      BY <1>3, <1>9, <2>1, <2>2, <3>1, <3>2, <3>3, <3>4
  <2>3. CASE d # c \/ Key(nick[p]) # key
    <3>1. offences'[d][p] = offences[d][p]
      BY <1>3, <1>7, <1>8, <2>3
    <3>2. status'[d][Key(nick[p])] = status[d][Key(nick[p])]
      BY <1>5, <2>1, <2>3
    <3> QED
      BY <1>2, <1>3, <3>1, <3>2
  <2> QED
    BY <2>2, <2>3
<1> QED
  BY <1>3, <1>11, <1>12 DEF WarnInv, Key

LEMMA RenameWarn ==
  ASSUME ModTypes, WarnInv, ~store, NEW p \in Persons, NEW n \in Nicks, Rename(p, n)
  PROVE  WarnInv'
<1> DEFINE old == Key(nick[p])
           new == Key(n)
<1>1. /\ network' = network /\ store' = store /\ tables' = tables /\ offences' = offences
      /\ nick' = [nick EXCEPT ![p] = n] /\ rename_user(old, new)
      /\ \A q \in Persons \ {p} : Key(nick[q]) # new
  BY DEF Rename, configuration, rename_user
<1>2. old \in Keys /\ new \in Keys /\ \A q \in Persons : Key(nick[q]) \in Keys
  BY KeyOfNick DEF ModTypes
<1>3. \A q \in Persons : Key(nick[q])' = IF q = p THEN new ELSE Key(nick[q])
  BY <1>1 DEF Key, ModTypes
<1>4. \A q \in Persons \ {p} : Key(nick[q]) # old
  BY DEF ModTypes
<1>5. /\ \A d \in Channels, k \in Keys :
           /\ Counted(status[d][k]) \in Nat
           /\ Counted(status[d][k]) >= ToBan => <<d, k>> \in banned
      /\ \A d \in Channels, q \in Persons :
           /\ offences[d][q] > 0 => d \in tables
           /\ \/ <<d, Key(nick[q])>> \in banned
              \/ offences[d][q] <= Counted(status[d][Key(nick[q])])
  BY DEF WarnInv
<1>6. Counted(Absent) = 0 /\ ~(0 >= ToBan)
  BY ModerationAssumption DEF Counted
<1>7. \A d \in Channels, q \in Persons : offences[d][q] \in Nat
  BY DEF ModTypes
<1> HIDE DEF old, new
<1>8. \A d \in Channels, k \in Keys :
        status'[d][k] = IF d \in tables /\ status[d][old] # Absent
                        THEN IF k = new THEN status[d][old] ELSE IF k = old THEN Absent ELSE status[d][k]
                        ELSE status[d][k]
  <2>1. status' = [c \in Channels |->
          IF c \in tables /\ status[c][old] # Absent
          THEN [status[c] EXCEPT ![old] = Absent, ![new] = status[c][old]] ELSE status[c]]
    BY <1>1 DEF rename_user
  <2>2. \A c \in Channels : DOMAIN status[c] = Keys
    BY DEF ModTypes
  <2> QED
    BY <1>2, <2>1, <2>2
<1>9. ASSUME NEW d \in Channels, NEW k \in Keys
      PROVE  /\ Counted(status'[d][k]) \in Nat
             /\ Counted(status'[d][k]) >= ToBan => <<d, k>> \in banned'
  <2>1. CASE d \in tables /\ status[d][old] # Absent /\ k = new
    <3>1. status'[d][k] = status[d][old]
      BY <1>8, <2>1
    <3>2. <<d, old>> \in banned => <<d, k>> \in banned'
      BY <1>1, <2>1, RenamedBans
    <3> QED
      BY <1>2, <1>5, <3>1, <3>2
  <2>2. CASE d \in tables /\ status[d][old] # Absent /\ k # new /\ k = old
    BY <1>6, <1>8, <2>2
  <2>3. CASE d \in tables /\ status[d][old] = Absent /\ k = old
    BY <1>6, <1>8, <2>3
  <2>4. CASE d \notin tables \/ (k # old /\ (k # new \/ status[d][old] = Absent))
    <3>1. status'[d][k] = status[d][k]
      BY <1>8, <2>4
    <3>2. ASSUME <<d, k>> \in banned PROVE <<d, k>> \in banned'
      <4>1. k # old \/ d \notin tables
        BY <2>4
      <4> QED
        BY <1>1, <3>2, <4>1, RenamedBans
    <3> QED
      BY <1>5, <3>1, <3>2
  <2> QED
    BY <2>1, <2>2, <2>3, <2>4
<1>10. ASSUME NEW d \in Channels, NEW q \in Persons
       PROVE  /\ offences[d][q] > 0 => d \in tables
              /\ \/ <<d, Key(nick[q])'>> \in banned'
                 \/ offences[d][q] <= Counted(status'[d][Key(nick[q])'])
  <2>1. Key(nick[q])' \in Keys
    BY <1>2, <1>3
  <2>2. CASE d \notin tables
    <3>1. offences[d][q] = 0
      <4>1. offences[d][q] \in Nat /\ ~(offences[d][q] > 0)
        BY <1>5, <1>7, <2>2
      <4> QED
        BY <4>1
    <3>2. Counted(status'[d][Key(nick[q])']) \in Nat
      BY <1>9, <2>1
    <3> QED
      BY <2>2, <3>1, <3>2
  <2>3. CASE d \in tables /\ q = p
    <3>1. Key(nick[q])' = new /\ Key(nick[q]) = old
      BY <1>3, <2>3 DEF old
    <3>2. <<d, old>> \in banned => <<d, new>> \in banned'
      BY <1>1, <2>3, RenamedBans
    <3>3. Counted(status[d][old]) <= Counted(status'[d][new])
      <4>1. CASE status[d][old] # Absent
        <5>1. status'[d][new] = status[d][old]
          BY <1>2, <1>8, <2>3, <4>1
        <5>2. Counted(status[d][old]) \in Nat
          BY <1>2, <1>5
        <5>3. Counted(status'[d][new]) = Counted(status[d][old])
          BY <5>1
        <5> QED
          BY <5>2, <5>3
      <4>2. CASE status[d][old] = Absent
        <5>1. Counted(status[d][old]) = 0
          BY <1>6, <4>2
        <5>2. Counted(status'[d][new]) \in Nat
          BY <1>2, <1>9
        <5> QED
          BY <5>1, <5>2
      <4> QED
        BY <4>1, <4>2
    <3>4. /\ Counted(status[d][old]) \in Nat /\ Counted(status'[d][new]) \in Nat
          /\ offences[d][q] \in Nat
      BY <1>2, <1>5, <1>7, <1>9
    <3>5. <<d, old>> \in banned \/ offences[d][q] <= Counted(status[d][old])
      BY <1>5, <3>1
    <3> QED
      BY <2>3, <3>1, <3>2, <3>3, <3>4, <3>5
  <2>4. CASE d \in tables /\ q # p
    <3>1. Key(nick[q])' = Key(nick[q]) /\ Key(nick[q]) # old /\ Key(nick[q]) # new
      BY <1>1, <1>3, <1>4, <2>4
    <3>2. status'[d][Key(nick[q])] = status[d][Key(nick[q])]
      BY <1>2, <1>8, <3>1
    <3>3. <<d, Key(nick[q])>> \in banned => <<d, Key(nick[q])>> \in banned'
      BY <1>1, <3>1, RenamedBans
    <3> QED
      BY <1>5, <3>1, <3>2, <3>3
  <2> QED
    BY <2>2, <2>3, <2>4
<1> QED
  BY <1>1, <1>9, <1>10 DEF WarnInv, Key

LEMMA OtherWarn ==
  ASSUME ModTypes, WarnInv, ~store, set_casefold \/ Restart \/ Elsewhere
  PROVE  WarnInv'
<1>1. CASE set_casefold \/ Restart
  <2>1. /\ status' = [c \in Channels |-> [k \in Keys |-> Absent]]
        /\ offences' = [c \in Channels |-> [p \in Persons |-> 0]]
        /\ nick' = nick /\ network' = network
    BY <1>1 DEF set_casefold, Restart, _restore_active_actions, Forget, configuration
  <2>2. Counted(Absent) = 0 /\ ~(0 >= ToBan)
    BY ModerationAssumption DEF Counted
  <2>3. \A c \in Channels, k \in Keys : Counted(status'[c][k]) = 0
    BY <2>1, <2>2
  <2>4. \A c \in Channels, p \in Persons : offences'[c][p] = 0 /\ Key(nick[p]) \in Keys
    BY <2>1, KeyOfNick DEF ModTypes
  <2> QED
    BY <2>1, <2>2, <2>3, <2>4 DEF WarnInv, Key
<1>2. CASE Elsewhere
  <2>1. UNCHANGED <<store, nick, network, status, offences, tables, banned>>
    BY <1>2, ElsewhereFrame DEF configuration, memory, history
  <2> QED
    BY <2>1 DEF WarnInv, Key
<1> QED
  BY <1>1, <1>2

-----------------------------------------------------------------------------
(* The rows, and the memory beside them.                                   *)

LEMMA AppendedMute ==
  ASSUME ModTypes, NEW c \in Channels, NEW n \in Nicks, NEW action \in Actions, NEW until \in Nat,
         rows' = Append(rows, [action |-> action, nick |-> n, channel |-> c, until |-> until])
  PROVE  LET m == Len(rows) + 1 IN
         /\ DOMAIN rows' = DOMAIN rows \cup {m} /\ m \notin DOMAIN rows
         /\ \A i \in DOMAIN rows : rows'[i] = rows[i] /\ i < m
         /\ rows'[m] = [action |-> action, nick |-> n, channel |-> c, until |-> until]
         /\ \A d \in Channels, k \in Keys :
              Mutes(d, k)' = Mutes(d, k) \cup
                (IF action = "mute" /\ d = c /\ k = Fold["rfc1459"][n] THEN {m} ELSE {})
<1> DEFINE row == [action |-> action, nick |-> n, channel |-> c, until |-> until]
           m == Len(rows) + 1
<1>1. /\ rows \in Seq(Rows) /\ row \in Rows
      /\ DOMAIN rows = 1 .. Len(rows) /\ Len(rows) \in Nat
  BY RowTypes DEF ModTypes, Rows
<1>2. row.action = action /\ row.nick = n /\ row.channel = c
  OBVIOUS
<1> HIDE DEF row
<1>3. rows' = Append(rows, row)
  BY DEF row
<1>4. /\ DOMAIN rows' = 1 .. m /\ rows'[m] = row
      /\ \A i \in 1 .. Len(rows) : rows'[i] = rows[i]
  BY <1>1, <1>3
<1>5. 1 .. m = (1 .. Len(rows)) \cup {m} /\ m \notin 1 .. Len(rows)
  BY <1>1
<1>6. \A i \in DOMAIN rows : rows'[i] = rows[i] /\ i < m
  BY <1>1, <1>4
<1> HIDE DEF m
<1>7. DOMAIN rows' = DOMAIN rows \cup {m} /\ m \notin DOMAIN rows
  BY <1>1, <1>4, <1>5
<1>8. ASSUME NEW d \in Channels, NEW k \in Keys
      PROVE  Mutes(d, k)' = Mutes(d, k) \cup
               (IF action = "mute" /\ d = c /\ k = Fold["rfc1459"][n] THEN {m} ELSE {})
  BY <1>2, <1>4, <1>6, <1>7 DEF Mutes
<1> QED
  BY <1>4, <1>6, <1>7, <1>8 DEF m, row

LEMMA SameRows ==
  ASSUME ModTypes, RowsInv, rows' = rows, clock' \in {clock, clock + 1}
  PROVE  RowsInv'
<1>1. \A c \in Channels, k \in Keys : Mutes(c, k)' = Mutes(c, k)
  BY DEF Mutes
<1>2. /\ clock \in Nat /\ Duration \in Nat
      /\ \A i \in DOMAIN rows : rows[i].until \in Nat /\ rows[i].until <= clock + Duration
  BY RowTypes, ModerationAssumption DEF ModTypes, RowsInv
<1>3. \A i \in DOMAIN rows' : rows'[i].until <= clock' + Duration
  BY <1>2
<1>4. \A i, j \in DOMAIN rows' : rows'[i].action = "mute" /\ rows'[j].action = "mute" /\ i <= j =>
        rows'[i].until <= rows'[j].until
  BY DEF RowsInv
<1>5. ASSUME NEW c \in Channels, NEW k \in Keys, Mutes(c, k)' # {}
      PROVE  \E i \in Mutes(c, k)' : i \in Mutes(c, k)' /\ \A j \in Mutes(c, k)' : j <= i
  BY <1>1, <1>5 DEF RowsInv, LastMute
<1> QED
  BY <1>3, <1>4, <1>5 DEF RowsInv, LastMute

LEMMA JudgedRows ==
  ASSUME ModTypes, RowsInv,
         NEW c \in Channels, NEW n \in Nicks, NEW action \in Actions \cup {"none"},
         NEW warned, NEW s, NEW until, Outcome(c, n, action, warned, s, until)
  PROVE  RowsInv'
<1>1. CASE rows' = rows
  BY <1>1, SameRows DEF Outcome
<1>2. CASE store /\ action # "none"
  <2> DEFINE m == Len(rows) + 1
             end == IF action = "mute" THEN clock + Duration ELSE 0
  <2>1. clock \in Nat /\ Duration \in Nat /\ end \in Nat /\ end <= clock + Duration /\ clock' = clock
    BY ModerationAssumption DEF ModTypes, Outcome
  <2>2. rows' = Append(rows, [action |-> action, nick |-> n, channel |-> c, until |-> end])
    BY <1>2 DEF Outcome
  <2>3. action \in Actions
    BY <1>2
  <2>4. action = "mute" => end = clock + Duration
    OBVIOUS
  <2> HIDE DEF end
  <2>5. /\ DOMAIN rows' = DOMAIN rows \cup {m} /\ m \notin DOMAIN rows
        /\ \A i \in DOMAIN rows : rows'[i] = rows[i] /\ i < m
        /\ rows'[m].action = action /\ rows'[m].until = end
        /\ \A d \in Channels, k \in Keys :
             Mutes(d, k)' = Mutes(d, k) \cup
               (IF action = "mute" /\ d = c /\ k = Fold["rfc1459"][n] THEN {m} ELSE {})
    BY <2>1, <2>2, <2>3, AppendedMute
  <2>6. /\ DOMAIN rows \subseteq Nat /\ m \in Nat
        /\ \A i \in DOMAIN rows : rows[i].until \in Nat /\ rows[i].until <= clock + Duration
    BY RowTypes DEF RowsInv
  <2> HIDE DEF m
  <2>7. \A i \in DOMAIN rows' : rows'[i].until <= clock' + Duration
    BY <2>1, <2>5, <2>6
  <2>8. ASSUME NEW i \in DOMAIN rows', NEW j \in DOMAIN rows',
               rows'[i].action = "mute", rows'[j].action = "mute", i <= j
        PROVE  rows'[i].until <= rows'[j].until
    <3>1. CASE i \in DOMAIN rows /\ j \in DOMAIN rows
      BY <2>5, <2>8, <3>1 DEF RowsInv
    <3>2. CASE j = m
      BY <2>1, <2>4, <2>5, <2>7, <2>8, <3>2
    <3>3. CASE i = m /\ j \in DOMAIN rows
      BY <2>5, <2>6, <2>8, <3>3
    <3> QED
      BY <2>5, <3>1, <3>2, <3>3
  <2>9. ASSUME NEW d \in Channels, NEW k \in Keys, Mutes(d, k)' # {}
        PROVE  \E i \in Mutes(d, k)' : i \in Mutes(d, k)' /\ \A j \in Mutes(d, k)' : j <= i
    <3>1. Mutes(d, k) \subseteq DOMAIN rows
      BY DEF Mutes
    <3>2. CASE Mutes(d, k)' = Mutes(d, k)
      BY <2>9, <3>2 DEF RowsInv, LastMute
    <3>3. CASE Mutes(d, k)' = Mutes(d, k) \cup {m}
      BY <2>5, <2>6, <3>1, <3>3
    <3> QED
      BY <2>5, <3>2, <3>3
  <2> QED
    BY <2>7, <2>8, <2>9 DEF RowsInv, LastMute
<1> QED
  BY <1>1, <1>2 DEF Outcome

LEMMA OtherRows ==
  ASSUME ModTypes, RowsInv,
         \/ set_casefold \/ Restart \/ Elsewhere
         \/ \E p \in Persons, n \in Nicks : Rename(p, n)
  PROVE  RowsInv'
<1>1. rows' = rows /\ clock' \in {clock, clock + 1}
  BY ElsewhereFrame DEF set_casefold, Restart, Forget, Rename, database
<1> QED
  BY <1>1, SameRows

LEMMA Memory ==
  ASSUME StoreInv, store, network = "rfc1459", ~moved
  PROVE  /\ \A x : x \in banned <=>
              \E i \in DOMAIN rows : rows[i].action = "ban"
                /\ x = <<rows[i].channel, Fold["rfc1459"][rows[i].nick]>>
         /\ \A c \in Channels, k \in Keys :
              /\ \A i \in Mutes(c, k) : LastMute(c, k, i) /\ rows[i].until > clock =>
                   muted[c][k] = rows[i].until
              /\ muted[c][k] > clock => \E i \in Mutes(c, k) : rows[i].until = muted[c][k]
BY DEF StoreInv, Restored

\* A line that is judged is recorded as it is remembered.
LEMMA JudgedStore ==
  ASSUME ModTypes, RowsInv, StoreInv,
         NEW c \in Channels, NEW n \in Nicks, NEW action \in Actions \cup {"none"},
         NEW warned, NEW s, NEW until, Outcome(c, n, action, warned, s, until)
  PROVE  StoreInv'
<1> DEFINE key == Key(n)
           m == Len(rows) + 1
           end == IF action = "mute" THEN clock + Duration ELSE 0
<1>0. UNCHANGED <<configuration, moved, clock>>
  BY DEF Outcome
<1> SUFFICES ASSUME store, network = "rfc1459", ~moved
             PROVE  /\ banned' = Restored("rfc1459").banned'
                    /\ \A d \in Channels, k \in Keys :
                         /\ \A i \in Mutes(d, k)' : (\A j \in Mutes(d, k)' : j <= i) /\ rows'[i].until > clock =>
                              muted'[d][k] = rows'[i].until
                         /\ muted'[d][k] > clock => \E i \in Mutes(d, k)' : rows'[i].until = muted'[d][k]
  BY <1>0 DEF StoreInv, configuration, LastMute
<1>1. /\ muted' = [muted EXCEPT ![c][key] = until]
      /\ banned' = IF action = "ban" THEN banned \cup {<<c, key>>} ELSE banned
      /\ action = "none" => rows' = rows
      /\ action # "none" =>
           rows' = Append(rows, [action |-> action, nick |-> n, channel |-> c, until |-> end])
      /\ IF action = "mute" THEN until = clock + Duration
         ELSE until = muted[c][key] \/ (until = 0 /\ muted[c][key] <= clock)
  BY DEF Outcome
<1>2. key \in Keys /\ key = Fold["rfc1459"][n]
  BY KeyOfNick DEF Key
<1>3. clock \in Nat /\ Duration \in Nat \ {0} /\ end \in Nat /\ (action = "mute" => end = clock + Duration)
  BY ModerationAssumption DEF ModTypes
<1>4. /\ DOMAIN rows \subseteq Nat /\ m \in Nat
      /\ \A i \in DOMAIN rows : rows[i].until \in Nat
  BY RowTypes
<1>5. /\ \A x : x \in banned <=>
           \E i \in DOMAIN rows : rows[i].action = "ban"
             /\ x = <<rows[i].channel, Fold["rfc1459"][rows[i].nick]>>
      /\ \A d \in Channels, k \in Keys :
           /\ \A i \in Mutes(d, k) : LastMute(d, k, i) /\ rows[i].until > clock =>
                muted[d][k] = rows[i].until
           /\ muted[d][k] > clock => \E i \in Mutes(d, k) : rows[i].until = muted[d][k]
  BY Memory
<1>6. /\ muted'[c][key] = until
      /\ \A d \in Channels, k \in Keys : d # c \/ k # key => muted'[d][k] = muted[d][k]
  BY <1>1, <1>2 DEF ModTypes
<1>7. \A d \in Channels, k \in Keys : muted[d][k] \in Nat
  BY DEF ModTypes
<1>8. /\ action # "none" =>
           /\ DOMAIN rows' = DOMAIN rows \cup {m} /\ m \notin DOMAIN rows
           /\ \A i \in DOMAIN rows : rows'[i] = rows[i] /\ i < m
           /\ rows'[m] = [action |-> action, nick |-> n, channel |-> c, until |-> end]
           /\ \A d \in Channels, k \in Keys :
                Mutes(d, k)' = Mutes(d, k) \cup
                  (IF action = "mute" /\ d = c /\ k = Fold["rfc1459"][n] THEN {m} ELSE {})
      /\ action = "none" => DOMAIN rows' = DOMAIN rows
                            /\ \A d \in Channels, k \in Keys : Mutes(d, k)' = Mutes(d, k)
  <2>1. CASE action # "none"
    <3>1. action \in Actions
      BY <2>1
    <3>2. rows' = Append(rows, [action |-> action, nick |-> n, channel |-> c, until |-> end])
      BY <1>1, <2>1
    <3> QED
      BY <1>3, <2>1, <3>1, <3>2, AppendedMute
  <2>2. CASE action = "none"
    BY <1>1, <2>2 DEF Mutes
  <2> QED
    BY <2>1, <2>2
<1> HIDE DEF key, m, end
<1>9. banned' = Restored("rfc1459").banned'
  <2> DEFINE of(r) == <<r.channel, Fold["rfc1459"][r.nick]>>
  <2>1. \A x : x \in banned' <=> \E i \in DOMAIN rows' : rows'[i].action = "ban" /\ x = of(rows'[i])
    <3>1. CASE action = "none"
      BY <1>1, <1>5, <3>1
    <3>2. CASE action # "none"
      <4>1. rows'[m].action = action /\ of(rows'[m]) = <<c, key>>
        BY <1>2, <1>8, <3>2
      <4>2. /\ DOMAIN rows' = DOMAIN rows \cup {m} /\ m \notin DOMAIN rows
            /\ \A i \in DOMAIN rows : rows'[i] = rows[i]
        BY <1>8, <3>2
      <4>3. \A x : x \in banned <=> \E i \in DOMAIN rows : rows[i].action = "ban" /\ x = of(rows[i])
        BY <1>5
      <4> HIDE DEF of
      <4> QED
        BY <1>1, <4>1, <4>2, <4>3
    <3> QED
      BY <3>1, <3>2
  <2>2. Restored("rfc1459").banned' = {of(rows'[i]) : i \in {j \in DOMAIN rows' : rows'[j].action = "ban"}}
    BY DEF Restored
  <2> HIDE DEF of
  <2> QED
    BY <2>1, <2>2
<1>10. ASSUME NEW d \in Channels, NEW k \in Keys
       PROVE  /\ \A i \in Mutes(d, k)' : (\A j \in Mutes(d, k)' : j <= i) /\ rows'[i].until > clock =>
                   muted'[d][k] = rows'[i].until
              /\ muted'[d][k] > clock => \E i \in Mutes(d, k)' : rows'[i].until = muted'[d][k]
  <2>1. Mutes(d, k) \subseteq DOMAIN rows /\ \A i \in Mutes(d, k) : rows'[i] = rows[i]
    <3>1. Mutes(d, k) \subseteq DOMAIN rows
      BY DEF Mutes
    <3> QED
      BY <1>1, <1>8, <3>1
  <2>2. /\ \A i \in Mutes(d, k) : (\A j \in Mutes(d, k) : j <= i) /\ rows[i].until > clock =>
             muted[d][k] = rows[i].until
        /\ muted[d][k] > clock => \E i \in Mutes(d, k) : rows[i].until = muted[d][k]
    BY <1>5 DEF LastMute
  <2>3. CASE action = "mute" /\ d = c /\ k = key
    <3>1. Mutes(d, k)' = Mutes(d, k) \cup {m} /\ \A i \in Mutes(d, k) : i < m
      BY <1>2, <1>8, <2>1, <2>3
    <3>2. rows'[m].until = clock + Duration /\ muted'[d][k] = clock + Duration
      BY <1>1, <1>3, <1>6, <1>8, <2>3
    <3>3. ASSUME NEW i \in Mutes(d, k)', \A j \in Mutes(d, k)' : j <= i PROVE i = m
      <4>1. m <= i
        BY <3>1, <3>3
      <4>2. i \in Mutes(d, k) => i < m /\ i \in Nat
        BY <1>4, <2>1, <3>1
      <4>3. i \in Mutes(d, k) \/ i = m
        BY <3>1, <3>3
      <4>4. m \in Nat
        BY <1>4
      <4> QED
        BY <4>1, <4>2, <4>3, <4>4
    <3> QED
      BY <3>1, <3>2, <3>3
  <2>4. CASE ~(action = "mute" /\ d = c /\ k = key)
    <3>1. Mutes(d, k)' = Mutes(d, k)
      <4>1. CASE action = "none"
        BY <1>8, <4>1
      <4>2. CASE action # "none"
        <5>1. Mutes(d, k)' = Mutes(d, k) \cup
                (IF action = "mute" /\ d = c /\ k = Fold["rfc1459"][n] THEN {m} ELSE {})
          BY <1>8, <4>2
        <5>2. ~(action = "mute" /\ d = c /\ k = Fold["rfc1459"][n])
          BY <1>2, <2>4
        <5> QED
          BY <5>1, <5>2
      <4> QED
        BY <4>1, <4>2
    <3>2. muted'[d][k] = muted[d][k] \/ (muted'[d][k] = 0 /\ muted[d][k] <= clock)
      BY <1>1, <1>6, <2>4
    <3>3. muted[d][k] \in Nat /\ clock \in Nat /\ \A i \in Mutes(d, k) : rows[i].until \in Nat
      BY <1>3, <1>4, <1>7, <2>1
    <3>4. CASE muted'[d][k] = muted[d][k]
      BY <2>1, <2>2, <3>1, <3>4
    <3>5. CASE muted'[d][k] = 0 /\ muted[d][k] <= clock
      BY <2>1, <2>2, <3>1, <3>3, <3>5
    <3> QED
      BY <3>2, <3>4, <3>5
  <2> QED
    BY <2>3, <2>4
<1> QED
  BY <1>9, <1>10

\* What is restored from the rows is what the rows say.
LEMMA LoadStore ==
  ASSUME ModTypes, RowsInv, set_casefold \/ Restart
  PROVE  StoreInv'
<1>1. /\ rows' = rows /\ clock' = clock
      /\ muted' = Restored("rfc1459").muted /\ banned' = Restored("rfc1459").banned
  BY DEF set_casefold, Restart, Forget, _restore_active_actions, database
<1>2. Restored("rfc1459").banned' = Restored("rfc1459").banned
  BY <1>1 DEF Restored
<1>3. \A c \in Channels, k \in Keys : Mutes(c, k)' = Mutes(c, k)
  BY <1>1 DEF Mutes
<1>4. ASSUME NEW c \in Channels, NEW k \in Keys
      PROVE  /\ \A i \in Mutes(c, k) : (\A j \in Mutes(c, k) : j <= i) /\ rows[i].until > clock =>
                  muted'[c][k] = rows[i].until
             /\ muted'[c][k] > clock => \E i \in Mutes(c, k) : rows[i].until = muted'[c][k]
  <2> DEFINE u == Restored("rfc1459").muted[c][k]
  <2>1. \/ u = 0 /\ \A i \in Mutes(c, k) : rows[i].until <= clock
        \/ \E i \in Mutes(c, k) : LastMute(c, k, i) /\ rows[i].until > clock /\ u = rows[i].until
    BY RestoredMute
  <2>2. /\ clock \in Nat /\ Mutes(c, k) \subseteq Nat
        /\ \A i \in Mutes(c, k) : rows[i].until \in Nat
    BY RowTypes DEF ModTypes, Mutes
  <2>3. muted'[c][k] = u
    BY <1>1
  <2> HIDE DEF u
  <2>4. CASE u = 0 /\ \A i \in Mutes(c, k) : rows[i].until <= clock
    BY <2>2, <2>3, <2>4
  <2>5. ASSUME NEW m \in Mutes(c, k), LastMute(c, k, m), u = rows[m].until
        PROVE  /\ \A i \in Mutes(c, k) : (\A j \in Mutes(c, k) : j <= i) => muted'[c][k] = rows[i].until
               /\ \E i \in Mutes(c, k) : rows[i].until = muted'[c][k]
    <3>1. \A i \in Mutes(c, k) : (\A j \in Mutes(c, k) : j <= i) => i = m
      BY <2>2, <2>5 DEF LastMute
    <3> QED
      BY <2>3, <2>5, <3>1
  <2> QED
    BY <2>1, <2>4, <2>5
<1> QED
  BY <1>1, <1>2, <1>3, <1>4 DEF StoreInv, LastMute

\* A mute that ends, and a rename that moves nothing.
LEMMA OtherStore ==
  ASSUME ModTypes, StoreInv,
         Elsewhere \/ \E p \in Persons, n \in Nicks : Rename(p, n)
  PROVE  StoreInv'
<1>1. /\ UNCHANGED <<rows, store, network>> /\ clock' \in {clock, clock + 1}
      /\ ~moved' => ~moved /\ UNCHANGED <<muted, banned>>
  <2>1. CASE Elsewhere
    BY <2>1, ElsewhereFrame DEF configuration, memory, history
  <2>2. ASSUME NEW p \in Persons, NEW n \in Nicks, Rename(p, n)
        PROVE  /\ UNCHANGED <<rows, store, network, clock>>
               /\ ~moved' => ~moved /\ UNCHANGED <<muted, banned>>
    <3>1. moved' = (moved \/ (<<muted, banned>>)' # <<muted, banned>>)
      BY <2>2 DEF Rename
    <3>2. ~moved' => ~moved /\ <<muted', banned'>> = <<muted, banned>>
      BY <3>1, Zenon
    <3> QED
      BY <2>2, <3>2 DEF Rename, database, configuration
  <2> QED
    BY <2>1, <2>2
<1> SUFFICES ASSUME store, network = "rfc1459", ~moved, muted' = muted, banned' = banned
             PROVE  /\ banned' = Restored("rfc1459").banned'
                    /\ \A c \in Channels, k \in Keys :
                         /\ \A i \in Mutes(c, k)' : (\A j \in Mutes(c, k)' : j <= i) /\ rows'[i].until > clock' =>
                              muted'[c][k] = rows'[i].until
                         /\ muted'[c][k] > clock' => \E i \in Mutes(c, k)' : rows'[i].until = muted'[c][k]
  BY <1>1 DEF StoreInv, LastMute
<1>2. banned' = Restored("rfc1459").banned'
  <2>1. banned = Restored("rfc1459").banned
    BY DEF StoreInv
  <2> QED
    BY <1>1, <2>1 DEF Restored
<1>3. ASSUME NEW c \in Channels, NEW k \in Keys
      PROVE  /\ \A i \in Mutes(c, k)' : (\A j \in Mutes(c, k)' : j <= i) /\ rows'[i].until > clock' =>
                  muted'[c][k] = rows'[i].until
             /\ muted'[c][k] > clock' => \E i \in Mutes(c, k)' : rows'[i].until = muted'[c][k]
  <2>1. Mutes(c, k)' = Mutes(c, k)
    BY <1>1 DEF Mutes
  <2>2. /\ \A i \in Mutes(c, k) : (\A j \in Mutes(c, k) : j <= i) /\ rows[i].until > clock =>
             muted[c][k] = rows[i].until
        /\ muted[c][k] > clock => \E i \in Mutes(c, k) : rows[i].until = muted[c][k]
    BY Memory DEF LastMute
  <2>3. /\ muted[c][k] \in Nat /\ clock \in Nat
        /\ \A i \in Mutes(c, k) : rows[i].until \in Nat
    BY RowTypes DEF ModTypes, Mutes
  <2> QED
    BY <1>1, <2>1, <2>2, <2>3
<1> QED
  BY <1>2, <1>3

-----------------------------------------------------------------------------
(* The theorems.                                                           *)

LEMMA NextRules == RulesInv /\ [Next]_vars => RulesInv'
BY DEF RulesInv, Next, _moderate_message, Say, Rename, set_casefold, Restart, Forget, settings, database,
       modrule, EditRule, _refresh_rules, modset, EditSetting, _refresh_settings, Tick, vars

LEMMA NextMod == ModInv /\ [Next]_vars => ModInv'
<1> SUFFICES ASSUME ModInv, [Next]_vars PROVE ModInv'
  OBVIOUS
<1>1. ModTypes /\ BanInv /\ WarnInv /\ RowsInv /\ StoreInv /\ RulesInv
  BY DEF ModInv
<1>2. RulesInv'
  BY <1>1, NextRules
<1>3. store' = store
  BY DEF Next, _moderate_message, Say, Rename, set_casefold, Restart, Forget, configuration,
         modrule, EditRule, modset, EditSetting, Tick, vars
<1>4. CASE _moderate_message
  <2>0. PICK c \in Channels, n \in Nicks, action \in Actions \cup {"none"}, warned \in BOOLEAN :
          \E s, until : Outcome(c, n, action, warned, s, until)
    BY <1>1, <1>4, JudgedLine
  <2>1. PICK s, until : Outcome(c, n, action, warned, s, until)
    BY <2>0
  <2>2. ModTypes' /\ BanInv' /\ RowsInv' /\ StoreInv'
    BY <1>1, <2>1, JudgedTypes, JudgedBan, JudgedRows, JudgedStore
  <2>3. WarnInv'
    <3>1. CASE ~store
      BY <1>1, <2>1, <3>1, JudgedWarn
    <3>2. CASE store
      BY <1>3, <3>2 DEF WarnInv
    <3> QED
      BY <3>1, <3>2
  <2> QED
    BY <1>2, <2>2, <2>3 DEF ModInv
<1>5. ASSUME NEW p \in Persons, NEW n \in Nicks, Rename(p, n) PROVE ModInv'
  <2>1. ModTypes' /\ BanInv' /\ RowsInv' /\ StoreInv'
    BY <1>1, <1>5, RenameTypes, RenameBan, OtherRows, OtherStore
  <2>2. WarnInv'
    <3>1. CASE ~store
      BY <1>1, <1>5, <3>1, RenameWarn
    <3>2. CASE store
      BY <1>3, <3>2 DEF WarnInv
    <3> QED
      BY <3>1, <3>2
  <2> QED
    BY <1>2, <2>1, <2>2 DEF ModInv
<1>6. CASE set_casefold \/ Restart \/ Elsewhere
  <2>1. ModTypes' /\ BanInv' /\ RowsInv' /\ StoreInv'
    BY <1>1, <1>6, LoadTypes, ElsewhereTypes, OtherBan, OtherRows, LoadStore, OtherStore
  <2>2. WarnInv'
    <3>1. CASE ~store
      BY <1>1, <1>6, <3>1, OtherWarn
    <3>2. CASE store
      BY <1>3, <3>2 DEF WarnInv
    <3> QED
      BY <3>1, <3>2
  <2> QED
    BY <1>2, <2>1, <2>2 DEF ModInv
<1> QED
  BY <1>4, <1>5, <1>6 DEF Next, Elsewhere

(***************************************************************************)
(* For any people, nicks, foldings, channels and thresholds, and any order *)
(* of lines, renames, restarts and new connections: whom the bot has       *)
(* banned stays banned under every nick that follows (rename_user()).      *)
(***************************************************************************)
THEOREM BansFollow == Spec => []BanFollowsPerson
<1>1. ModInv => BanFollowsPerson
  <2> SUFFICES ASSUME ModInv, NEW b \in caught PROVE <<b[1], Key(nick[b[2]])>> \in banned
    BY DEF BanFollowsPerson
  <2>1. b \in Channels \X Persons
    BY DEF ModInv, BanInv
  <2>2. b = <<b[1], b[2]>> /\ b[1] \in Channels /\ b[2] \in Persons
    BY <2>1
  <2> QED
    BY <2>2 DEF ModInv, BanInv
<1> QED
  BY InitMod, NextMod, <1>1, PTL DEF Spec

(***************************************************************************)
(* Under the same conditions, without a store: who was to be warned to_ban *)
(* times is banned, whatever he was called at each of them                 *)
(* (apply_action()).                                                       *)
(***************************************************************************)
THEOREM WarningsReachBan == Spec => []EscalationReachesBan
<1>1. ModInv => EscalationReachesBan
  <2> SUFFICES ASSUME ModInv, ~store, NEW c \in Channels, NEW p \in Persons, offences[c][p] >= ToBan
               PROVE  <<c, Key(nick[p])>> \in banned
    BY DEF EscalationReachesBan
  <2>1. Key(nick[p]) \in Keys /\ offences[c][p] \in Nat /\ ToBan \in Nat
    BY KeyOfNick, ModerationAssumption DEF ModInv, ModTypes
  <2>2. /\ Counted(status[c][Key(nick[p])]) \in Nat
        /\ Counted(status[c][Key(nick[p])]) >= ToBan => <<c, Key(nick[p])>> \in banned
        /\ <<c, Key(nick[p])>> \in banned \/ offences[c][p] <= Counted(status[c][Key(nick[p])])
    BY <2>1 DEF ModInv, WarnInv
  <2> QED
    BY <2>1, <2>2
<1> QED
  BY InitMod, NextMod, <1>1, PTL DEF Spec

(***************************************************************************)
(* For any number of lines and rows, under the folding that the manager    *)
(* begins with: a restart restores what the memory has, unless a punished  *)
(* nick was changed since (_restore_active_actions(), apply_action()).     *)
(***************************************************************************)
THEOREM RestartsChangeNothing == Spec => []RestartChangesNothing
<1>1. ModInv => RestartChangesNothing
  <2> SUFFICES ASSUME ModInv PROVE RestartChangesNothing
    OBVIOUS
  <2>1. RulesInv /\ ModTypes /\ RowsInv /\ StoreInv
    BY DEF ModInv
  <2>2. ASSUME store, network = "rfc1459", ~moved, NEW c \in Channels, NEW k \in Keys
        PROVE  LET until == Restored("rfc1459").muted[c][k] IN
               muted[c][k] = until \/ (until = 0 /\ muted[c][k] <= clock)
    <3> DEFINE u == Restored("rfc1459").muted[c][k]
    <3>1. \/ u = 0 /\ \A i \in Mutes(c, k) : rows[i].until <= clock
          \/ \E i \in Mutes(c, k) : LastMute(c, k, i) /\ rows[i].until > clock /\ u = rows[i].until
      BY <2>1, RestoredMute
    <3>2. /\ \A i \in Mutes(c, k) : LastMute(c, k, i) /\ rows[i].until > clock =>
               muted[c][k] = rows[i].until
          /\ muted[c][k] > clock => \E i \in Mutes(c, k) : rows[i].until = muted[c][k]
      BY <2>1, <2>2, Memory
    <3>3. muted[c][k] \in Nat /\ clock \in Nat
      BY <2>1 DEF ModTypes
    <3> HIDE DEF u
    <3>4. muted[c][k] = u \/ (u = 0 /\ muted[c][k] <= clock)
      BY <3>1, <3>2, <3>3
    <3> QED
      BY <3>4 DEF u
  <2>3. store /\ network = "rfc1459" /\ ~moved => banned = Restored("rfc1459").banned
    BY <2>1 DEF StoreInv
  <2> QED
    BY <2>1, <2>2, <2>3 DEF RestartChangesNothing, RulesInv
<1> QED
  BY InitMod, NextMod, <1>1, PTL DEF Spec

-----------------------------------------------------------------------------
(* The announcer of feeds.                                                 *)

Fates == {"new", "early", "passed", "announced", "repeated"}
Steps == {"none", "fetch", "parse", "notify", "hung", "save"}
Tags == Int
Polls == [step : Steps, asked : Tags, got : Tags, rest : SUBSET Entries]
Places == {"off", "lock", "polling", "resting", "dead"}

\* The types that the rest needs; of the places in seen_ids, nothing.
Shapes ==
  /\ published \in Tags
  /\ DOMAIN state = {"etag", "seen"} /\ DOMAIN stored = {"etag", "seen"}
  /\ state.etag \in Tags /\ stored.etag \in Tags
  /\ DOMAIN state.seen \subseteq Entries /\ DOMAIN stored.seen \subseteq Entries
  /\ at \in [Callers -> Places]
  /\ poll \in [Callers -> Polls]
  /\ fate \in [Entries -> Fates]

\* Who has entries to announce is announcing; who waits has no poll.
Phases ==
  \A c \in Callers :
    /\ poll[c].step \notin {"notify", "hung"} => poll[c].rest = {}
    /\ at[c] \in {"lock", "resting"} => poll[c].step = "none"

\* What is announced and not in seen_ids has been forgotten.
Silent ==
  \A e \in Entries : fate[e] = "announced" => e \in DOMAIN state.seen \cup forgotten

\* What is still to announce is in seen_ids, is no other poll's and was not
\* announced before, unless it has been forgotten.
Pendings ==
  \A c \in Callers : \A e \in poll[c].rest \ forgotten :
    /\ e \in DOMAIN state.seen
    /\ fate[e] # "announced"
    /\ \A d \in Callers \ {c} : e \notin poll[d].rest

\* What is in seen_ids and has no fate yet is being announced.
Awaited ==
  \A e \in DOMAIN state.seen : fate[e] = "new" => \E c \in Callers : e \in poll[c].rest

FeedInv == Shapes /\ Phases /\ Silent /\ Pendings /\ Awaited /\ SavedWasHandled /\ AnnouncedOnce

LEMMA NoPollIsOne == NoPoll \in Polls
BY DEF NoPoll, Polls, Steps, Tags

\* A poll with these to announce
LEMMA AnnouncingPoll ==
  ASSUME NEW S \in SUBSET Entries
  PROVE  /\ Announcing(S) \in Polls
         /\ Announcing(S).rest = S /\ Announcing(S).step = IF S = {} THEN "save" ELSE "notify"
BY DEF Announcing, Polls, Steps, Tags

LEMMA InitFeed == FeedInit => FeedInv
<1> SUFFICES ASSUME FeedInit PROVE FeedInv
  OBVIOUS
<1> USE DEF FeedInit
<1>1. DOMAIN state.seen = {} /\ DOMAIN stored.seen = {}
  BY DEF Nothing
<1>2. Shapes
  BY <1>1, NoPollIsOne DEF Shapes, Tags, Places, Fates, Nothing
<1>3. Phases /\ Pendings
  BY DEF Phases, Pendings, NoPoll
<1>4. Silent /\ Awaited /\ SavedWasHandled /\ AnnouncedOnce
  BY <1>1 DEF Silent, Awaited, SavedWasHandled, AnnouncedOnce
<1> QED
  BY <1>2, <1>3, <1>4 DEF FeedInv

-----------------------------------------------------------------------------
(* What the operators of FeedEngine do.                                    *)

\* Fate() decides only what is undecided, and all of that in S.
LEMMA FateDecides ==
  ASSUME fate \in [Entries -> Fates], NEW S, NEW f \in Fates
  PROVE  /\ Fate(S, f) \in [Entries -> Fates]
         /\ \A e \in Entries : \/ Fate(S, f)[e] = fate[e] /\ (e \in S => fate[e] \notin {"new", "early"})
                               \/ /\ Fate(S, f)[e] = f
                                  /\ e \in S /\ fate[e] \in {"new", "early"}
BY DEF Fate, Fates

\* seen_ids gets no other ids than the feed's.
LEMMA MergedIds ==
  ASSUME NEW ids
  PROVE  DOMAIN Merged(ids) \subseteq ids \cup DOMAIN state.seen
BY DEF Merged, Restrict

LEMMA ShownEntries ==
  ASSUME NEW n PROVE Shown(n) \subseteq Entries
BY DEF Shown

-----------------------------------------------------------------------------
(* The steps that announce nothing and leave seen_ids alone: entries are    *)
(* dropped from a poll only with a fate.                                   *)

Later(S, f) == f \in Fates \ {"announced", "repeated", "new"} /\ fate' = Fate(S, f)

Dropped ==
  \A c \in Callers :
    /\ poll'[c].rest \subseteq poll[c].rest
    /\ \A e \in poll[c].rest \ poll'[c].rest : fate'[e] # "new"

LEMMA QuietFates ==
  ASSUME Shapes, fate' = fate \/ \E S, f : Later(S, f)
  PROVE  /\ fate' \in [Entries -> Fates]
         /\ \A e \in Entries : /\ fate'[e] \in {"announced", "repeated", "new"} => fate'[e] = fate[e]
                               /\ fate[e] # "new" => fate'[e] # "new"
<1>1. CASE fate' = fate
  BY <1>1 DEF Shapes
<1>2. ASSUME NEW S, NEW f, Later(S, f)
      PROVE  /\ fate' \in [Entries -> Fates]
             /\ \A e \in Entries : /\ fate'[e] \in {"announced", "repeated", "new"} => fate'[e] = fate[e]
                                   /\ fate[e] # "new" => fate'[e] # "new"
  BY <1>2, FateDecides DEF Later, Shapes
<1> QED
  BY <1>1, <1>2

LEMMA QuietStep ==
  ASSUME FeedInv, fate' = fate \/ \E S, f : Later(S, f), Dropped,
         state'.seen = state.seen, forgotten' = forgotten
  PROVE  Silent' /\ Pendings' /\ Awaited' /\ AnnouncedOnce'
<1> USE DEF FeedInv
<1>1. \A e \in Entries : /\ fate'[e] \in {"announced", "repeated", "new"} => fate'[e] = fate[e]
                         /\ fate[e] # "new" => fate'[e] # "new"
  BY QuietFates
<1>2. Silent' /\ AnnouncedOnce'
  BY <1>1 DEF Silent, AnnouncedOnce
<1>3. \A c \in Callers : poll[c].rest \subseteq Entries
  BY DEF Shapes, Polls
<1>4. Pendings'
  BY <1>1, <1>3 DEF Pendings, Dropped
<1>5. Awaited'
  BY <1>1, <1>3 DEF Awaited, Dropped, Shapes
<1> QED
  BY <1>2, <1>4, <1>5

LEMMA KeptSaved ==
  ASSUME FeedInv, fate' = fate \/ \E S, f : Later(S, f), stored' = stored
  PROVE  SavedWasHandled'
BY QuietFates DEF FeedInv, SavedWasHandled, Shapes

\* What becomes of a caller: after a poll, or without it.
LEMMA OverShapes ==
  ASSUME FeedInv, NEW c \in Callers, NEW raised \in BOOLEAN, Over(c, raised)
  PROVE  /\ at' \in [Callers -> Places]
         /\ poll' \in [Callers -> Polls]
         /\ Phases'
         /\ poll[c].rest = {} => Dropped
<1> USE DEF FeedInv, Shapes, Over
<1>1. NoPoll \in Polls
  BY NoPollIsOne
<1>2. After(c, raised) \in {"off", "dead", "resting"}
  BY DEF After
<1>3. at' \in [Callers -> Places] /\ \A d \in Callers \ {c} : at'[d] = at[d]
  BY <1>2 DEF Places
<1>4. poll'[c] = NoPoll /\ \A d \in Callers \ {c} : poll'[d] = poll[d]
  OBVIOUS
<1>5. poll' \in [Callers -> Polls]
  BY <1>1
<1>6. Phases'
  BY <1>3, <1>4 DEF Phases, NoPoll
<1>7. poll[c].rest = {} => Dropped
  BY <1>4 DEF Dropped, NoPoll
<1> QED
  BY <1>3, <1>5, <1>6, <1>7

\* A save: what another poll has still to announce gets its fate with it.
LEMMA StoreSaves ==
  ASSUME FeedInv, NEW c \in Callers, StoreState(c), poll[c].rest = {}
  PROVE  (\E S, f : Later(S, f)) /\ SavedWasHandled'
<1> USE DEF FeedInv
<1>1. Later(Pending(c), "early")
  BY DEF StoreState, Later, Fates
<1>2. fate \in [Entries -> Fates] /\ "early" \in Fates
  BY DEF Shapes, Fates
<1>3. \A e \in Entries : e \in Pending(c) => fate'[e] # "new"
  BY <1>2, FateDecides DEF StoreState
<1>4. \A e \in DOMAIN state.seen : e \in Entries /\ (fate[e] = "new" => e \in Pending(c))
  BY DEF Awaited, Pending, Shapes
<1>5. \A e \in DOMAIN state.seen : fate'[e] # "new"
  BY <1>1, <1>3, <1>4, QuietFates
<1> QED
  BY <1>1, <1>5 DEF StoreState, SavedWasHandled

-----------------------------------------------------------------------------
(* The steps, one by one.                                                  *)

\* _run(), poll_now() and the author.
LEMMA CallerSteps ==
  ASSUME FeedInv,
         \/ Publish \/ Rest \/ Request
         \/ \E c \in Callers : Acquire(c) \/ OthersFail(c) \/ Hang(c)
  PROVE  FeedInv'
<1> USE DEF FeedInv
<1>1. state' = state /\ stored' = stored /\ fate' = fate /\ forgotten' = forgotten
  BY DEF Publish, Rest, Request, Acquire, OthersFail, Hang, known, callers, fates
<1>2. published' \in Tags
  <2>1. CASE Publish
    BY <2>1 DEF Publish, Shapes, Tags
  <2>2. CASE published' = published
    BY <2>2 DEF Shapes
  <2> QED
    BY <2>1, <2>2 DEF Rest, Request, Acquire, OthersFail, Hang
<1>3. /\ at' \in [Callers -> Places]
      /\ poll' \in [Callers -> Polls]
      /\ Phases' /\ Dropped
  <2>1. CASE Publish
    BY <2>1 DEF Publish, callers, Shapes, Phases, Dropped
  <2>2. CASE Rest
    BY <2>2 DEF Rest, Shapes, Phases, Dropped, Callers, Places
  <2>3. CASE Request
    BY <2>3 DEF Request, Shapes, Phases, Dropped, Callers, Places
  <2>4. ASSUME NEW c \in Callers, Acquire(c)
        PROVE  /\ at' \in [Callers -> Places]
               /\ poll' \in [Callers -> Polls]
               /\ Phases' /\ Dropped
    <3>1. poll[c].rest = {}
      BY <2>4 DEF Acquire, Phases
    <3>2. /\ poll'[c] = [step |-> "fetch", asked |-> state.etag, got |-> 0, rest |-> {}]
          /\ \A d \in Callers \ {c} : poll'[d] = poll[d]
      BY <2>4 DEF Acquire, Shapes, NoPoll
    <3>3. poll' \in [Callers -> Polls]
      <4>1. [step |-> "fetch", asked |-> state.etag, got |-> 0, rest |-> {}] \in Polls
        BY DEF Shapes, Polls, Steps, Tags
      <4> QED
        BY <2>4, <4>1 DEF Acquire, Shapes, NoPoll
    <3>4. at' \in [Callers -> Places] /\ at'[c] = "polling" /\ \A d \in Callers \ {c} : at'[d] = at[d]
      BY <2>4 DEF Acquire, Shapes, Places
    <3> QED
      BY <3>1, <3>2, <3>3, <3>4 DEF Phases, Dropped
  <2>5. ASSUME NEW c \in Callers, OthersFail(c)
        PROVE  /\ at' \in [Callers -> Places]
               /\ poll' \in [Callers -> Polls]
               /\ Phases' /\ Dropped
    <3>1. After(c, TRUE) \in {"off", "dead"}
      BY DEF After
    <3>2. at' \in [Callers -> Places] /\ at'[c] \in {"off", "dead"} /\ \A d \in Callers \ {c} : at'[d] = at[d]
      BY <2>5, <3>1 DEF OthersFail, Shapes, Places
    <3> QED
      BY <2>5, <3>2 DEF OthersFail, Shapes, Phases, Dropped
  <2>6. ASSUME NEW c \in Callers, Hang(c)
        PROVE  /\ at' \in [Callers -> Places]
               /\ poll' \in [Callers -> Polls]
               /\ Phases' /\ Dropped
    <3>1. /\ poll'[c].rest = poll[c].rest /\ poll'[c].step = "hung"
          /\ \A d \in Callers \ {c} : poll'[d] = poll[d]
      BY <2>6 DEF Hang, Shapes, Polls
    <3>2. poll' \in [Callers -> Polls]
      <4>1. poll[c] \in Polls /\ "hung" \in Steps
        BY DEF Shapes, Steps
      <4>2. [poll[c] EXCEPT !.step = "hung"] \in Polls
        BY <4>1 DEF Polls
      <4> QED
        BY <2>6, <4>2 DEF Hang, Shapes
    <3>3. at[c] \notin {"lock", "resting"}
      BY <2>6 DEF Hang, Phases
    <3> QED
      BY <2>6, <3>1, <3>2, <3>3 DEF Hang, Shapes, Phases, Dropped
  <2> QED
    BY <2>1, <2>2, <2>3, <2>4, <2>5, <2>6
<1>4. Shapes'
  BY <1>1, <1>2, <1>3 DEF Shapes
<1>5. Silent' /\ Pendings' /\ Awaited' /\ AnnouncedOnce'
  BY <1>1, <1>3, QuietStep
<1>6. SavedWasHandled'
  BY <1>1, KeptSaved
<1> QED
  BY <1>3, <1>4, <1>5, <1>6
\* A poll that ends before it has parsed anything, or in its save.
LEMMA EndOfPoll ==
  ASSUME FeedInv, NEW c \in Callers, FetchFails(c) \/ NotModified(c) \/ Save(c) \/ SaveFails(c)
  PROVE  FeedInv'
<1> USE DEF FeedInv
<1>1. poll[c].rest = {}
  BY DEF FetchFails, NotModified, Save, SaveFails, Phases
<1>2. PICK raised \in BOOLEAN : Over(c, raised)
  BY DEF FetchFails, NotModified, Save, SaveFails
<1>3. /\ at' \in [Callers -> Places] /\ poll' \in [Callers -> Polls]
      /\ Phases' /\ Dropped
  BY <1>1, <1>2, OverShapes
<1>4. published' = published /\ state' = state /\ forgotten' = forgotten
  BY DEF FetchFails, NotModified, Save, SaveFails, known, fates
<1>5. /\ stored' = stored \/ stored' = state
      /\ fate' = fate \/ \E S, f : Later(S, f)
      /\ SavedWasHandled'
  <2>1. CASE Save(c)
    BY <1>1, <2>1, StoreSaves DEF Save, StoreState
  <2>2. CASE FetchFails(c) \/ NotModified(c) \/ SaveFails(c)
    <3>1. stored' = stored /\ fate' = fate
      BY <2>2 DEF FetchFails, NotModified, SaveFails, known, fates
    <3> QED
      BY <3>1, KeptSaved
  <2> QED
    BY <2>1, <2>2
<1>6. fate' \in [Entries -> Fates]
  BY <1>5, QuietFates
<1>7. Shapes'
  BY <1>3, <1>4, <1>5, <1>6 DEF Shapes
<1>8. Silent' /\ Pendings' /\ Awaited' /\ AnnouncedOnce'
  BY <1>3, <1>4, <1>5, QuietStep
<1> QED
  BY <1>3, <1>5, <1>7, <1>8

LEMMA FetchedStep ==
  ASSUME FeedInv, NEW c \in Callers, Fetched(c)
  PROVE  FeedInv'
<1> USE DEF FeedInv, Fetched
<1>1. stored' = stored /\ fate' = fate /\ forgotten' = forgotten
  BY DEF fates
<1>2. /\ DOMAIN state' = {"etag", "seen"} /\ state'.seen = state.seen /\ state'.etag \in Tags
  BY DEF Shapes
<1>3. /\ poll'[c].rest = poll[c].rest /\ poll'[c].step = "parse"
      /\ \A d \in Callers \ {c} : poll'[d] = poll[d]
  BY DEF Shapes, Phases, NoPoll
<1>4. poll' \in [Callers -> Polls]
  <2>1. [step |-> "parse", asked |-> 0, got |-> published, rest |-> {}] \in Polls
    BY DEF Shapes, Polls, Steps, Tags
  <2> QED
    BY <2>1 DEF Shapes, NoPoll
<1>5. poll[c].rest = {} /\ at[c] \notin {"lock", "resting"}
  BY DEF Phases
<1>6. Phases' /\ Dropped
  BY <1>3, <1>5 DEF Phases, Dropped
<1>7. Shapes'
  BY <1>1, <1>2, <1>4 DEF Shapes
<1>8. Silent' /\ Pendings' /\ Awaited' /\ AnnouncedOnce'
  BY <1>1, <1>2, <1>6, QuietStep
<1>9. SavedWasHandled'
  BY <1>1, KeptSaved
<1> QED
  BY <1>6, <1>7, <1>8, <1>9

\* What is new is seen from now on and announced, or passed over.
LEMMA SelectStep ==
  ASSUME FeedInv, NEW c \in Callers, Select(c)
  PROVE  FeedInv'
<1> DEFINE shown == Shown(poll[c].got)
           unseen == shown \ DOMAIN state.seen
           now == {e \in unseen : Place(e, unseen) <= Limit[c]}
<1>1. shown \subseteq Entries
  BY ShownEntries
<1>2. /\ DOMAIN state' = {"etag", "seen"} /\ state'.etag = state.etag
      /\ state'.seen = Merged(shown)
  BY DEF Select, FeedInv, Shapes
<1>3. /\ DOMAIN state'.seen \subseteq shown \cup DOMAIN state.seen
      /\ forgotten' = forgotten \cup ((DOMAIN state.seen \cup shown) \ DOMAIN state'.seen)
  BY <1>2, MergedIds DEF Select
<1>4. /\ poll[c].step = "parse" /\ poll[c].rest = {}
      /\ at[c] \notin {"lock", "resting"}
  BY DEF Select, FeedInv, Phases
<1>5. /\ poll' = [poll EXCEPT ![c] = Announcing(now)]
      /\ fate' = Fate(unseen \ now, "passed")
  BY DEF Select, Begin
<1>6. UNCHANGED <<published, stored, at>>
  BY DEF Select
<1> HIDE DEF now, unseen, shown
<1>7. now \subseteq unseen /\ unseen = shown \ DOMAIN state.seen
  BY DEF now, unseen
<1>8. /\ poll'[c].rest = now /\ poll'[c].step = IF now = {} THEN "save" ELSE "notify"
      /\ \A d \in Callers \ {c} : poll'[d] = poll[d]
  BY <1>1, <1>5, <1>7, AnnouncingPoll DEF FeedInv, Shapes
<1>9. poll' \in [Callers -> Polls]
  BY <1>1, <1>5, <1>7, AnnouncingPoll DEF FeedInv, Shapes
<1>10. /\ fate' \in [Entries -> Fates]
       /\ \A e \in Entries : \/ fate'[e] = fate[e] /\ (e \in unseen \ now => fate[e] \notin {"new", "early"})
                             \/ fate'[e] = "passed"
  <2>1. fate \in [Entries -> Fates] /\ "passed" \in Fates
    BY DEF FeedInv, Shapes, Fates
  <2> DEFINE over == unseen \ now
  <2>2. fate' = Fate(over, "passed")
    BY <1>5
  <2> HIDE DEF over
  <2>3. /\ fate' \in [Entries -> Fates]
        /\ \A e \in Entries : \/ fate'[e] = fate[e] /\ (e \in over => fate[e] \notin {"new", "early"})
                              \/ fate'[e] = "passed"
    BY <2>1, <2>2, FateDecides
  <2> QED
    BY <2>3 DEF over
<1>11. Shapes'
  BY <1>1, <1>2, <1>3, <1>6, <1>9, <1>10 DEF FeedInv, Shapes
<1>12. Phases'
  BY <1>4, <1>6, <1>8 DEF FeedInv, Phases
<1>13. Silent' /\ AnnouncedOnce'
  BY <1>3, <1>10 DEF FeedInv, Silent, AnnouncedOnce
<1>14. Pendings'
  <2>1. \A e \in now : e \in Entries /\ e \in shown /\ e \notin DOMAIN state.seen
    BY <1>1, <1>7
  <2>2. ASSUME NEW d \in Callers \ {c}, NEW e \in poll[d].rest \ forgotten'
        PROVE  e \in DOMAIN state'.seen /\ fate'[e] # "announced" /\ e \notin now
    <3>1. e \in poll[d].rest \ forgotten /\ e \in Entries
      BY <1>3, <2>2 DEF FeedInv, Shapes, Polls
    <3>2. e \in DOMAIN state.seen /\ fate[e] # "announced"
      BY <3>1 DEF FeedInv, Pendings
    <3> QED
      BY <1>3, <1>10, <2>1, <2>2, <3>1, <3>2
  <2>3. ASSUME NEW e \in now \ forgotten'
        PROVE  /\ e \in DOMAIN state'.seen /\ fate'[e] # "announced"
               /\ \A d \in Callers \ {c} : e \notin poll[d].rest
    <3>1. e \in DOMAIN state'.seen /\ e \notin forgotten
      BY <1>3, <2>1, <2>3
    <3>2. fate[e] # "announced"
      BY <2>1, <2>3, <3>1 DEF FeedInv, Silent
    <3>3. \A d \in Callers \ {c} : e \notin poll[d].rest
      BY <2>1, <2>3, <3>1 DEF FeedInv, Pendings
    <3> QED
      BY <1>10, <2>1, <2>3, <3>1, <3>2, <3>3
  <2>4. \A d, b \in Callers : d # c /\ b # d /\ b # c => FALSE
    BY DEF Callers
  <2>5. ASSUME NEW d \in Callers, NEW e \in poll'[d].rest \ forgotten'
        PROVE  /\ e \in DOMAIN state'.seen /\ fate'[e] # "announced"
               /\ \A b \in Callers \ {d} : e \notin poll'[b].rest
    <3>1. CASE d = c
      BY <1>8, <2>3, <2>5, <3>1
    <3>2. CASE d # c
      BY <1>8, <2>2, <2>4, <2>5, <3>2
    <3> QED
      BY <3>1, <3>2
  <2> QED
    BY <2>5 DEF Pendings
<1>15. Awaited'
  <2>1. ASSUME NEW e \in DOMAIN state'.seen, fate'[e] = "new"
        PROVE  \E d \in Callers : e \in poll'[d].rest
    <3>1. e \in Entries /\ fate[e] = "new" /\ e \notin unseen \ now
      BY <1>1, <1>3, <1>10, <2>1 DEF FeedInv, Shapes
    <3>2. CASE e \in DOMAIN state.seen
      BY <1>4, <1>8, <3>1, <3>2 DEF FeedInv, Awaited
    <3>3. CASE e \notin DOMAIN state.seen
      BY <1>3, <1>7, <1>8, <2>1, <3>1, <3>3
    <3> QED
      BY <3>2, <3>3
  <2> QED
    BY <2>1 DEF Awaited
<1>16. SavedWasHandled'
  BY <1>6, <1>10 DEF FeedInv, Shapes, SavedWasHandled
<1> QED
  BY <1>11, <1>12, <1>13, <1>14, <1>15, <1>16 DEF FeedInv
\* The newest of those that are left.
LEMMA OneLess ==
  ASSUME FeedInv, NEW c \in Callers, NEW e \in poll[c].rest, Next1(c, e),
         poll[c].step = "notify", at' = at
  PROVE  /\ e \in Entries
         /\ poll' \in [Callers -> Polls] /\ Phases'
         /\ poll'[c].rest = poll[c].rest \ {e}
         /\ \A d \in Callers \ {c} : poll'[d] = poll[d]
<1> USE DEF FeedInv, Shapes
<1>1. poll[c].rest \subseteq Entries
  BY DEF Polls
<1> DEFINE left == poll[c].rest \ {e}
<1>2. poll' = [poll EXCEPT ![c] = Announcing(left)] /\ left \in SUBSET Entries
  BY <1>1 DEF Next1
<1>3. poll[c].rest \ {e} = left
  OBVIOUS
<1> HIDE DEF left
<1>4. /\ poll' \in [Callers -> Polls] /\ poll'[c] = Announcing(left)
      /\ \A d \in Callers \ {c} : poll'[d] = poll[d]
  BY <1>2, AnnouncingPoll
<1>5. at[c] \notin {"lock", "resting"}
  BY DEF Phases
<1>6. Phases'
  BY <1>2, <1>4, <1>5, AnnouncingPoll DEF Phases
<1> QED
  BY <1>1, <1>2, <1>3, <1>4, <1>6, AnnouncingPoll

\* What was announced before has been forgotten since: Pendings.
LEMMA AnnounceStep ==
  ASSUME FeedInv, NEW c \in Callers, Announce(c)
  PROVE  FeedInv'
<1> USE DEF FeedInv
<1>1. poll[c].step = "notify" /\ UNCHANGED <<published, state, stored, at>>
  BY DEF Announce, known
<1>2. PICK e \in poll[c].rest :
        /\ Next1(c, e)
        /\ fate' = [fate EXCEPT ![e] =
             IF fate[e] \in {"announced", "repeated"} /\ e \notin forgotten THEN "repeated" ELSE "announced"]
        /\ forgotten' = IF fate[e] \in {"announced", "repeated"} /\ e \in DOMAIN state.seen \ Pending(c)
                          THEN forgotten \ {e} ELSE forgotten
  BY DEF Announce
<1>3. /\ e \in Entries
      /\ poll' \in [Callers -> Polls] /\ Phases'
      /\ poll'[c].rest = poll[c].rest \ {e}
      /\ \A d \in Callers \ {c} : poll'[d] = poll[d]
  BY <1>1, <1>2, OneLess
<1>4. e \in forgotten \/ (fate[e] # "announced" /\ e \in DOMAIN state.seen)
  BY DEF Pendings
<1>5. fate[e] # "repeated"
  BY <1>3 DEF AnnouncedOnce
<1>6. /\ fate' \in [Entries -> Fates] /\ fate'[e] = "announced"
      /\ \A f \in Entries \ {e} : fate'[f] = fate[f]
  BY <1>2, <1>3, <1>4, <1>5 DEF Shapes, Fates
<1>7. \/ forgotten' = forgotten
      \/ /\ forgotten' = forgotten \ {e}
         /\ e \in DOMAIN state.seen /\ \A d \in Callers \ {c} : e \notin poll[d].rest
  BY <1>2 DEF Pending
<1>8. \A d \in Callers : poll[d].rest \subseteq Entries
  BY DEF Shapes, Polls
<1>9. Shapes'
  BY <1>1, <1>3, <1>6 DEF Shapes
<1>10. Silent' /\ AnnouncedOnce'
  BY <1>1, <1>4, <1>6, <1>7 DEF Silent, AnnouncedOnce
<1>11. ASSUME NEW d \in Callers, NEW f \in poll'[d].rest \ forgotten'
       PROVE  /\ f \in DOMAIN state'.seen /\ fate'[f] # "announced"
              /\ \A b \in Callers \ {d} : f \notin poll'[b].rest
  <2>1. f # e
    <3>1. CASE d = c
      BY <1>3, <1>11, <3>1
    <3>2. CASE d # c
      <4>1. ASSUME f = e PROVE FALSE
        <5>1. f \in poll[d].rest
          BY <1>3, <1>11, <3>2
        <5>2. f \notin forgotten
          BY <1>7, <1>11, <3>2, <4>1, <5>1
        <5> QED
          BY <3>2, <4>1, <5>1, <5>2, <1>2 DEF Pendings
      <4> QED
        BY <4>1
    <3> QED
      BY <3>1, <3>2
  <2>2. f \in poll[d].rest \ forgotten /\ f \in Entries
    BY <1>3, <1>7, <1>8, <1>11, <2>1
  <2>3. /\ f \in DOMAIN state.seen /\ fate[f] # "announced"
        /\ \A b \in Callers \ {d} : f \notin poll[b].rest
    BY <2>2 DEF Pendings
  <2> QED
    BY <1>1, <1>3, <1>6, <2>1, <2>2, <2>3
<1>12. Pendings'
  BY <1>11 DEF Pendings
<1>13. Awaited'
  BY <1>1, <1>3, <1>6 DEF Awaited, Shapes
<1>14. SavedWasHandled'
  BY <1>1, <1>6 DEF SavedWasHandled, Shapes
<1> QED
  BY <1>3, <1>9, <1>10, <1>12, <1>13, <1>14

LEMMA NotAnnouncedStep ==
  ASSUME FeedInv, NEW c \in Callers, NotAnnounced(c)
  PROVE  FeedInv'
<1> USE DEF FeedInv
<1>1. /\ poll[c].step = "notify"
      /\ UNCHANGED <<published, state, stored, at, forgotten>>
  BY DEF NotAnnounced, known
<1>2. PICK e \in poll[c].rest : Next1(c, e) /\ fate' = Fate({e}, "passed")
  BY DEF NotAnnounced
<1>3. /\ e \in Entries
      /\ poll' \in [Callers -> Polls] /\ Phases'
      /\ poll'[c].rest = poll[c].rest \ {e}
      /\ \A d \in Callers \ {c} : poll'[d] = poll[d]
  BY <1>1, <1>2, OneLess
<1>4. Later({e}, "passed")
  BY <1>2 DEF Later, Fates
<1>5. fate \in [Entries -> Fates] /\ "passed" \in Fates
  BY DEF Shapes, Fates
<1>6. fate'[e] # "new"
  BY <1>2, <1>3, <1>5, FateDecides
<1>7. Dropped
  BY <1>3, <1>6 DEF Dropped
<1>8. fate' \in [Entries -> Fates]
  BY <1>4, QuietFates
<1>9. Shapes'
  BY <1>1, <1>3, <1>8 DEF Shapes
<1>10. Silent' /\ Pendings' /\ Awaited' /\ AnnouncedOnce'
  BY <1>1, <1>4, <1>7, QuietStep
<1>11. SavedWasHandled'
  BY <1>1, <1>4, KeptSaved
<1> QED
  BY <1>3, <1>9, <1>10, <1>11

\* poll_now() is cancelled: its entries have been passed over, or saved.
LEMMA CancelStep ==
  ASSUME FeedInv, Cancel
  PROVE  FeedInv'
<1> USE DEF FeedInv
<1>1. /\ UNCHANGED <<published, state, forgotten>>
      /\ at' = [at EXCEPT !["manual"] = "off"]
  BY DEF Cancel
<1>2. at' \in [Callers -> Places] /\ at'["manual"] = "off" /\ at'["run"] = at["run"]
  BY <1>1 DEF Shapes, Callers, Places
<1>3. CASE lock = "manual"
  <2>1. /\ poll' = [poll EXCEPT !["manual"] = NoPoll]
        /\ \/ poll["manual"].step = "save" /\ StoreState("manual")
           \/ stored' = stored /\ fate' = Fate(poll["manual"].rest, "passed")
    BY <1>3 DEF Cancel
  <2>2. /\ poll' \in [Callers -> Polls] /\ poll'["manual"] = NoPoll /\ poll'["run"] = poll["run"]
    BY <2>1, NoPollIsOne DEF Shapes, Callers
  <2>3. Phases'
    BY <1>2, <2>2 DEF Phases, Callers, NoPoll
  <2>4. /\ \E S, f : Later(S, f)
        /\ SavedWasHandled'
        /\ \A e \in poll["manual"].rest : fate'[e] # "new"
        /\ stored' \in {state, stored}
    <3>1. CASE poll["manual"].step = "save" /\ StoreState("manual")
      <4>1. poll["manual"].rest = {} /\ "manual" \in Callers
        BY <3>1 DEF Phases, Callers
      <4> QED
        BY <3>1, <4>1, StoreSaves DEF StoreState
    <3>2. CASE stored' = stored /\ fate' = Fate(poll["manual"].rest, "passed")
      <4>1. Later(poll["manual"].rest, "passed")
        BY <3>2 DEF Later, Fates
      <4>2. poll["manual"].rest \subseteq Entries /\ fate \in [Entries -> Fates] /\ "passed" \in Fates
        BY DEF Shapes, Polls, Callers, Fates
      <4>3. \A e \in poll["manual"].rest : fate'[e] # "new"
        BY <3>2, <4>2, FateDecides
      <4> QED
        BY <3>2, <4>1, <4>3, KeptSaved
    <3> QED
      BY <2>1, <3>1, <3>2
  <2>5. Dropped
    BY <2>2, <2>4 DEF Dropped, Callers, NoPoll
  <2>6. fate' \in [Entries -> Fates]
    BY <2>4, QuietFates
  <2>7. Shapes'
    BY <1>1, <1>2, <2>2, <2>4, <2>6 DEF Shapes
  <2>8. Silent' /\ Pendings' /\ Awaited' /\ AnnouncedOnce'
    BY <1>1, <2>4, <2>5, QuietStep
  <2> QED
    BY <2>3, <2>4, <2>7, <2>8
<1>4. CASE lock # "manual"
  <2>1. UNCHANGED <<poll, fate, stored>>
    BY <1>4 DEF Cancel
  <2>2. Dropped
    BY <2>1 DEF Dropped
  <2>3. Phases'
    BY <1>2, <2>1 DEF Phases, Callers
  <2>4. Shapes'
    BY <1>1, <1>2, <2>1 DEF Shapes
  <2>5. Silent' /\ Pendings' /\ Awaited' /\ AnnouncedOnce'
    BY <1>1, <2>1, <2>2, QuietStep
  <2> QED
    BY <2>1, <2>3, <2>4, <2>5, KeptSaved
<1> QED
  BY <1>3, <1>4

\* What a restart finds unsaved has been forgotten.
LEMMA RestartStep ==
  ASSUME FeedInv, FeedRestart
  PROVE  FeedInv'
<1> USE DEF FeedInv
<1>1. /\ published' = published /\ state' = stored'
      /\ forgotten' = forgotten \cup {e \in Entries \ DOMAIN stored'.seen : fate[e] = "announced"}
      /\ at' = [c \in Callers |-> IF c = "run" THEN "lock" ELSE "off"]
      /\ poll' = [c \in Callers |-> NoPoll]
  BY DEF FeedRestart
<1>2. /\ at' \in [Callers -> Places] /\ poll' \in [Callers -> Polls]
      /\ Phases' /\ Pendings'
  BY <1>1, NoPollIsOne DEF Places, Phases, Pendings, NoPoll
<1>3. /\ stored' \in {state, stored, Nothing}
      /\ fate' = fate \/ \E S, f : Later(S, f)
      /\ SavedWasHandled'
  <2>1. CASE UNCHANGED <<stored, fate>>
    BY <2>1, KeptSaved
  <2>2. ASSUME NEW c \in Callers, poll[c].step = "save", StoreState(c)
        PROVE  stored' = state /\ (\E S, f : Later(S, f)) /\ SavedWasHandled'
    <3>1. poll[c].rest = {}
      BY <2>2 DEF Phases
    <3> QED
      BY <2>2, <3>1, StoreSaves DEF StoreState
  <2>3. CASE stored' = Nothing /\ fate' = fate
    <3>1. DOMAIN Nothing.seen = {}
      BY DEF Nothing
    <3> QED
      BY <2>3, <3>1 DEF SavedWasHandled
  <2> QED
    BY <2>1, <2>2, <2>3 DEF FeedRestart
<1>4. fate' \in [Entries -> Fates]
      /\ \A e \in Entries : fate'[e] \in {"announced", "repeated", "new"} => fate'[e] = fate[e]
  BY <1>3, QuietFates
<1>5. /\ DOMAIN stored' = {"etag", "seen"} /\ stored'.etag \in Tags
      /\ DOMAIN stored'.seen \subseteq Entries
  <2>1. DOMAIN Nothing = {"etag", "seen"} /\ Nothing.etag \in Tags /\ DOMAIN Nothing.seen \subseteq Entries
    BY DEF Nothing, Tags
  <2> QED
    BY <1>3, <2>1 DEF Shapes
<1>6. Shapes'
  BY <1>1, <1>2, <1>4, <1>5 DEF Shapes
<1>7. Silent' /\ AnnouncedOnce'
  BY <1>1, <1>4 DEF Silent, AnnouncedOnce
<1>8. Awaited'
  BY <1>1, <1>3 DEF Awaited, SavedWasHandled
<1> QED
  BY <1>2, <1>3, <1>6, <1>7, <1>8

LEMMA FeedStutter == FeedInv /\ UNCHANGED feedVars => FeedInv'
BY DEF FeedInv, feedVars, known, callers, fates, Shapes, Phases, Silent, Pendings, Awaited,
       SavedWasHandled, AnnouncedOnce

LEMMA NextFeed == FeedInv /\ [FeedNext]_feedVars => FeedInv'
BY CallerSteps, EndOfPoll, FetchedStep, SelectStep, AnnounceStep, NotAnnouncedStep,
   CancelStep, RestartStep, FeedStutter DEF FeedNext, Poll

(***************************************************************************)
(* For any sizes of the feed and of its limits, any number of publications *)
(* and of restarts, and whichever polls overlap, fail, hang or are         *)
(* cancelled: the announcer says nothing twice, but for what a restart or  *)
(* the length of seen_ids made it forget (_poll_feed(), _select_unseen()). *)
(***************************************************************************)
THEOREM FeedAnnouncedOnce == FeedSpec => []AnnouncedOnce
<1>1. FeedInv => AnnouncedOnce
  BY DEF FeedInv
<1> QED
  BY InitFeed, NextFeed, <1>1, PTL DEF FeedSpec

(***************************************************************************)
(* Under the same conditions, no crash loses an entry: what is saved as    *)
(* seen was announced, or passed over knowingly, or was another poll's to  *)
(* announce when it was saved (_poll_feed(), _save_state()).               *)
(***************************************************************************)
THEOREM FeedSavedWasHandled == FeedSpec => []SavedWasHandled
<1>1. FeedInv => SavedWasHandled
  BY DEF FeedInv
<1> QED
  BY InitFeed, NextFeed, <1>1, PTL DEF FeedSpec

-----------------------------------------------------------------------------
(* Places in a list without gaps.                                          *)

\* The places of seen_ids, as FeedTypeOK has them
Gapless(s) == IsInjective(s) /\ Range(s) = 1 .. Cardinality(DOMAIN s)

\* As many different places as there are to have are all of them.
LEMMA AllPlaces ==
  ASSUME NEW D, IsFiniteSet(D), NEW p \in [D -> 1 .. Cardinality(D)], IsInjective(p)
  PROVE  Gapless(p)
<1> DEFINE n == Cardinality(D)
<1>1. n \in Nat
  BY FS_CardinalityType
<1>2. IsFiniteSet(1 .. n) /\ Cardinality(1 .. n) = n
  BY <1>1, FS_Interval
<1>3. p \in Injection(D, 1 .. n)
  BY DEF Injection
<1>4. p \in Surjection(D, 1 .. n)
  <2> HIDE DEF n
  <2> QED
    BY <1>2, <1>3, FS_Injection DEF n
<1> QED
  BY <1>4 DEF Surjection, Gapless, Range

\* The first m of a list are a list.
LEMMA FirstPlaces ==
  ASSUME NEW p, IsFiniteSet(DOMAIN p), p \in [DOMAIN p -> Int], Gapless(p), NEW m \in Nat
  PROVE  LET q == Restrict(p, {e \in DOMAIN p : p[e] <= m})
         IN  Gapless(q) /\ Cardinality(DOMAIN q) <= m
<1> DEFINE D == {e \in DOMAIN p : p[e] <= m}
           q == Restrict(p, D)
           n == Cardinality(DOMAIN p)
           k == IF m <= n THEN m ELSE n
<1>1. n \in Nat /\ k \in Nat /\ k <= m /\ k <= n
  BY FS_CardinalityType
<1>2. DOMAIN q = D /\ D \subseteq DOMAIN p /\ \A e \in D : q[e] = p[e]
  BY DEF Restrict
<1>3. \A i \in 1 .. n : \E e \in DOMAIN p : p[e] = i
  BY DEF Gapless, Range
<1>4. \A e \in DOMAIN p : p[e] \in 1 .. n
  BY DEF Gapless, Range
<1>5. \A e \in D : q[e] \in 1 .. k
  BY <1>1, <1>2, <1>4
<1>6. \A i \in 1 .. k : \E e \in D : q[e] = i
  <2> TAKE i \in 1 .. k
  <2>1. i \in 1 .. n /\ i <= m
    BY <1>1
  <2>2. PICK e \in DOMAIN p : p[e] = i
    BY <1>3, <2>1
  <2> QED
    BY <1>2, <2>1, <2>2
<1>7. \A e, f \in DOMAIN p : p[e] = p[f] => e = f
  BY DEF Gapless, IsInjective
<1>8. IsInjective(q)
  BY <1>2, <1>7 DEF IsInjective
<1>9. q \in Injection(D, 1 .. k) /\ q \in Surjection(D, 1 .. k)
  <2>1. q \in [D -> 1 .. k]
    BY <1>5, <1>2 DEF Restrict
  <2> HIDE DEF q, D, k
  <2> QED
    BY <2>1, <1>6, <1>8 DEF Injection, Surjection
<1>10. IsFiniteSet(1 .. k) /\ Cardinality(1 .. k) = k
  BY <1>1, FS_Interval
<1>11. Cardinality(D) = k
  <2> HIDE DEF q, D, k
  <2> QED
    BY <1>9, <1>10, FS_Injection
<1>12. Range(q) = 1 .. k
  <2> HIDE DEF D, k
  <2> QED
    BY <1>2, <1>5, <1>6 DEF Range
<1> QED
  BY <1>1, <1>2, <1>8, <1>11, <1>12 DEF Gapless

\* How many have at most that rank, if no two have the same
Upto(e, S, rank) == Cardinality({f \in S : rank[f] <= rank[e]})

LEMMA Counting ==
  ASSUME NEW S, IsFiniteSet(S), NEW rank, \A e \in S : rank[e] \in Int,
         \A e, f \in S : rank[e] = rank[f] => e = f
  PROVE  /\ \A e \in S : Upto(e, S, rank) \in 1 .. Cardinality(S)
         /\ \A e, f \in S : Upto(e, S, rank) = Upto(f, S, rank) => e = f
<1> DEFINE below(e) == {f \in S : rank[f] <= rank[e]}
<1>1. \A e \in S : /\ IsFiniteSet(below(e)) /\ below(e) # {}
                   /\ Cardinality(below(e)) \in 1 .. Cardinality(S)
  <2> TAKE e \in S
  <2>1. below(e) \subseteq S /\ e \in below(e)
    OBVIOUS
  <2> HIDE DEF below
  <2>2. IsFiniteSet(below(e)) /\ Cardinality(below(e)) <= Cardinality(S)
    BY <2>1, FS_Subset
  <2>3. Cardinality(below(e)) \in Nat /\ Cardinality(S) \in Nat
    BY <2>2, FS_CardinalityType
  <2>4. Cardinality(below(e)) # 0
    BY <2>1, <2>2, FS_EmptySet
  <2> QED
    BY <2>1, <2>2, <2>3, <2>4
<1>2. ASSUME NEW e \in S, NEW f \in S, rank[e] < rank[f]
      PROVE  Cardinality(below(e)) # Cardinality(below(f))
  <2>1. below(e) \subseteq below(f) /\ f \in below(f) /\ f \notin below(e)
    BY <1>2
  <2> HIDE DEF below
  <2> QED
    BY <1>1, <2>1, FS_Subset
<1>3. \A e, f \in S : e # f => rank[e] < rank[f] \/ rank[f] < rank[e]
  OBVIOUS
<1> QED
  BY <1>1, <1>2, <1>3 DEF Upto

\* Place() counts, from the highest down.
LEMMA Placing ==
  ASSUME NEW S \in SUBSET Entries
  PROVE  /\ IsFiniteSet(S)
         /\ \A e \in S : Place(e, S) \in 1 .. Cardinality(S)
         /\ \A e, f \in S : Place(e, S) = Place(f, S) => e = f
<1> DEFINE rank == [e \in S |-> -e]
<1>1. IsFiniteSet(Entries) /\ Entries \subseteq Int
  BY FS_Interval, FeedAssumption DEF Entries
<1>2. IsFiniteSet(S) /\ S \subseteq Int
  BY <1>1, FS_Subset
<1>3. /\ \A e \in S : rank[e] \in Int
      /\ \A e, f \in S : rank[e] = rank[f] => e = f
  BY <1>2
<1>4. ASSUME NEW e \in S PROVE Place(e, S) = Upto(e, S, rank)
  <2>1. \A f \in S : f >= e <=> rank[f] <= rank[e]
    <3> TAKE f \in S
    <3>1. rank[f] = -f /\ rank[e] = -e /\ f \in Int /\ e \in Int
      BY <1>2
    <3> HIDE DEF rank
    <3> QED
      BY <3>1
  <2> QED
    BY <2>1 DEF Place, Upto
<1> HIDE DEF rank
<1>5. /\ \A e \in S : Upto(e, S, rank) \in 1 .. Cardinality(S)
      /\ \A e, f \in S : Upto(e, S, rank) = Upto(f, S, rank) => e = f
  BY <1>2, <1>3, Counting
<1> QED
  BY <1>2, <1>4, <1>5

\* Of the first m places there are at most m.
LEMMA PlacesBound ==
  ASSUME NEW S \in SUBSET Entries, NEW m \in Nat
  PROVE  Cardinality({e \in S : Place(e, S) <= m}) <= m
<1> DEFINE T == {e \in S : Place(e, S) <= m}
           place == [e \in T |-> Place(e, S)]
<1>1. \A e \in T : Place(e, S) \in 1 .. m
  <2>1. Cardinality(S) \in Nat
    BY Placing, FS_CardinalityType
  <2> QED
    BY <2>1, Placing
<1>2. place \in Injection(T, 1 .. m)
  BY <1>1, Placing DEF Injection, IsInjective
<1>3. IsFiniteSet(1 .. m) /\ Cardinality(1 .. m) = m
  BY FS_Interval
<1> HIDE DEF place, T
<1> QED
  BY <1>2, <1>3, FS_Injection DEF T

\* seen_ids after a poll: the feed's ids first, the others behind them, and
\* all of them up to max_items_per_feed.
LEMMA MergedPlaces ==
  ASSUME DOMAIN state.seen \subseteq Entries, Gapless(state.seen), NEW ids \in SUBSET Entries
  PROVE  /\ DOMAIN Merged(ids) \subseteq Entries
         /\ Gapless(Merged(ids)) /\ Cardinality(DOMAIN Merged(ids)) <= MaxSeen
<1> DEFINE old == DOMAIN state.seen \ ids
           both == ids \cup old
           place == [e \in both |-> IF e \in ids THEN Place(e, ids)
                                    ELSE Cardinality(ids) + Upto(e, old, state.seen)]
<1>1. /\ IsFiniteSet(ids) /\ IsFiniteSet(old)
      /\ Cardinality(ids) \in Nat /\ Cardinality(old) \in Nat
  BY Placing, FS_CardinalityType
<1>2. IsFiniteSet(both) /\ Cardinality(both) = Cardinality(ids) + Cardinality(old)
  <2>1. ids \cap old = {}
    OBVIOUS
  <2> QED
    BY <1>1, <2>1, FS_Union, FS_EmptySet
<1>3. /\ \A e \in old : state.seen[e] \in Int
      /\ \A e, f \in old : state.seen[e] = state.seen[f] => e = f
  BY DEF Gapless, IsInjective, Range
<1>4. /\ \A e \in old : Upto(e, old, state.seen) \in 1 .. Cardinality(old)
      /\ \A e, f \in old : Upto(e, old, state.seen) = Upto(f, old, state.seen) => e = f
  <2> HIDE DEF old
  <2> QED
    BY <1>1, <1>3, Counting
<1>5. /\ \A e \in ids : Place(e, ids) \in 1 .. Cardinality(ids)
      /\ \A e, f \in ids : Place(e, ids) = Place(f, ids) => e = f
  BY Placing
<1>6. /\ \A e \in ids : place[e] = Place(e, ids) /\ place[e] \in 1 .. Cardinality(ids)
      /\ \A e \in old : /\ place[e] = Cardinality(ids) + Upto(e, old, state.seen)
                        /\ place[e] \in Cardinality(ids) + 1 .. Cardinality(ids) + Cardinality(old)
  <2>1. \A e \in ids : place[e] = Place(e, ids)
    OBVIOUS
  <2>2. \A e \in old : place[e] = Cardinality(ids) + Upto(e, old, state.seen)
    OBVIOUS
  <2> HIDE DEF place
  <2>3. \A e \in ids : place[e] \in 1 .. Cardinality(ids)
    BY <1>5, <2>1
  <2>4. \A e \in old : place[e] \in Cardinality(ids) + 1 .. Cardinality(ids) + Cardinality(old)
    <3> TAKE e \in old
    <3>1. Upto(e, old, state.seen) \in 1 .. Cardinality(old)
      BY <1>4
    <3> HIDE DEF old
    <3> QED
      BY <1>1, <2>2, <3>1
  <2> QED
    BY <2>1, <2>2, <2>3, <2>4
<1>7. DOMAIN place = both /\ Merged(ids) = Restrict(place, {e \in DOMAIN place : place[e] <= MaxSeen})
  BY DEF Merged, Upto
<1> HIDE DEF place
<1>8. place \in [both -> 1 .. Cardinality(both)]
  <2>1. \A e \in both : place[e] \in 1 .. Cardinality(both)
    BY <1>1, <1>2, <1>6
  <2>2. place = [e \in both |-> place[e]]
    BY <1>7 DEF place
  <2> QED
    BY <2>1, <2>2
<1>9. IsInjective(place)
  <2> SUFFICES ASSUME NEW e \in both, NEW f \in both, place[e] = place[f] PROVE e = f
    BY <1>7 DEF IsInjective
  <2>1. CASE e \in ids /\ f \in ids
    BY <1>5, <1>6, <2>1
  <2>2. CASE e \in old /\ f \in old
    <3>1. Cardinality(ids) + Upto(e, old, state.seen) = Cardinality(ids) + Upto(f, old, state.seen)
      BY <1>6, <2>2
    <3>2. Upto(e, old, state.seen) \in Int /\ Upto(f, old, state.seen) \in Int
      BY <1>4, <2>2
    <3> HIDE DEF old
    <3>3. Upto(e, old, state.seen) = Upto(f, old, state.seen)
      BY <1>1, <3>1, <3>2
    <3> QED
      BY <1>4, <2>2, <3>3 DEF old
  <2>3. CASE ~(e \in ids /\ f \in ids) /\ ~(e \in old /\ f \in old)
    BY <1>1, <1>6, <2>3
  <2> QED
    BY <2>1, <2>2, <2>3
<1> HIDE DEF both
<1>10. Gapless(place)
  BY <1>2, <1>8, <1>9, AllPlaces
<1>11. place \in [DOMAIN place -> Int]
  BY <1>7, <1>8
<1>12. MaxSeen \in Nat
  BY FeedAssumption
<1>13. Gapless(Merged(ids)) /\ Cardinality(DOMAIN Merged(ids)) <= MaxSeen
  <2>1. LET q == Restrict(place, {e \in DOMAIN place : place[e] <= MaxSeen})
        IN  Gapless(q) /\ Cardinality(DOMAIN q) <= MaxSeen
    BY <1>2, <1>7, <1>10, <1>11, <1>12, FirstPlaces
  <2> QED
    BY <1>7, <2>1
<1>14. DOMAIN Merged(ids) \subseteq Entries
  BY MergedIds
<1> QED
  BY <1>13, <1>14

-----------------------------------------------------------------------------
(* The types, with the limits: of seen_ids, and of what one poll announces.*)

SeenOK(s) ==
  /\ s.etag \in 0 .. MaxEntries
  /\ DOMAIN s.seen \subseteq Entries
  /\ Gapless(s.seen) /\ Cardinality(DOMAIN s.seen) <= MaxSeen

PollOK(p, c) ==
  /\ p.asked \in 0 .. MaxEntries /\ p.got \in 0 .. MaxEntries
  /\ p.step \in {"notify", "hung"} <=> p.rest # {}
  /\ Cardinality(p.rest) <= Limit[c]

SeenTypes == SeenOK(state) /\ SeenOK(stored) /\ published \in 0 .. MaxEntries

PollTypes == \A c \in Callers : PollOK(poll[c], c)

LockTypes ==
  /\ lock \in Callers \cup {"free"}
  /\ \A c \in Callers : /\ at[c] = "polling" <=> lock = c
                        /\ lock = c => poll[c].step # "none"

HistoryTypes == cut \in BOOLEAN /\ forgotten \subseteq Entries /\ restarts \in 0 .. MaxRestarts

FeedTypes == SeenTypes /\ PollTypes /\ LockTypes /\ HistoryTypes

LEMMA FeedTyping == FeedInv /\ FeedTypes => FeedTypeOK
<1> SUFFICES ASSUME FeedInv, FeedTypes PROVE FeedTypeOK
  OBVIOUS
<1>1. \A s \in {state, stored} :
        /\ s.etag \in 0 .. MaxEntries
        /\ DOMAIN s.seen \subseteq Entries /\ IsInjective(s.seen)
        /\ Range(s.seen) = 1 .. Cardinality(DOMAIN s.seen)
        /\ Cardinality(DOMAIN s.seen) <= MaxSeen
  BY DEF FeedTypes, SeenTypes, SeenOK, Gapless
<1>2. ASSUME NEW c \in Callers
      PROVE  /\ poll[c].step \in {"none", "fetch", "parse", "notify", "hung", "save"}
             /\ poll[c].rest \subseteq Entries
             /\ PollOK(poll[c], c)
  BY DEF FeedInv, Shapes, Polls, Steps, FeedTypes, PollTypes
<1>3. /\ at \in [Callers -> {"off", "lock", "polling", "resting", "dead"}]
      /\ fate \in [Entries -> {"new", "early", "passed", "announced", "repeated"}]
  <2>1. Shapes
    BY Zenon DEF FeedInv
  <2> QED
    BY <2>1 DEF Shapes, Places, Fates
<1> QED
  BY <1>1, <1>2, <1>3 DEF FeedTypes, SeenTypes, PollOK, LockTypes, HistoryTypes, FeedTypeOK

\* Nothing seen and nothing to announce are within all limits.
LEMMA NothingOK ==
  /\ SeenOK(Nothing)
  /\ \A c \in Callers : PollOK(NoPoll, c)
  /\ \A c \in Callers, n \in 0 .. MaxEntries :
       /\ PollOK([NoPoll EXCEPT !.step = "fetch", !.asked = n], c)
       /\ PollOK([NoPoll EXCEPT !.step = "parse", !.got = n], c)
<1>1. Cardinality({}) = 0 /\ 0 \in 0 .. MaxEntries /\ MaxSeen \in Nat
      /\ \A c \in Callers : Limit[c] \in Nat
  BY FS_EmptySet, FeedAssumption DEF Limit, Callers
<1>2. /\ Nothing.etag = 0 /\ DOMAIN Nothing.seen = {}
      /\ IsInjective(Nothing.seen) /\ Range(Nothing.seen) = {}
  BY DEF Nothing, IsInjective, Range
<1>3. 1 .. 0 = {}
  OBVIOUS
<1>4. SeenOK(Nothing)
  BY <1>1, <1>2, <1>3 DEF SeenOK, Gapless
<1>5. \A c \in Callers : PollOK(NoPoll, c)
  BY <1>1 DEF PollOK, NoPoll
<1>6. ASSUME NEW c \in Callers, NEW n \in 0 .. MaxEntries
      PROVE  /\ PollOK([NoPoll EXCEPT !.step = "fetch", !.asked = n], c)
             /\ PollOK([NoPoll EXCEPT !.step = "parse", !.got = n], c)
  BY <1>1 DEF PollOK, NoPoll
<1> QED
  BY <1>4, <1>5, <1>6

LEMMA InitTypes == FeedInit => FeedTypes
<1> SUFFICES ASSUME FeedInit PROVE FeedTypes
  OBVIOUS
<1>1. SeenTypes /\ PollTypes
  BY NothingOK DEF FeedInit, SeenTypes, PollTypes
<1>2. LockTypes
  BY DEF FeedInit, LockTypes, Callers
<1>3. HistoryTypes
  <2>1. restarts \in 0 .. MaxRestarts
    BY FeedAssumption DEF FeedInit
  <2>2. cut \in BOOLEAN /\ forgotten = {}
    BY Zenon DEF FeedInit
  <2> QED
    BY <2>1, <2>2 DEF HistoryTypes
<1> QED
  BY <1>1, <1>2, <1>3 DEF FeedTypes

\* What is announced of a list is within the limit, and stays there.
LEMMA AnnouncingOK ==
  ASSUME NEW c \in Callers, NEW S \in SUBSET Entries, Cardinality(S) <= Limit[c]
  PROVE  PollOK(Announcing(S), c)
BY FeedAssumption DEF PollOK, Announcing

LEMMA BegunOK ==
  ASSUME NEW c \in Callers, NEW unseen \in SUBSET Entries, Begin(c, unseen), FeedInv, PollTypes
  PROVE  PollTypes'
<1> DEFINE now == {e \in unseen : Place(e, unseen) <= Limit[c]}
<1>1. Limit[c] \in Nat
  BY FeedAssumption DEF Limit, Callers
<1>2. Cardinality(now) <= Limit[c]
  BY <1>1, PlacesBound
<1>3. PollOK(Announcing(now), c)
  <2>1. now \in SUBSET Entries
    OBVIOUS
  <2> HIDE DEF now
  <2> QED
    BY <1>2, <2>1, AnnouncingOK
<1>4. poll' = [poll EXCEPT ![c] = Announcing(now)]
  BY DEF Begin
<1> HIDE DEF now
<1> QED
  BY <1>3, <1>4 DEF PollTypes, FeedInv, Shapes

LEMMA NextOK ==
  ASSUME NEW c \in Callers, NEW e \in poll[c].rest, Next1(c, e), FeedInv, PollTypes
  PROVE  PollTypes'
<1>1. poll[c].rest \subseteq Entries /\ IsFiniteSet(poll[c].rest)
  <2>1. poll[c].rest \in SUBSET Entries
    BY DEF FeedInv, Shapes, Polls
  <2> QED
    BY <2>1, Placing
<1>2. /\ Cardinality(poll[c].rest \ {e}) <= Cardinality(poll[c].rest)
      /\ Cardinality(poll[c].rest \ {e}) \in Nat /\ Cardinality(poll[c].rest) \in Nat
  BY <1>1, FS_Subset, FS_CardinalityType
<1>3. Cardinality(poll[c].rest) <= Limit[c] /\ Limit[c] \in Nat
  BY FeedAssumption DEF PollTypes, PollOK, Limit, Callers
<1>4. PollOK(Announcing(poll[c].rest \ {e}), c)
  BY <1>1, <1>2, <1>3, AnnouncingOK
<1> QED
  BY <1>4 DEF Next1, PollTypes, FeedInv, Shapes

\* Who holds the lock is polling.
LEMMA NextLocks ==
  ASSUME FeedInv, LockTypes, [FeedNext]_feedVars
  PROVE  LockTypes'
<1> USE DEF FeedInv, Shapes, LockTypes, callers, NoPoll
<1>1. ASSUME NEW c \in Callers, NEW raised, Over(c, raised) PROVE LockTypes'
  BY <1>1 DEF Over, After, Callers
<1>2. CASE Publish \/ UNCHANGED feedVars
  BY <1>2 DEF Publish, feedVars
<1>3. CASE Rest
  BY <1>3 DEF Rest
<1>4. CASE Request
  BY <1>4 DEF Request
<1>5. CASE Cancel
  BY <1>5 DEF Cancel, Callers
<1>6. CASE FeedRestart
  BY <1>6 DEF FeedRestart, Callers
<1>7. ASSUME NEW c \in Callers, Acquire(c) PROVE LockTypes'
  BY <1>7 DEF Acquire, Callers
<1>8. ASSUME NEW c \in Callers, OthersFail(c) PROVE LockTypes'
  BY <1>8 DEF OthersFail, After, Callers
<1>9. ASSUME NEW c \in Callers, FetchFails(c) \/ NotModified(c) \/ Save(c) \/ SaveFails(c)
      PROVE  LockTypes'
  BY <1>1, <1>9 DEF FetchFails, NotModified, Save, SaveFails
<1>10. ASSUME NEW c \in Callers, Fetched(c) \/ Hang(c) \/ Select(c) \/ Announce(c) \/ NotAnnounced(c)
       PROVE  LockTypes'
  <2>1. UNCHANGED <<at, lock>>
    BY <1>10 DEF Fetched, Hang, Select, Announce, NotAnnounced
  <2>2. /\ \A d \in Callers \ {c} : poll'[d] = poll[d]
        /\ poll'[c].step # "none"
    <3>1. CASE Fetched(c)
      BY <3>1 DEF Fetched
    <3>2. CASE Hang(c)
      <4>1. poll[c] \in Polls
        BY DEF Shapes
      <4> QED
        BY <3>2, <4>1 DEF Hang, Polls
    <3>3. ASSUME NEW S, poll' = [poll EXCEPT ![c] = Announcing(S)]
          PROVE  /\ \A d \in Callers \ {c} : poll'[d] = poll[d]
                 /\ poll'[c].step # "none"
      <4>1. Announcing(S).step # "none"
        BY DEF Announcing
      <4> QED
        BY <3>3, <4>1
    <3> QED
      BY <1>10, <3>1, <3>2, <3>3 DEF Select, Announce, NotAnnounced, Begin, Next1
  <2> QED
    BY <2>1, <2>2
<1> QED
  BY <1>2, <1>3, <1>4, <1>5, <1>6, <1>7, <1>8, <1>9, <1>10 DEF FeedNext, Poll

LEMMA NextPolls ==
  ASSUME FeedInv, FeedTypes, [FeedNext]_feedVars
  PROVE  PollTypes'
<1> USE DEF FeedTypes
<1>1. ASSUME NEW c \in Callers, NEW p, PollOK(p, c), poll' = [poll EXCEPT ![c] = p]
      PROVE  PollTypes'
  BY <1>1 DEF PollTypes, FeedInv, Shapes
<1>2. CASE UNCHANGED poll
  BY <1>2 DEF PollTypes
<1>3. CASE Cancel
  <2>1. "manual" \in Callers
    BY DEF Callers
  <2>2. poll' = [poll EXCEPT !["manual"] = NoPoll] \/ UNCHANGED poll
    BY <1>3 DEF Cancel
  <2> QED
    BY <1>1, <1>2, <2>1, <2>2, NothingOK
<1>4. CASE FeedRestart
  BY <1>4, NothingOK DEF FeedRestart, PollTypes
<1>5. ASSUME NEW c \in Callers, Acquire(c) PROVE PollTypes'
  <2>1. state.etag \in 0 .. MaxEntries
    BY DEF SeenTypes, SeenOK
  <2> QED
    BY <1>1, <1>5, <2>1, NothingOK DEF Acquire
<1>6. ASSUME NEW c \in Callers, Fetched(c) PROVE PollTypes'
  BY <1>1, <1>6, NothingOK DEF Fetched, SeenTypes
<1>7. ASSUME NEW c \in Callers, FetchFails(c) \/ NotModified(c) \/ Save(c) \/ SaveFails(c)
      PROVE  PollTypes'
  <2>1. poll' = [poll EXCEPT ![c] = NoPoll]
    BY <1>7 DEF FetchFails, NotModified, Save, SaveFails, Over
  <2> QED
    BY <1>1, <2>1, NothingOK
<1>8. ASSUME NEW c \in Callers, Select(c) PROVE PollTypes'
  <2>1. Shown(poll[c].got) \ DOMAIN state.seen \in SUBSET Entries
    BY ShownEntries
  <2> QED
    BY <1>8, <2>1, BegunOK DEF Select
<1>9. ASSUME NEW c \in Callers, Announce(c) \/ NotAnnounced(c) PROVE PollTypes'
  BY <1>9, NextOK DEF Announce, NotAnnounced
<1>10. ASSUME NEW c \in Callers, Hang(c) PROVE PollTypes'
  <2>1. poll[c] \in Polls
    BY DEF FeedInv, Shapes
  <2>2. poll' = [poll EXCEPT ![c] = [poll[c] EXCEPT !.step = "hung"]]
    BY <1>10 DEF Hang
  <2>3. PollOK([poll[c] EXCEPT !.step = "hung"], c)
    BY <1>10, <2>1 DEF Hang, PollTypes, PollOK, Polls
  <2> QED
    BY <1>1, <2>2, <2>3
<1>11. CASE Publish \/ Rest \/ Request \/ (\E c \in Callers : OthersFail(c)) \/ UNCHANGED feedVars
  <2>1. UNCHANGED poll
    BY <1>11 DEF Publish, Rest, Request, OthersFail, feedVars, callers
  <2> QED
    BY <1>2, <2>1
<1> QED
  BY <1>3, <1>4, <1>5, <1>6, <1>7, <1>8, <1>9, <1>10, <1>11 DEF FeedNext, Poll

LEMMA NextSeen ==
  ASSUME FeedInv, FeedTypes, [FeedNext]_feedVars
  PROVE  SeenTypes'
<1> USE DEF FeedTypes, SeenTypes
<1>1. DOMAIN state = {"etag", "seen"}
  BY DEF FeedInv, Shapes
<1>2. CASE Publish
  BY <1>2, FeedAssumption DEF Publish, known
<1>3. ASSUME NEW c \in Callers, Fetched(c) PROVE SeenTypes'
  <2>1. state' = [state EXCEPT !.etag = published]
    BY <1>3 DEF Fetched
  <2>2. state'.etag = published /\ state'.seen = state.seen
    BY <1>1, <2>1
  <2> QED
    BY <1>3, <2>2 DEF Fetched, SeenOK
<1>4. ASSUME NEW c \in Callers, Select(c) PROVE SeenTypes'
  <2>1. state'.etag = state.etag /\ state'.seen = Merged(Shown(poll[c].got))
    BY <1>1, <1>4 DEF Select
  <2>2. Shown(poll[c].got) \in SUBSET Entries
    BY ShownEntries
  <2>3. DOMAIN state.seen \subseteq Entries /\ Gapless(state.seen)
    BY DEF SeenOK
  <2>4. SeenOK(state')
    BY <2>1, <2>2, <2>3, MergedPlaces DEF SeenOK
  <2> QED
    BY <1>4, <2>4 DEF Select
<1>5. CASE FeedRestart
  <2>1. state' = stored' /\ stored' \in {stored, state, Nothing} /\ published' = published
    BY <1>5 DEF FeedRestart, StoreState
  <2> QED
    BY <2>1, NothingOK
<1>6. CASE \/ Rest \/ Request \/ Cancel \/ UNCHANGED feedVars
           \/ \E c \in Callers : \/ Acquire(c) \/ OthersFail(c) \/ FetchFails(c) \/ NotModified(c)
                                 \/ Announce(c) \/ NotAnnounced(c) \/ Save(c) \/ SaveFails(c) \/ Hang(c)
  <2>1. state' = state /\ published' = published /\ stored' \in {stored, state}
    BY <1>6 DEF Rest, Request, Cancel, feedVars, Acquire, OthersFail, FetchFails, NotModified,
                Announce, NotAnnounced, Save, SaveFails, Hang, StoreState, known
  <2> QED
    BY <2>1
<1> QED
  BY <1>2, <1>3, <1>4, <1>5, <1>6 DEF FeedNext, Poll

LEMMA NextHistory ==
  ASSUME FeedInv, FeedTypes, [FeedNext]_feedVars
  PROVE  HistoryTypes'
<1> USE DEF FeedTypes, HistoryTypes, fates
<1>1. CASE Publish \/ Rest \/ Request \/ UNCHANGED feedVars
  BY <1>1 DEF Publish, Rest, Request, feedVars
<1>2. CASE Cancel
  <2>1. cut' \in BOOLEAN
    BY <1>2, Zenon DEF Cancel, Parsing
  <2> QED
    BY <1>2, <2>1 DEF Cancel
<1>3. CASE FeedRestart
  <2>1. cut' \in BOOLEAN
    BY <1>3, Zenon DEF FeedRestart, Parsing
  <2> QED
    BY <1>3, <2>1, FeedAssumption DEF FeedRestart
<1>4. ASSUME NEW c \in Callers, Save(c) PROVE HistoryTypes'
  <2>1. cut' \in BOOLEAN
    BY <1>4, Zenon DEF Save, Parsing
  <2> QED
    BY <1>4, <2>1 DEF Save
<1>5. ASSUME NEW c \in Callers, Select(c) PROVE HistoryTypes'
  <2>1. (DOMAIN state.seen \cup Shown(poll[c].got)) \ DOMAIN state'.seen \subseteq Entries
    BY ShownEntries DEF SeenTypes, SeenOK
  <2> QED
    BY <1>5, <2>1 DEF Select
<1>6. ASSUME NEW c \in Callers, Announce(c) PROVE HistoryTypes'
  BY <1>6 DEF Announce
<1>7. ASSUME NEW c \in Callers,
             \/ Acquire(c) \/ OthersFail(c) \/ FetchFails(c) \/ NotModified(c)
             \/ Fetched(c) \/ NotAnnounced(c) \/ SaveFails(c) \/ Hang(c)
      PROVE  HistoryTypes'
  BY <1>7 DEF Acquire, OthersFail, FetchFails, NotModified, Fetched, NotAnnounced, SaveFails, Hang
<1> QED
  BY <1>1, <1>2, <1>3, <1>4, <1>5, <1>6, <1>7 DEF FeedNext, Poll

(***************************************************************************)
(* For any sizes of the feed and any limits: seen_ids is a list without    *)
(* gaps of at most max_items_per_feed ids, of which the feed's come first  *)
(* (_select_unseen()); one poll announces at most max_items_per_poll or    *)
(* max_items_per_manual entries; and the lock is held exactly by who polls *)
(* (_run(), poll_now()).                                                   *)
(***************************************************************************)
THEOREM FeedTypeCorrect == FeedSpec => []FeedTypeOK
<1>1. FeedInit => FeedInv /\ FeedTypes
  BY InitFeed, InitTypes
<1>2. FeedInv /\ FeedTypes /\ [FeedNext]_feedVars => (FeedInv /\ FeedTypes)'
  <2> SUFFICES ASSUME FeedInv, FeedTypes, [FeedNext]_feedVars PROVE FeedInv' /\ FeedTypes'
    OBVIOUS
  <2>1. FeedInv'
    BY NextFeed
  <2>2. LockTypes'
    BY NextLocks DEF FeedTypes
  <2> QED
    BY <2>1, <2>2, NextSeen, NextPolls, NextHistory DEF FeedTypes
<1> QED
  BY <1>1, <1>2, FeedTyping, PTL DEF FeedSpec

=====
