-------------------------- MODULE ChannelStateProofs --------------------------
(***************************************************************************)
(* Theorems about ChannelState, for every set of nicks, channels and       *)
(* modes: the indexes of users, channels and members agree, a NAMES answer *)
(* leaves the members who are there, and their modes are those they have;  *)
(* outside of answers nothing is left of them.                             *)
(***************************************************************************)
EXTENDS ChannelState, TLAPS

\* What one book has to keep: who was seen is a member, members are known.
Sound(b, known) ==
  /\ b.members \subseteq known
  /\ b.busy => b.seen \subseteq b.members

AllSound == \A c \in Channels : Sound(Book(c), users)

Inv ==
  /\ there \in [Channels -> SUBSET Nicks] /\ me \in Nicks
  /\ channels = Joined
  /\ AllSound

-----------------------------------------------------------------------------
(* The operations on one book.                                             *)

LEMMA JoinSound ==
  ASSUME NEW b, NEW known, NEW n, NEW c \in Channels, b = Book(c), Sound(b, known)
  PROVE  Sound(join(b, n), known \cup {n})
BY DEF Sound, join, Book

LEMMA PartSound ==
  ASSUME NEW b, NEW known, NEW n, NEW c \in Channels, b = Book(c), Sound(b, known)
  PROVE  Sound(part(b, n), known \ {n})
BY DEF Sound, part, Book

LEMMA QuitSound ==
  ASSUME NEW b, NEW known, NEW n, NEW c \in Channels, b = Book(c), Sound(b, known)
  PROVE  Sound(quit(b, n), known \ {n})
BY PartSound DEF Sound, quit

LEMMA RenameSound ==
  ASSUME NEW b, NEW known, NEW old, NEW new, NEW c \in Channels, b = Book(c), Sound(b, known)
  PROVE  Sound(rename(b, old, new), (known \ {old}) \cup {new})
BY DEF Sound, rename, Book

LEMMA AddNameSound ==
  ASSUME NEW b, NEW known, NEW e, NEW c \in Channels, b = Book(c), Sound(b, known)
  PROVE  Sound(add_name(b, e), known \cup {e.nick})
BY DEF Sound, add_name, Book

LEMMA FinishSound ==
  ASSUME NEW b, NEW known, NEW c \in Channels, b = Book(c), Sound(b, known)
  PROVE  Sound(finish_names(b), known) /\ finish_names(b).members \subseteq b.members
BY DEF Sound, finish_names, Forgotten, Book

LEMMA ModeSound ==
  ASSUME NEW b, NEW known, NEW n, NEW m, NEW enabled,
         NEW c \in Channels, b = Book(c), Sound(b, known)
  PROVE  Sound(set_membership_mode(b, n, m, enabled), known)
BY DEF Sound, set_membership_mode, Book

LEMMA WhoSound ==
  ASSUME NEW b, NEW known, NEW e, NEW c \in Channels, b = Book(c), Sound(b, known)
  PROVE  Sound(_update_who_state(b, e), known \cup {e.nick})
BY DEF Sound, _update_who_state, join, Book

\* Sound() looks at three of the fields that Write() takes apart.
LEMMA WriteBooks ==
  ASSUME NEW book, Write(book), NEW c \in Channels, NEW known, Sound(book[c], known)
  PROVE  Sound(Book(c)', known) /\ members'[c] = book[c].members
BY DEF Write, Sound, Book

LEMMA ChangeBook ==
  ASSUME NEW c \in Channels, NEW b, NEW known, Change(c, b), Sound(b, known),
         \A d \in Channels \ {c} : Sound(Book(d), known)
  PROVE  /\ \A d \in Channels : Sound(Book(d)', known)
         /\ members'[c] = b.members
         /\ \A d \in Channels \ {c} : members'[d] = members[d]
<1> DEFINE book == [d \in Channels |-> IF d = c THEN b ELSE Book(d)]
<1>1. Write(book)
  BY DEF Change
<1>2. \A d \in Channels : book[d] = IF d = c THEN b ELSE Book(d)
  OBVIOUS
<1>3. \A d \in Channels : Sound(book[d], known)
  BY <1>2
<1> HIDE DEF book
<1>4. \A d \in Channels : Sound(Book(d)', known) /\ members'[d] = book[d].members
  BY <1>1, <1>3, WriteBooks
<1>5. members'[c] = b.members
  BY <1>2, <1>4
<1>6. ASSUME NEW d \in Channels \ {c}
      PROVE  members'[d] = members[d]
  <2>1. members'[d] = Book(d).members
    BY <1>2, <1>4
  <2> QED
    BY <2>1 DEF Book
<1> QED
  BY <1>4, <1>5, <1>6

LEMMA SoundGrows ==
  ASSUME NEW b, NEW known, NEW more, Sound(b, known), known \subseteq more
  PROVE  Sound(b, more)
BY DEF Sound

\* Drop({}, n) only adds n.
LEMMA DropNobody ==
  ASSUME NEW n, Drop({}, n)
  PROVE  users' = users \cup {n}
BY DEF Drop

\* Drop() keeps who is a member anywhere, or is not asked about.
LEMMA DropKeeps ==
  ASSUME NEW nicks, NEW source, Drop(nicks, source),
         \A c \in Channels : Sound(Book(c)', users \cup {source})
  PROVE  AllSound'
BY DEF Drop, AllSound, Sound, Book

-----------------------------------------------------------------------------
LEMMA InitInv == Init => Inv
BY DEF Init, Inv, AllSound, Sound, Book, Joined, Absent

LEMMA JoinInv ==
  ASSUME Inv, NEW n \in Nicks, NEW c \in Channels, Join(n, c)
  PROVE  Inv'
<1>1. there' \in [Channels -> SUBSET Nicks] /\ me' = me
  BY DEF Join, Inv
<1>2. channels' = Joined'
  BY <1>1 DEF Join, Inv, Joined
<1>3. users' = users \cup {n}
  BY DropNobody DEF Join
<1>4. AllSound'
  <2>1. Sound(join(Book(c), n), users \cup {n})
    BY JoinSound DEF Inv, AllSound
  <2>2. \A d \in Channels \ {c} : Sound(Book(d), users \cup {n})
    BY SoundGrows DEF Inv, AllSound
  <2> QED
    BY <1>3, <2>1, <2>2, ChangeBook DEF Join, AllSound
<1> QED
  BY <1>1, <1>2, <1>4 DEF Inv

LEMMA DepartsInv ==
  ASSUME Inv, NEW n \in Nicks, NEW k \in Nicks, NEW c \in Channels, Departs(n, k, c)
  PROVE  Inv'
<1>1. there' \in [Channels -> SUBSET Nicks] /\ me' = me
  BY DEF Departs, Inv
<1>2. channels' = Joined'
  BY <1>1 DEF Departs, Inv, Joined
<1>3. \A d \in Channels : Sound(Book(d), users \cup {k})
  BY SoundGrows DEF Inv, AllSound
<1>4. CASE n = me
  <2>1. Sound(Forgotten, users \cup {k})
    BY DEF Sound, Forgotten
  <2>2. \A d \in Channels : Sound(Book(d)', users \cup {k})
    BY <1>3, <1>4, <2>1, ChangeBook DEF Departs
  <2>3. AllSound'
    BY <1>4, <2>2, DropKeeps DEF Departs
  <2> QED
    BY <1>1, <1>2, <2>3 DEF Inv
<1>5. CASE n # me
  <2>1. Sound(part(Book(c), n), users \cup {k})
    <3>1. Sound(part(Book(c), n), (users \cup {k}) \ {n})
      BY <1>3, PartSound
    <3> QED
      BY <3>1 DEF Sound
  <2>2. \A d \in Channels : Sound(Book(d)', users \cup {k})
    BY <1>3, <1>5, <2>1, ChangeBook DEF Departs
  <2>3. AllSound'
    BY <1>5, <2>2, DropKeeps DEF Departs
  <2> QED
    BY <1>1, <1>2, <2>3 DEF Inv
<1> QED
  BY <1>4, <1>5

LEMMA QuitInv ==
  ASSUME Inv, NEW n \in Nicks, Quit(n)
  PROVE  Inv'
<1>1. there' \in [Channels -> SUBSET Nicks] /\ me' = me
  BY DEF Quit, Inv
<1>2. channels' = Joined'
  BY <1>1 DEF Quit, Inv, Joined
<1>3. \A c \in Channels : Sound(quit(Book(c), n), users \ {n})
  BY QuitSound DEF Inv, AllSound
<1> DEFINE book == [c \in Channels |-> quit(Book(c), n)]
<1>4. Write(book)
  BY DEF Quit
<1>5. \A c \in Channels : Sound(book[c], users \ {n})
  BY <1>3
<1> HIDE DEF book
<1>6. AllSound'
  BY <1>4, <1>5, WriteBooks DEF Quit, AllSound
<1> QED
  BY <1>1, <1>2, <1>6 DEF Inv

LEMMA NickInv ==
  ASSUME Inv, NEW n \in Nicks, NEW new \in Nicks, Nick(n, new)
  PROVE  Inv'
<1>1. there' \in [Channels -> SUBSET Nicks] /\ me' \in Nicks
  BY DEF Nick, Inv
<1>2. channels' = Joined'
  BY DEF Nick, Inv, Joined
<1>3. \A c \in Channels : Sound(rename(Book(c), n, new), (users \ {n}) \cup {new})
  BY RenameSound DEF Inv, AllSound
<1> DEFINE book == [c \in Channels |-> rename(Book(c), n, new)]
<1>4. Write(book)
  BY DEF Nick
<1>5. \A c \in Channels : Sound(book[c], (users \ {n}) \cup {new})
  BY <1>3
<1> HIDE DEF book
<1>6. AllSound'
  BY <1>4, <1>5, WriteBooks DEF Nick, AllSound
<1> QED
  BY <1>1, <1>2, <1>6 DEF Inv

LEMMA LeaveAllInv ==
  ASSUME Inv, LeaveAll
  PROVE  Inv'
<1>1. there' \in [Channels -> SUBSET Nicks] /\ me' = me
  BY DEF LeaveAll, Inv, Absent
<1>2. channels' = Joined'
  BY DEF LeaveAll, Joined, Absent
<1>3. AllSound'
  BY DEF LeaveAll, Write, Forgotten, AllSound, Sound, Book
<1> QED
  BY <1>1, <1>2, <1>3 DEF Inv

\* MODE, and the lines of both kinds of snapshots.
LEMMA EntryInv ==
  ASSUME Inv, UNCHANGED <<there, me, channels>>, NEW c \in Channels, NEW n, NEW b,
         Change(c, b), Sound(b, users \cup {n}), Drop({}, n)
  PROVE  Inv'
<1>1. \A d \in Channels : Sound(Book(d), users \cup {n})
  BY SoundGrows DEF Inv, AllSound
<1>2. AllSound'
  BY <1>1, ChangeBook, DropNobody DEF AllSound
<1> QED
  BY <1>2 DEF Inv, Joined

LEMMA EndOfNamesInv ==
  ASSUME Inv, NEW c \in Channels, EndOfNames(c)
  PROVE  Inv'
<1>1. CASE c \in channels
  <2>1. Sound(finish_names(Book(c)), users)
    BY FinishSound DEF Inv, AllSound
  <2>2. \A d \in Channels : Sound(Book(d)', users)
    BY <1>1, <2>1, ChangeBook DEF EndOfNames, Inv, AllSound
  <2>3. AllSound'
    BY <1>1, <2>2 DEF EndOfNames, AllSound, Sound, Book
  <2> QED
    BY <2>3 DEF EndOfNames, world, Inv, Joined
<1>2. CASE c \notin channels
  BY <1>2 DEF EndOfNames, world, Kept, Inv, Joined, AllSound, Sound, Book
<1> QED
  BY <1>1, <1>2

LEMMA StillInv ==
  ASSUME Inv, UNCHANGED <<there, me, users, channels, members, names_in_progress, names_seen>>
  PROVE  Inv'
BY DEF Inv, Joined, AllSound, Sound, Book

LEMMA NextInv ==
  ASSUME Inv, [Next]_vars
  PROVE  Inv'
<1>1. ASSUME NEW c \in Channels, NEW n \in Nicks, NEW m \in Modes, Mode(n, m, c)
      PROVE  Inv'
  <2>1. PICK setter \in there[c] : Drop({}, setter)
    BY <1>1 DEF Mode
  <2> DEFINE b == set_membership_mode(Book(c), n, m, m \in has'[c][n])
  <2>2. Sound(b, users \cup {setter})
    BY ModeSound, SoundGrows DEF Inv, AllSound
  <2>3. Change(c, b)
    BY <1>1 DEF Mode, _apply_channel_modes
  <2> HIDE DEF b
  <2> QED
    BY <1>1, <2>1, <2>2, <2>3, EntryInv DEF Mode
<1>2. ASSUME NEW c \in Channels, NEW e \in left[c], Names(e, c)
      PROVE  Inv'
  <2>1. CASE c \in channels
    <3>1. Sound(add_name(Book(c), e), users \cup {e.nick})
      BY AddNameSound DEF Inv, AllSound
    <3> QED
      BY <1>2, <2>1, <3>1, EntryInv DEF Names, world
  <2>2. CASE c \notin channels
    BY <1>2, <2>2, StillInv DEF Names, world, Kept
  <2> QED
    BY <2>1, <2>2
<1>3. ASSUME NEW c \in Channels, NEW e \in who[c], WhoReply(e, c)
      PROVE  Inv'
  <2>1. CASE c \in channels
    <3>1. Sound(_update_who_state(Book(c), e), users \cup {e.nick})
      BY WhoSound DEF Inv, AllSound
    <3> QED
      BY <1>3, <2>1, <3>1, EntryInv DEF WhoReply, world
  <2>2. CASE c \notin channels
    BY <1>3, <2>2, StillInv DEF WhoReply, world, Kept
  <2> QED
    BY <2>1, <2>2
<1>4. ASSUME NEW n \in Nicks, Hear(n)
      PROVE  Inv'
  BY <1>4, DropNobody DEF Hear, world, Kept, Inv, Joined, AllSound, Sound, Book
<1>5. ASSUME NEW c \in Channels, BeginNames(c) \/ BeginWho(c)
      PROVE  Inv'
  BY <1>5, StillInv DEF BeginNames, BeginWho, world, books, Kept
<1>6. CASE UNCHANGED vars
  BY <1>6, StillInv DEF vars, world, books, Kept
<1> QED
  BY <1>1, <1>2, <1>3, <1>4, <1>5, <1>6, JoinInv, DepartsInv, QuitInv, NickInv, LeaveAllInv,
     EndOfNamesInv DEF Next, Part, Kick

(***************************************************************************)
(* For every set of nicks, channels and modes, and however NAMES and WHO   *)
(* answers fall between the other lines: every member is a known user,     *)
(* whoever was seen is a member, and there is a book for each channel that *)
(* the bot is in.  No tombstone is needed for that, only that a user is    *)
(* dropped after the last membership, which DropKeeps is about.            *)
(***************************************************************************)
THEOREM IndexesAlwaysAgree == Spec => []IndexesAgree
<1>1. Inv /\ [Next]_vars => Inv'
  BY NextInv
<1>2. Inv => IndexesAgree
  BY DEF Inv, IndexesAgree, AllSound, Sound, Book
<1> QED
  BY InitInv, <1>1, <1>2, PTL DEF Spec

-----------------------------------------------------------------------------
(* Members.  While an answer is being read, who is there was seen or is    *)
(* still to come without a tombstone, and who is still to come and is not  *)
(* there has one.                                                          *)

Covered(c) == there[c] \subseteq names_seen[c] \cup (Named(left[c]) \ names_removed[c])

Tracked(c) ==
  /\ c \notin listing => members[c] = there[c]
  /\ c \in listing /\ ~names_in_progress[c] => there[c] = Named(left[c])
  /\ c \in listing /\ names_in_progress[c] =>
       /\ names_seen[c] \subseteq there[c]
       /\ Named(left[c]) \ there[c] \subseteq names_removed[c]
       /\ Covered(c)

InOrder == \A c \in Channels : names_in_progress[c] => c \in listing /\ c \in channels

TrackInv ==
  /\ Inv
  /\ left \in [Channels -> SUBSET Entries]
  /\ InOrder
  /\ \A c \in Joined \ raced : Tracked(c)

LEMMA WriteFields ==
  ASSUME NEW book, Write(book), NEW c \in Channels
  PROVE  /\ members'[c] = book[c].members /\ names_in_progress'[c] = book[c].busy
         /\ names_seen'[c] = book[c].seen /\ names_removed'[c] = book[c].removed
BY DEF Write

LEMMA ChangeFields ==
  ASSUME NEW c \in Channels, NEW b, Change(c, b)
  PROVE  /\ members'[c] = b.members /\ names_in_progress'[c] = b.busy
         /\ names_seen'[c] = b.seen /\ names_removed'[c] = b.removed
         /\ \A d \in Channels \ {c} :
              /\ members'[d] = members[d] /\ names_in_progress'[d] = names_in_progress[d]
              /\ names_seen'[d] = names_seen[d] /\ names_removed'[d] = names_removed[d]
<1> DEFINE book == [d \in Channels |-> IF d = c THEN b ELSE Book(d)]
<1>1. Write(book)
  BY DEF Change
<1>2. book[c] = b /\ \A d \in Channels \ {c} : book[d] = Book(d)
  OBVIOUS
<1> HIDE DEF book
<1>3. /\ members'[c] = b.members /\ names_in_progress'[c] = b.busy
      /\ names_seen'[c] = b.seen /\ names_removed'[c] = b.removed
  BY <1>1, <1>2, WriteFields
<1>4. ASSUME NEW d \in Channels \ {c}
      PROVE  /\ members'[d] = members[d] /\ names_in_progress'[d] = names_in_progress[d]
             /\ names_seen'[d] = names_seen[d] /\ names_removed'[d] = names_removed[d]
  <2>1. /\ members'[d] = Book(d).members /\ names_in_progress'[d] = Book(d).busy
        /\ names_seen'[d] = Book(d).seen /\ names_removed'[d] = Book(d).removed
    BY <1>1, <1>2, WriteFields
  <2> QED
    BY <2>1 DEF Book
<1> QED
  BY <1>3, <1>4

LEMMA StillTracked ==
  ASSUME NEW c \in Channels, Tracked(c), c \in listing' <=> c \in listing,
         UNCHANGED <<there[c], left[c], members[c], names_in_progress[c], names_seen[c],
                     names_removed[c]>>
  PROVE  Tracked(c)'
BY DEF Tracked, Covered

\* What NoteRaces lets through is tracked, if it is covered.
LEMMA RacesNoted ==
  ASSUME NoteRaces, NEW c \in Channels, c \notin raced',
         c \notin listing' => members'[c] = there'[c],
         c \in listing' /\ names_in_progress'[c] => Covered(c)'
  PROVE  Tracked(c)'
BY DEF NoteRaces, Tracked

LEMMA RacedGrows ==
  ASSUME NoteRaces
  PROVE  raced \subseteq raced'
BY DEF NoteRaces

\* A new answer: nobody has been seen yet.
LEMMA AnswerTracked ==
  ASSUME NEW c \in Channels, left \in [Channels -> SUBSET Entries],
         there' \in [Channels -> SUBSET Nicks], Answers(left, c)
  PROVE  left' \in [Channels -> SUBSET Entries] /\ Named(left'[c]) = there'[c]
<1>1. PICK show \in [there'[c] -> SUBSET Modes] :
        left' = [left EXCEPT ![c] = {[nick |-> n, modes |-> show[n]] : n \in there'[c]}]
  BY DEF Answers
<1> DEFINE fresh == {[nick |-> n, modes |-> show[n]] : n \in there'[c]}
<1>2. fresh \subseteq Entries
  BY DEF Entries
<1>3. Named(fresh) = there'[c]
  <2>1. ASSUME NEW n \in there'[c]
        PROVE  n \in Named(fresh)
    <3>1. [nick |-> n, modes |-> show[n]] \in fresh
      OBVIOUS
    <3>2. [nick |-> n, modes |-> show[n]].nick = n
      OBVIOUS
    <3> HIDE DEF fresh
    <3> QED
      BY <3>1, <3>2 DEF Named
  <2>2. ASSUME NEW e \in fresh
        PROVE  e.nick \in there'[c]
    OBVIOUS
  <2> QED
    BY <2>1, <2>2 DEF Named
<1> QED
  BY <1>1, <1>2, <1>3

LEMMA TrackInit == Init => TrackInv
<1> SUFFICES ASSUME Init PROVE TrackInv
  OBVIOUS
<1>1. Inv
  BY InitInv
<1>2. left \in [Channels -> SUBSET Entries] /\ InOrder
  BY DEF Init, Absent, InOrder
<1>3. Joined = {}
  BY DEF Init, Joined, Absent
<1> QED
  BY <1>1, <1>2, <1>3 DEF TrackInv

\* JOIN, in the fields of the books.
LEMMA JoinFields ==
  ASSUME NEW n \in Nicks, NEW c \in Channels, Join(n, c)
  PROVE  /\ members'[c] = members[c] \cup {n} /\ names_in_progress'[c] = names_in_progress[c]
         /\ names_in_progress[c] =>
              names_seen'[c] = names_seen[c] \cup {n} /\ names_removed'[c] = names_removed[c] \ {n}
         /\ \A d \in Channels \ {c} :
              /\ members'[d] = members[d] /\ names_in_progress'[d] = names_in_progress[d]
              /\ names_seen'[d] = names_seen[d] /\ names_removed'[d] = names_removed[d]
<1> DEFINE b == join(Book(c), n)
<1>1. Change(c, b)
  BY DEF Join
<1>2. /\ b.members = members[c] \cup {n} /\ b.busy = names_in_progress[c]
      /\ names_in_progress[c] =>
           b.seen = names_seen[c] \cup {n} /\ b.removed = names_removed[c] \ {n}
  BY DEF join, Book
<1> HIDE DEF b
<1> QED
  BY <1>1, <1>2, ChangeFields

LEMMA JoinTracked ==
  ASSUME TrackInv, NEW n \in Nicks, NEW c \in Channels, Join(n, c)
  PROVE  TrackInv'
<1>1. Inv'
  BY JoinInv DEF TrackInv
<1>2. /\ members'[c] = members[c] \cup {n} /\ names_in_progress'[c] = names_in_progress[c]
      /\ names_in_progress[c] =>
           names_seen'[c] = names_seen[c] \cup {n} /\ names_removed'[c] = names_removed[c] \ {n}
      /\ \A d \in Channels \ {c} :
           /\ members'[d] = members[d] /\ names_in_progress'[d] = names_in_progress[d]
           /\ names_seen'[d] = names_seen[d] /\ names_removed'[d] = names_removed[d]
  BY JoinFields
<1>3. there \in [Channels -> SUBSET Nicks] /\ there' \in [Channels -> SUBSET Nicks]
      /\ channels = Joined /\ channels' = Joined' /\ me' = me
  BY <1>1 DEF TrackInv, Inv, Join
<1>4. \A d \in Channels \ {c} : there'[d] = there[d] /\ (d \in Joined' <=> d \in Joined)
  BY <1>3 DEF Join, Joined
<1>5. CASE n = me
  <2>1. c \notin Joined /\ c \notin listing
    BY <1>5 DEF Join, Joined
  <2>2. left' \in [Channels -> SUBSET Entries] /\ Named(left'[c]) = there'[c]
    BY <1>3, <1>5, AnswerTracked DEF Join, TrackInv
  <2>3. ~names_in_progress[c]
    BY <2>1 DEF TrackInv, InOrder
  <2>4. InOrder'
    BY <1>2, <1>5 DEF Join, TrackInv, InOrder
  <2>5. Tracked(c)'
    BY <1>2, <1>5, <2>2, <2>3 DEF Join, Tracked
  <2>6. ASSUME NEW d \in Joined' \ raced', d # c
        PROVE  Tracked(d)'
    <3>1. d \in Channels /\ Tracked(d) /\ left'[d] = left[d] /\ (d \in listing' <=> d \in listing)
      BY <1>4, <1>5, <2>6 DEF Join, TrackInv, Joined, Answers
    <3> QED
      BY <1>2, <1>4, <2>6, <3>1, StillTracked
  <2> QED
    BY <1>1, <2>2, <2>4, <2>5, <2>6 DEF TrackInv
<1>6. CASE n # me
  <2>1. c \in Joined /\ there' = [there EXCEPT ![c] = @ \cup {n}] /\ Joined' = Joined
        /\ UNCHANGED <<left, listing, channels>> /\ NoteRaces
    BY <1>3, <1>6 DEF Join, TrackInv, Joined
  <2>2. left' \in [Channels -> SUBSET Entries] /\ InOrder'
    BY <1>2, <2>1 DEF TrackInv, InOrder
  <2>3. ASSUME NEW d \in Joined' \ raced'
        PROVE  Tracked(d)'
    <3>1. d \in Channels /\ Tracked(d)
      BY <2>1, <2>3, RacedGrows DEF TrackInv, Joined
    <3>2. CASE d = c
      <4>1. there'[c] = there[c] \cup {n}
        BY <1>3, <2>1
      <4>2. c \notin listing' => members'[c] = there'[c]
        BY <1>2, <2>1, <3>1, <3>2, <4>1 DEF Tracked
      <4>3. c \in listing' /\ names_in_progress'[c] => Covered(c)'
        BY <1>2, <2>1, <3>1, <3>2, <4>1 DEF Tracked, Covered
      <4> QED
        BY <2>1, <2>3, <3>2, <4>2, <4>3, RacesNoted
    <3>3. CASE d # c
      BY <1>2, <1>4, <2>1, <3>1, <3>3, StillTracked
    <3> QED
      BY <3>2, <3>3
  <2> QED
    BY <1>1, <2>2, <2>3 DEF TrackInv
<1> QED
  BY <1>5, <1>6

LEMMA DepartsTracked ==
  ASSUME TrackInv, NEW n \in Nicks, NEW k \in Nicks, NEW c \in Channels, Departs(n, k, c)
  PROVE  TrackInv'
<1>1. Inv'
  BY DepartsInv DEF TrackInv
<1> DEFINE b == IF n = me THEN Forgotten ELSE part(Book(c), n)
<1>2. Change(c, b)
  BY DEF Departs
<1>3. /\ members'[c] = b.members /\ names_in_progress'[c] = b.busy
      /\ names_seen'[c] = b.seen /\ names_removed'[c] = b.removed
      /\ \A d \in Channels \ {c} :
           /\ members'[d] = members[d] /\ names_in_progress'[d] = names_in_progress[d]
           /\ names_seen'[d] = names_seen[d] /\ names_removed'[d] = names_removed[d]
  BY <1>2, ChangeFields
<1>4. there \in [Channels -> SUBSET Nicks] /\ there' \in [Channels -> SUBSET Nicks]
      /\ channels = Joined /\ channels' = Joined' /\ me' = me
      /\ UNCHANGED <<left, listing>> /\ NoteRaces
  BY <1>1 DEF TrackInv, Inv, Departs, answers
<1>5. \A d \in Channels \ {c} : there'[d] = there[d] /\ (d \in Joined' <=> d \in Joined)
  BY <1>4 DEF Departs, Joined
<1>6. n = me => ~names_in_progress'[c] /\ c \notin Joined'
  BY <1>3, <1>4 DEF Forgotten, Departs, Joined
<1>7. n # me => /\ names_in_progress'[c] = names_in_progress[c] /\ channels' = channels
                /\ members'[c] = members[c] \ {n} /\ there'[c] = there[c] \ {n}
                /\ names_in_progress[c] => /\ names_seen'[c] = names_seen[c] \ {n}
                                           /\ names_removed'[c] = names_removed[c] \cup {n}
  BY <1>3, <1>4 DEF part, Book, Departs
<1>8. InOrder'
  <2>1. CASE n = me
    BY <1>3, <1>4, <1>6, <2>1 DEF TrackInv, InOrder, Departs
  <2>2. CASE n # me
    BY <1>3, <1>4, <1>7, <2>2 DEF TrackInv, InOrder
  <2> QED
    BY <2>1, <2>2
<1>9. ASSUME NEW d \in Joined' \ raced'
      PROVE  Tracked(d)'
  <2>1. d \in Channels /\ d \notin raced
    BY <1>4, <1>9, RacedGrows DEF Joined
  <2>2. CASE d = c
    <3>1. n # me /\ Tracked(c)
      BY <1>4, <1>6, <1>7, <1>9, <2>1, <2>2 DEF TrackInv
    <3>2. c \notin listing' => members'[c] = there'[c]
      BY <1>4, <1>7, <3>1 DEF Tracked
    <3>3. c \in listing' /\ names_in_progress'[c] => Covered(c)'
      BY <1>4, <1>7, <3>1 DEF Tracked, Covered
    <3> QED
      BY <1>4, <1>9, <2>2, <3>2, <3>3, RacesNoted
  <2>3. CASE d # c
    <3>1. Tracked(d)
      BY <1>5, <1>9, <2>1, <2>3 DEF TrackInv
    <3> QED
      BY <1>3, <1>4, <1>5, <2>1, <2>3, <3>1, StillTracked
  <2> QED
    BY <2>2, <2>3
<1> QED
  BY <1>1, <1>4, <1>8, <1>9 DEF TrackInv

\* What a nick change does to one book.
LEMMA RenameFields ==
  ASSUME NEW c \in Channels, NEW n, NEW new
  PROVE  LET b == rename(Book(c), n, new) IN
         /\ b.busy = names_in_progress[c]
         /\ n \notin members[c] =>
              b.members = members[c] /\ b.seen = names_seen[c] /\ b.removed = names_removed[c]
         /\ n \in members[c] =>
              /\ b.members = (members[c] \ {n}) \cup {new}
              /\ names_in_progress[c] => /\ b.seen = (names_seen[c] \ {n}) \cup {new}
                                         /\ b.removed = names_removed[c] \cup {n}
BY DEF rename, Book

\* NICK, in the fields of the books.
LEMMA NickFields ==
  ASSUME NEW n \in Nicks, NEW new \in Nicks, Nick(n, new), NEW c \in Channels
  PROVE  /\ names_in_progress'[c] = names_in_progress[c]
         /\ n \notin members[c] => /\ members'[c] = members[c] /\ names_seen'[c] = names_seen[c]
                                   /\ names_removed'[c] = names_removed[c]
         /\ n \in members[c] =>
              /\ members'[c] = (members[c] \ {n}) \cup {new}
              /\ names_in_progress[c] => /\ names_seen'[c] = (names_seen[c] \ {n}) \cup {new}
                                         /\ names_removed'[c] = names_removed[c] \cup {n}
<1> DEFINE book == [d \in Channels |-> rename(Book(d), n, new)]
<1>1. Write(book)
  BY DEF Nick
<1>2. book[c] = rename(Book(c), n, new)
  OBVIOUS
<1> HIDE DEF book
<1>3. /\ members'[c] = rename(Book(c), n, new).members
      /\ names_in_progress'[c] = rename(Book(c), n, new).busy
      /\ names_seen'[c] = rename(Book(c), n, new).seen
      /\ names_removed'[c] = rename(Book(c), n, new).removed
  BY <1>1, <1>2, WriteFields
<1> QED
  BY <1>3, RenameFields

LEMMA NickTracked ==
  ASSUME TrackInv, NEW n \in Nicks, NEW new \in Nicks, Nick(n, new)
  PROVE  TrackInv'
<1>1. Inv'
  BY NickInv DEF TrackInv
<1>2. ASSUME NEW c \in Channels
      PROVE  /\ names_in_progress'[c] = names_in_progress[c]
             /\ n \notin members[c] => /\ members'[c] = members[c] /\ names_seen'[c] = names_seen[c]
                                       /\ names_removed'[c] = names_removed[c]
             /\ n \in members[c] =>
                  /\ members'[c] = (members[c] \ {n}) \cup {new}
                  /\ names_in_progress[c] => /\ names_seen'[c] = (names_seen[c] \ {n}) \cup {new}
                                             /\ names_removed'[c] = names_removed[c] \cup {n}
  BY NickFields
<1>3. UNCHANGED <<left, listing, channels>> /\ NoteRaces /\ Joined' = Joined
  BY <1>1 DEF Nick, answers, TrackInv, Inv
<1>4. InOrder'
  BY <1>2, <1>3 DEF TrackInv, InOrder
<1>5. ASSUME NEW c \in Joined' \ raced'
      PROVE  Tracked(c)'
  <2>1. c \in Channels /\ c \in Joined /\ Tracked(c)
    BY <1>3, <1>5, RacedGrows DEF TrackInv, Joined
  <2>2. /\ n \in there[c] => there'[c] = (there[c] \ {n}) \cup {new}
        /\ n \notin there[c] => there'[c] = there[c]
        /\ new = n \/ new \notin there[c]
    BY <2>1 DEF Nick
  <2>3. ASSUME c \notin listing'
        PROVE  members'[c] = there'[c]
    <3>1. members[c] = there[c]
      BY <1>3, <2>1, <2>3 DEF Tracked
    <3>2. CASE n \in members[c]
      BY <1>2, <2>1, <2>2, <3>1, <3>2
    <3>3. CASE n \notin members[c]
      BY <1>2, <2>1, <2>2, <3>1, <3>3
    <3> QED
      BY <3>2, <3>3
  <2>4. ASSUME c \in listing', names_in_progress'[c]
        PROVE  Covered(c)'
    <3>1. names_seen[c] \subseteq members[c] /\ Covered(c) /\ names_seen[c] \subseteq there[c]
          /\ names_in_progress[c]
      BY <1>2, <1>3, <2>1, <2>4 DEF TrackInv, Inv, AllSound, Sound, Book, Tracked
    <3>2. CASE n \in members[c]
      BY <1>2, <1>3, <2>1, <2>2, <3>1, <3>2 DEF Covered
    <3>3. CASE n \notin members[c] /\ (new = n \/ n \notin there[c])
      BY <1>2, <1>3, <2>1, <2>2, <3>1, <3>3 DEF Covered
    <3>4. CASE n \notin members[c] /\ new # n /\ n \in there[c]
      <4>1. n \in Named(left'[c]) \ there'[c] /\ n \notin names_removed'[c]
        BY <1>2, <1>3, <2>1, <2>2, <3>1, <3>4 DEF Covered
      <4> QED
        BY <1>3, <1>5, <2>1, <2>4, <4>1 DEF NoteRaces
    <3> QED
      BY <3>2, <3>3, <3>4
  <2> QED
    BY <1>3, <1>5, <2>1, <2>3, <2>4, RacesNoted
<1> QED
  BY <1>1, <1>3, <1>4, <1>5 DEF TrackInv

\* QUIT, in the fields of the books.
LEMMA QuitFields ==
  ASSUME NEW n \in Nicks, Quit(n), NEW c \in Channels
  PROVE  /\ names_in_progress'[c] = names_in_progress[c]
         /\ members'[c] = members[c] \ {n}
         /\ n \notin members[c] => /\ names_seen'[c] = names_seen[c]
                                   /\ names_removed'[c] = names_removed[c]
         /\ n \in members[c] /\ names_in_progress[c] =>
              /\ names_seen'[c] = names_seen[c] \ {n}
              /\ names_removed'[c] = names_removed[c] \cup {n}
<1> DEFINE book == [d \in Channels |-> quit(Book(d), n)]
<1>1. Write(book)
  BY DEF Quit
<1>2. book[c] = quit(Book(c), n)
  OBVIOUS
<1> HIDE DEF book
<1>3. /\ members'[c] = quit(Book(c), n).members
      /\ names_in_progress'[c] = quit(Book(c), n).busy
      /\ names_seen'[c] = quit(Book(c), n).seen
      /\ names_removed'[c] = quit(Book(c), n).removed
  BY <1>1, <1>2, WriteFields
<1> QED
  BY <1>3 DEF quit, part, Book

LEMMA QuitTracked ==
  ASSUME TrackInv, NEW n \in Nicks, Quit(n)
  PROVE  TrackInv'
<1>1. Inv'
  BY QuitInv DEF TrackInv
<1>2. ASSUME NEW c \in Channels
      PROVE  /\ names_in_progress'[c] = names_in_progress[c]
             /\ members'[c] = members[c] \ {n}
             /\ n \notin members[c] => /\ names_seen'[c] = names_seen[c]
                                       /\ names_removed'[c] = names_removed[c]
             /\ n \in members[c] /\ names_in_progress[c] =>
                  /\ names_seen'[c] = names_seen[c] \ {n}
                  /\ names_removed'[c] = names_removed[c] \cup {n}
  BY QuitFields
<1>3. UNCHANGED <<left, listing, channels>> /\ NoteRaces /\ Joined' = Joined
  BY <1>1 DEF Quit, answers, TrackInv, Inv
<1>4. InOrder'
  BY <1>2, <1>3 DEF TrackInv, InOrder
<1>5. ASSUME NEW c \in Joined' \ raced'
      PROVE  Tracked(c)'
  <2>1. c \in Channels /\ Tracked(c) /\ there'[c] = there[c] \ {n}
    BY <1>3, <1>5, RacedGrows DEF TrackInv, Joined, Quit
  <2>2. c \notin listing' => members'[c] = there'[c]
    BY <1>2, <1>3, <2>1 DEF Tracked
  <2>3. ASSUME c \in listing', names_in_progress'[c]
        PROVE  Covered(c)'
    <3>1. Covered(c) /\ names_in_progress[c]
      BY <1>2, <1>3, <2>1, <2>3 DEF Tracked
    <3> QED
      BY <1>2, <1>3, <2>1, <3>1 DEF Covered
  <2> QED
    BY <1>3, <1>5, <2>1, <2>2, <2>3, RacesNoted
<1> QED
  BY <1>1, <1>3, <1>4, <1>5 DEF TrackInv

\* What changes neither an answer nor who is there, seen or a member.
LEMMA StillTrackInv ==
  ASSUME TrackInv, Inv',
         UNCHANGED <<there, me, channels, listing, left, raced, members, names_in_progress,
                     names_seen, names_removed>>
  PROVE  TrackInv'
BY DEF TrackInv, InOrder, Tracked, Covered, Joined

LEMMA ModeTracked ==
  ASSUME TrackInv, NEW n \in Nicks, NEW m \in Modes, NEW c \in Channels, Mode(n, m, c)
  PROVE  TrackInv'
<1>1. Inv'
  BY NextInv DEF Next, TrackInv
<1> DEFINE b == set_membership_mode(Book(c), n, m, m \in has'[c][n])
<1>2. Change(c, b)
  BY DEF Mode, _apply_channel_modes
<1>3. b.members = members[c] /\ b.busy = names_in_progress[c] /\ b.seen = names_seen[c]
      /\ b.removed = names_removed[c]
  BY DEF set_membership_mode, Book
<1> HIDE DEF b
<1>4. \A d \in Channels :
        UNCHANGED <<members[d], names_in_progress[d], names_seen[d], names_removed[d]>>
  BY <1>2, <1>3, ChangeFields
<1>5. UNCHANGED <<there, me, channels, listing, left, raced>> /\ Joined' = Joined
  BY DEF Mode, answers, Joined
<1>6. \A d \in Joined' \ raced' : Tracked(d)'
  BY <1>4, <1>5, StillTracked DEF TrackInv, Joined
<1>7. InOrder'
  BY <1>4, <1>5 DEF TrackInv, InOrder
<1> QED
  BY <1>1, <1>5, <1>6, <1>7 DEF TrackInv

\* 353 for a channel with a book, in the fields of the books.
LEMMA NamesFields ==
  ASSUME NEW c \in Channels, NEW e, Names(e, c), c \in channels
  PROVE  /\ names_in_progress'[c]
         /\ names_in_progress[c] =>
              /\ names_removed'[c] = names_removed[c]
              /\ e.nick \in names_removed[c] => names_seen'[c] = names_seen[c]
              /\ e.nick \notin names_removed[c] => names_seen'[c] = names_seen[c] \cup {e.nick}
         /\ ~names_in_progress[c] => names_seen'[c] = {e.nick} /\ names_removed'[c] = {}
         /\ \A d \in Channels \ {c} :
              UNCHANGED <<members[d], names_in_progress[d], names_seen[d], names_removed[d]>>
<1> DEFINE b == add_name(Book(c), e)
<1>1. Change(c, b)
  BY DEF Names
<1>2. b.busy /\ IF names_in_progress[c]
                THEN IF e.nick \in names_removed[c]
                     THEN b.seen = names_seen[c] /\ b.removed = names_removed[c]
                     ELSE b.seen = names_seen[c] \cup {e.nick} /\ b.removed = names_removed[c]
                ELSE b.seen = {e.nick} /\ b.removed = {}
  BY DEF add_name, Book
<1> HIDE DEF b
<1> QED
  BY <1>1, <1>2, ChangeFields

LEMMA NamesTracked ==
  ASSUME TrackInv, NEW c \in Channels, NEW e \in left[c], Names(e, c)
  PROVE  TrackInv'
<1>1. Inv'
  BY NextInv DEF Next, TrackInv
<1>2. UNCHANGED <<there, me, channels, listing, raced>> /\ Joined' = Joined /\ c \in listing
      /\ left' = [left EXCEPT ![c] = @ \ {e}] /\ left' \in [Channels -> SUBSET Entries]
  BY DEF Names, world, Joined, TrackInv
<1>3. CASE c \notin channels
  <2>1. UNCHANGED <<members, names_in_progress, names_seen, names_removed>> /\ c \notin Joined
    BY <1>3 DEF Names, Kept, TrackInv, Inv
  <2>2. InOrder'
    BY <1>2, <2>1 DEF TrackInv, InOrder
  <2>3. \A d \in Joined' \ raced' : Tracked(d)'
    BY <1>2, <2>1, StillTracked DEF TrackInv, Joined
  <2> QED
    BY <1>1, <1>2, <2>2, <2>3 DEF TrackInv
<1>4. CASE c \in channels
  <2>3. /\ names_in_progress'[c]
        /\ names_in_progress[c] =>
             /\ names_removed'[c] = names_removed[c]
             /\ e.nick \in names_removed[c] => names_seen'[c] = names_seen[c]
             /\ e.nick \notin names_removed[c] => names_seen'[c] = names_seen[c] \cup {e.nick}
        /\ ~names_in_progress[c] => names_seen'[c] = {e.nick} /\ names_removed'[c] = {}
        /\ \A d \in Channels \ {c} :
             UNCHANGED <<members[d], names_in_progress[d], names_seen[d], names_removed[d]>>
    BY <1>4, NamesFields
  <2>4. InOrder'
    BY <1>2, <1>4, <2>3 DEF TrackInv, InOrder
  <2>5. e.nick \in Named(left[c]) /\ Named(left'[c]) \subseteq Named(left[c])
        /\ Named(left[c]) \subseteq Named(left'[c]) \cup {e.nick}
    BY <1>2 DEF Named, TrackInv
  <2>6. ASSUME NEW d \in Joined' \ raced'
        PROVE  Tracked(d)'
    <3>1. d \in Channels /\ Tracked(d) /\ there'[d] = there[d]
      BY <1>2, <2>6 DEF TrackInv, Joined
    <3>2. CASE d = c /\ names_in_progress[c]
      <4>1. /\ names_seen[c] \subseteq there[c]
            /\ Named(left[c]) \ there[c] \subseteq names_removed[c]
            /\ there[c] \subseteq names_seen[c] \cup (Named(left[c]) \ names_removed[c])
        BY <1>2, <3>1, <3>2 DEF Tracked, Covered
      <4>2. /\ names_seen'[c] \subseteq there'[c]
            /\ Named(left'[c]) \ there'[c] \subseteq names_removed'[c]
        BY <2>3, <2>5, <3>1, <3>2, <4>1
      <4>3. Covered(c)'
        BY <2>3, <2>5, <3>1, <3>2, <4>1 DEF Covered
      <4> QED
        BY <1>2, <2>3, <3>2, <4>2, <4>3 DEF Tracked
    <3>3. CASE d = c /\ ~names_in_progress[c]
      <4>1. there[c] = Named(left[c])
        BY <1>2, <3>1, <3>3 DEF Tracked
      <4>2. /\ names_seen'[c] \subseteq there'[c]
            /\ Named(left'[c]) \ there'[c] \subseteq names_removed'[c]
        BY <2>3, <2>5, <3>1, <3>3, <4>1
      <4>3. Covered(c)'
        BY <2>3, <2>5, <3>1, <3>3, <4>1 DEF Covered
      <4> QED
        BY <1>2, <2>3, <3>3, <4>2, <4>3 DEF Tracked
    <3>4. CASE d # c
      BY <1>2, <2>3, <3>1, <3>4, StillTracked DEF TrackInv
    <3> QED
      BY <3>2, <3>3, <3>4
  <2> QED
    BY <1>1, <1>2, <2>4, <2>6 DEF TrackInv
<1> QED
  BY <1>3, <1>4

\* 352 or 354 for a channel with a book, in the fields of the books.
LEMMA WhoFields ==
  ASSUME NEW c \in Channels, NEW e, WhoReply(e, c), c \in channels
  PROVE  /\ members'[c] = members[c] \cup {e.nick}
         /\ names_in_progress'[c] = names_in_progress[c]
         /\ names_in_progress[c] => names_seen'[c] = names_seen[c] \cup {e.nick}
                                    /\ names_removed'[c] = names_removed[c] \ {e.nick}
         /\ \A d \in Channels \ {c} :
              UNCHANGED <<members[d], names_in_progress[d], names_seen[d], names_removed[d]>>
<1> DEFINE b == _update_who_state(Book(c), e)
<1>1. Change(c, b)
  BY DEF WhoReply
<1>2. /\ b.members = members[c] \cup {e.nick} /\ b.busy = names_in_progress[c]
      /\ names_in_progress[c] => b.seen = names_seen[c] \cup {e.nick}
                                 /\ b.removed = names_removed[c] \ {e.nick}
  BY DEF _update_who_state, join, Book
<1> HIDE DEF b
<1> QED
  BY <1>1, <1>2, ChangeFields

LEMMA WhoTracked ==
  ASSUME TrackInv, NEW c \in Channels, NEW e \in who[c], WhoReply(e, c)
  PROVE  TrackInv'
<1>1. Inv'
  BY NextInv DEF Next, TrackInv
<1>2. UNCHANGED <<there, me, channels, listing, left>> /\ Joined' = Joined
      /\ raced' = IF e.nick \in there[c] THEN raced ELSE raced \cup {c}
  BY DEF WhoReply, world, Joined
<1>3. CASE c \notin channels
  <2>1. UNCHANGED <<members, names_in_progress, names_seen, names_removed>>
    BY <1>3 DEF WhoReply, Kept
  <2>2. InOrder'
    BY <1>2, <2>1 DEF TrackInv, InOrder
  <2>3. \A d \in Joined' \ raced' : Tracked(d)'
    BY <1>2, <2>1, StillTracked DEF TrackInv, Joined
  <2> QED
    BY <1>1, <1>2, <2>2, <2>3 DEF TrackInv
<1>4. CASE c \in channels
  <2>3. /\ members'[c] = members[c] \cup {e.nick}
        /\ names_in_progress'[c] = names_in_progress[c]
        /\ names_in_progress[c] => names_seen'[c] = names_seen[c] \cup {e.nick}
                                   /\ names_removed'[c] = names_removed[c] \ {e.nick}
        /\ \A d \in Channels \ {c} :
             UNCHANGED <<members[d], names_in_progress[d], names_seen[d], names_removed[d]>>
    BY <1>4, WhoFields
  <2>4. InOrder'
    BY <1>2, <2>3 DEF TrackInv, InOrder
  <2>5. ASSUME NEW d \in Joined' \ raced'
        PROVE  Tracked(d)'
    <3>1. d \in Channels /\ Tracked(d) /\ there'[d] = there[d] /\ left'[d] = left[d]
      BY <1>2, <2>5 DEF TrackInv, Joined
    <3>2. CASE d = c
      <4>1. e.nick \in there[c]
        BY <1>2, <2>5, <3>2
      <4>2. CASE c \notin listing
        BY <1>2, <2>3, <3>1, <3>2, <4>1, <4>2 DEF Tracked
      <4>3. CASE c \in listing /\ ~names_in_progress[c]
        BY <1>2, <2>3, <3>1, <3>2, <4>3 DEF Tracked
      <4>4. CASE c \in listing /\ names_in_progress[c]
        <5>1. Covered(c)'
          BY <2>3, <3>1, <3>2, <4>1, <4>4 DEF Tracked, Covered
        <5>2. /\ names_seen'[c] \subseteq there'[c]
              /\ Named(left'[c]) \ there'[c] \subseteq names_removed'[c]
          BY <2>3, <3>1, <3>2, <4>1, <4>4 DEF Tracked
        <5> QED
          BY <1>2, <2>3, <3>2, <4>4, <5>1, <5>2 DEF Tracked
      <4> QED
        BY <4>2, <4>3, <4>4
    <3>3. CASE d # c
      BY <1>2, <2>3, <3>1, <3>3, StillTracked
    <3> QED
      BY <3>2, <3>3
  <2> QED
    BY <1>1, <1>2, <2>4, <2>5 DEF TrackInv
<1> QED
  BY <1>3, <1>4

\* The last line: who was seen and is a member is there.
LEMMA EndTracked ==
  ASSUME TrackInv, NEW c \in Channels, EndOfNames(c)
  PROVE  TrackInv'
<1>1. Inv'
  BY EndOfNamesInv DEF TrackInv
<1>2. UNCHANGED <<there, me, channels, left, raced>> /\ Joined' = Joined
      /\ c \in listing /\ left[c] = {} /\ listing' = listing \ {c}
  BY DEF EndOfNames, world, Joined
<1>3. CASE c \notin channels
  <2>1. UNCHANGED <<members, names_in_progress, names_seen, names_removed>> /\ c \notin Joined
    BY <1>3 DEF EndOfNames, Kept, TrackInv, Inv
  <2>2. InOrder'
    BY <1>2, <1>3, <2>1 DEF TrackInv, InOrder
  <2>3. \A d \in Joined' \ raced' : Tracked(d)'
    BY <1>2, <2>1, StillTracked DEF TrackInv, Joined
  <2> QED
    BY <1>1, <1>2, <2>2, <2>3 DEF TrackInv
<1>4. CASE c \in channels
  <2> DEFINE b == finish_names(Book(c))
  <2>1. Change(c, b)
    BY <1>4 DEF EndOfNames
  <2>2. ~b.busy /\ (names_in_progress[c] => b.members = members[c] \cap names_seen[c])
    BY DEF finish_names, Forgotten, Book
  <2> HIDE DEF b
  <2>3. /\ ~names_in_progress'[c]
        /\ names_in_progress[c] => members'[c] = members[c] \cap names_seen[c]
        /\ \A d \in Channels \ {c} :
             UNCHANGED <<members[d], names_in_progress[d], names_seen[d], names_removed[d]>>
    BY <2>1, <2>2, ChangeFields
  <2>4. InOrder'
    BY <1>2, <2>3 DEF TrackInv, InOrder
  <2>5. ASSUME NEW d \in Joined' \ raced'
        PROVE  Tracked(d)'
    <3>1. d \in Channels /\ d \in Joined /\ Tracked(d)
      BY <1>2, <2>5 DEF TrackInv, Joined
    <3>2. CASE d = c
      <4>1. Named(left[c]) = {}
        BY <1>2 DEF Named
      <4>2. names_in_progress[c]
        BY <1>2, <3>1, <3>2, <4>1 DEF Tracked, Joined
      <4>3. names_seen[c] \subseteq members[c]
        BY <4>2 DEF TrackInv, Inv, AllSound, Sound, Book
      <4>4. members'[c] = there'[c]
        BY <1>2, <2>3, <3>1, <3>2, <4>1, <4>2, <4>3 DEF Tracked, Covered
      <4> QED
        BY <1>2, <3>2, <4>4 DEF Tracked
    <3>3. CASE d # c
      BY <1>2, <2>3, <3>1, <3>3, StillTracked
    <3> QED
      BY <3>2, <3>3
  <2> QED
    BY <1>1, <1>2, <2>4, <2>5 DEF TrackInv
<1> QED
  BY <1>3, <1>4

LEMMA BeginTracked ==
  ASSUME TrackInv, NEW c \in Channels, BeginNames(c)
  PROVE  TrackInv'
<1>1. Inv'
  BY NextInv DEF Next, TrackInv
<1>2. UNCHANGED <<there, me, channels, members, names_in_progress, names_seen, names_removed>>
      /\ Joined' = Joined /\ c \notin listing /\ listing' = listing \cup {c}
      /\ raced' = raced \ {c} /\ Answers(left, c) /\ there' \in [Channels -> SUBSET Nicks]
  BY DEF BeginNames, world, books, Kept, Joined, TrackInv, Inv
<1>3. left' \in [Channels -> SUBSET Entries] /\ Named(left'[c]) = there'[c]
  BY <1>2, AnswerTracked DEF TrackInv
<1>4. ~names_in_progress[c] /\ InOrder'
  BY <1>2 DEF TrackInv, InOrder
<1>5. ASSUME NEW d \in Joined' \ raced'
      PROVE  Tracked(d)'
  <2>1. CASE d = c
    BY <1>2, <1>3, <1>4, <2>1 DEF Tracked
  <2>2. CASE d # c
    <3>1. d \in Channels /\ Tracked(d) /\ left'[d] = left[d]
      BY <1>2, <1>5, <2>2 DEF TrackInv, Joined, Answers
    <3> QED
      BY <1>2, <2>2, <3>1, StillTracked
  <2> QED
    BY <2>1, <2>2
<1> QED
  BY <1>1, <1>3, <1>4, <1>5 DEF TrackInv

LEMMA TrackNext ==
  ASSUME TrackInv, [Next]_vars
  PROVE  TrackInv'
<1>1. Inv'
  BY NextInv DEF TrackInv
<1>2. CASE LeaveAll
  <2>1. Joined' = {}
    BY <1>2 DEF LeaveAll, Joined, Absent
  <2>2. InOrder'
    BY <1>2 DEF LeaveAll, Write, Forgotten, InOrder
  <2> QED
    BY <1>1, <1>2, <2>1, <2>2 DEF LeaveAll, answers, TrackInv
<1>3. ASSUME NEW n \in Nicks, Hear(n)
      PROVE  TrackInv'
  BY <1>1, <1>3, StillTrackInv DEF Hear, world, Kept, answers
<1>4. ASSUME NEW c \in Channels, BeginWho(c)
      PROVE  TrackInv'
  BY <1>1, <1>4, StillTrackInv DEF BeginWho, world, books, Kept
<1>5. CASE UNCHANGED vars
  BY <1>1, <1>5, StillTrackInv DEF vars, world, books, Kept, answers
<1> QED
  BY <1>2, <1>3, <1>4, <1>5, JoinTracked, DepartsTracked, NickTracked, QuitTracked, ModeTracked,
     NamesTracked, WhoTracked, EndTracked, BeginTracked DEF Next, Part, Kick

(***************************************************************************)
(* For every set of nicks and channels and any number of answers, cut into *)
(* lines anywhere: after 366 the members are those who are there, unless   *)
(* one of the named races has happened since the answer began.  Tombstones *)
(* and names_seen together are just enough for that.                       *)
(***************************************************************************)
THEOREM ResyncIsRight == Spec => []MembersAreThere
<1>1. TrackInv /\ [Next]_vars => TrackInv'
  BY TrackNext
<1>2. TrackInv => MembersAreThere
  BY DEF TrackInv, MembersAreThere, Tracked
<1> QED
  BY TrackInit, <1>1, <1>2, PTL DEF Spec

-----------------------------------------------------------------------------
(* Modes.  While an answer is being read, the books are right about those  *)
(* who were seen, unless an entry about them is still to come.             *)

Agrees(c, n) ==
  IF MultiPrefix THEN modes[c][n] = has[c][n] ELSE modes[c][n] \subseteq has[c][n]

Awaited(c) == Named(left[c]) \ names_removed[c]

Settled(c, n) == c \notin listing \/ (names_in_progress[c] /\ n \in names_seen[c] \ Awaited(c))

ModesTracked(c) == \A n \in Nicks : Settled(c, n) => Agrees(c, n)

ModeTypes ==
  /\ has \in [Channels -> [Nicks -> SUBSET Modes]]
  /\ modes \in [Channels -> [Nicks -> SUBSET Modes]]
  /\ who \in [Channels -> SUBSET Entries]

\* Only who is there has modes.
HeldThere == \A c \in Channels : \A n \in Nicks \ there[c] : has[c][n] = {}

ModesInv ==
  /\ TrackInv
  /\ ModeTypes
  /\ HeldThere
  /\ \A c \in Joined \ (raced \cup outdated) : ModesTracked(c)

\* What the operations do to the modes in a book.
LEMMA OperationModes ==
  ASSUME NEW c \in Channels, modes \in [Channels -> [Nicks -> SUBSET Modes]]
  PROVE  /\ \A n : join(Book(c), n).modes = modes[c]
         /\ \A n : part(Book(c), n).modes = [modes[c] EXCEPT ![n] = {}]
         /\ \A n : quit(Book(c), n).modes =
              IF n \in members[c] THEN [modes[c] EXCEPT ![n] = {}] ELSE modes[c]
         /\ \A old, new : rename(Book(c), old, new).modes =
              IF old \in members[c] THEN Moved(modes[c], old, new) ELSE modes[c]
         /\ \A e : add_name(Book(c), e).modes =
              IF names_in_progress[c] /\ e.nick \in names_removed[c] THEN modes[c]
              ELSE [modes[c] EXCEPT ![e.nick] = e.modes]
         /\ finish_names(Book(c)).modes =
              IF names_in_progress[c]
              THEN [n \in Nicks |-> IF n \in names_seen[c] THEN modes[c][n] ELSE {}]
              ELSE modes[c]
         /\ \A n, m, on : set_membership_mode(Book(c), n, m, on).modes =
              IF n \notin members[c] THEN modes[c]
              ELSE [modes[c] EXCEPT ![n] = IF on THEN @ \cup {m} ELSE @ \ {m}]
         /\ \A e : _update_who_state(Book(c), e).modes =
              [modes[c] EXCEPT ![e.nick] = @ \cup e.modes]
<1>1. \A n : join(Book(c), n).modes = modes[c]
  BY DEF Book, join
<1>2. \A n : part(Book(c), n).modes = [modes[c] EXCEPT ![n] = {}]
  BY DEF Book, part
<1>3. \A n : quit(Book(c), n).modes =
        IF n \in members[c] THEN [modes[c] EXCEPT ![n] = {}] ELSE modes[c]
  BY <1>2 DEF Book, quit
<1>4. \A old, new : rename(Book(c), old, new).modes =
        IF old \in members[c] THEN Moved(modes[c], old, new) ELSE modes[c]
  BY DEF Book, rename
<1>5. \A e : add_name(Book(c), e).modes =
        IF names_in_progress[c] /\ e.nick \in names_removed[c] THEN modes[c]
        ELSE [modes[c] EXCEPT ![e.nick] = e.modes]
  BY DEF Book, add_name
<1>6. finish_names(Book(c)).modes =
        IF names_in_progress[c]
        THEN [n \in Nicks |-> IF n \in names_seen[c] THEN modes[c][n] ELSE {}]
        ELSE modes[c]
  <2>1. CASE names_in_progress[c]
    BY <2>1 DEF Book, finish_names, Forgotten
  <2>2. CASE ~names_in_progress[c]
    BY <2>2 DEF Book, finish_names
  <2> QED
    BY <2>1, <2>2
<1>7. \A n, m, on : set_membership_mode(Book(c), n, m, on).modes =
        IF n \notin members[c] THEN modes[c]
        ELSE [modes[c] EXCEPT ![n] = IF on THEN @ \cup {m} ELSE @ \ {m}]
  BY DEF Book, set_membership_mode
<1>8. \A e : _update_who_state(Book(c), e).modes = [modes[c] EXCEPT ![e.nick] = @ \cup e.modes]
  BY <1>1 DEF Book, _update_who_state, join
<1> QED
  BY <1>1, <1>2, <1>3, <1>4, <1>5, <1>6, <1>7, <1>8

LEMMA WriteModes ==
  ASSUME NEW book, Write(book)
  PROVE  /\ modes' = [c \in Channels |-> book[c].modes]
         /\ (\A c \in Channels : book[c].modes \in [Nicks -> SUBSET Modes])
              => modes' \in [Channels -> [Nicks -> SUBSET Modes]]
BY DEF Write

LEMMA ChangeModes ==
  ASSUME NEW c \in Channels, NEW b, Change(c, b),
         modes \in [Channels -> [Nicks -> SUBSET Modes]]
  PROVE  /\ modes'[c] = b.modes
         /\ \A d \in Channels \ {c} : modes'[d] = modes[d]
         /\ b.modes \in [Nicks -> SUBSET Modes] => modes' \in [Channels -> [Nicks -> SUBSET Modes]]
<1> DEFINE book == [d \in Channels |-> IF d = c THEN b ELSE Book(d)]
<1>1. Write(book)
  BY DEF Change
<1>2. book[c] = b /\ \A d \in Channels \ {c} : book[d] = Book(d)
  OBVIOUS
<1> HIDE DEF book
<1>3. \A d \in Channels : modes'[d] = book[d].modes
  BY <1>1, WriteModes
<1>4. modes'[c] = b.modes
  BY <1>2, <1>3
<1>5. ASSUME NEW d \in Channels \ {c}
      PROVE  book[d].modes = modes[d]
  <2>1. Book(d).modes = modes[d]
    BY DEF Book
  <2> QED
    BY <1>2, <2>1
<1>6. \A d \in Channels \ {c} : modes'[d] = modes[d]
  BY <1>3, <1>5
<1>7. ASSUME b.modes \in [Nicks -> SUBSET Modes]
      PROVE  modes' \in [Channels -> [Nicks -> SUBSET Modes]]
  <2>1. \A d \in Channels : book[d].modes \in [Nicks -> SUBSET Modes]
    BY <1>2, <1>5, <1>7
  <2> QED
    BY <1>1, <2>1, WriteModes
<1> QED
  BY <1>4, <1>6, <1>7

\* A channel of which nothing changes that Agrees() or Settled() look at.
LEMMA StillAgrees ==
  ASSUME NEW c \in Channels, ModesTracked(c), c \in listing' <=> c \in listing,
         UNCHANGED <<left[c], names_in_progress[c], names_seen[c], names_removed[c],
                     modes[c], has[c]>>
  PROVE  ModesTracked(c)'
BY DEF ModesTracked, Settled, Awaited, Agrees

\* Nothing is known of the modes before the first entry.
LEMMA NothingSettled ==
  ASSUME NEW c \in Channels, c \in listing', ~names_in_progress'[c]
  PROVE  ModesTracked(c)'
BY DEF ModesTracked, Settled

LEMMA ModesInit == Init => ModesInv
<1> SUFFICES ASSUME Init PROVE ModesInv
  OBVIOUS
<1>1. TrackInv
  BY TrackInit
<1>2. ModeTypes /\ HeldThere
  BY DEF Init, Absent, NoModes, ModeTypes, HeldThere
<1>3. Joined = {}
  BY DEF Init, Joined, Absent
<1> QED
  BY <1>1, <1>2, <1>3 DEF ModesInv

LEMMA JoinModes ==
  ASSUME ModesInv, NEW n \in Nicks, NEW c \in Channels, Join(n, c)
  PROVE  ModesInv'
<1>1. TrackInv'
  BY JoinTracked DEF ModesInv
<1>2. modes' = modes
  <2> DEFINE b == join(Book(c), n)
  <2>1. Change(c, b) /\ b.modes = modes[c]
    BY OperationModes DEF Join, ModesInv, ModeTypes
  <2> HIDE DEF b
  <2>2. modes' \in [Channels -> [Nicks -> SUBSET Modes]] /\ \A d \in Channels : modes'[d] = modes[d]
    BY <2>1, ChangeModes DEF ModesInv, ModeTypes
  <2> QED
    BY <2>2 DEF ModesInv, ModeTypes
<1>3. /\ names_in_progress'[c] = names_in_progress[c]
      /\ names_in_progress[c] =>
           names_seen'[c] = names_seen[c] \cup {n} /\ names_removed'[c] = names_removed[c] \ {n}
      /\ \A d \in Channels \ {c} :
           UNCHANGED <<names_in_progress[d], names_seen[d], names_removed[d]>>
  BY JoinFields
<1>4. there \in [Channels -> SUBSET Nicks] /\ there' \in [Channels -> SUBSET Nicks] /\ me' = me
  BY <1>1 DEF ModesInv, TrackInv, Inv, Join
<1>5. ModeTypes'
  BY <1>2 DEF Join, ModesInv, ModeTypes
<1>6. HeldThere'
  BY <1>4 DEF Join, ModesInv, ModeTypes, HeldThere
<1>7. CASE n = me
  <2>1. c \notin Joined /\ c \notin listing /\ listing' = listing \cup {c}
        /\ raced' = raced \ {c} /\ outdated' = outdated \ {c}
        /\ \A d \in Channels \ {c} : there'[d] = there[d] /\ left'[d] = left[d] /\ has'[d] = has[d]
    BY <1>4, <1>7 DEF Join, Joined, Answers, ModesInv, TrackInv, ModeTypes
  <2>2. ~names_in_progress'[c]
    BY <1>3, <2>1 DEF ModesInv, TrackInv, InOrder
  <2>3. ASSUME NEW d \in Joined' \ (raced' \cup outdated')
        PROVE  ModesTracked(d)'
    <3>1. CASE d = c
      BY <2>1, <2>2, <3>1, NothingSettled
    <3>2. CASE d # c
      <4>1. d \in Channels /\ ModesTracked(d)
        BY <1>4, <2>1, <2>3, <3>2 DEF ModesInv, Joined
      <4> QED
        BY <1>2, <1>3, <2>1, <3>2, <4>1, StillAgrees
    <3> QED
      BY <3>1, <3>2
  <2> QED
    BY <1>1, <1>5, <1>6, <2>3 DEF ModesInv
<1>8. CASE n # me
  <2>1. Joined' = Joined /\ UNCHANGED <<has, left, listing>> /\ raced \subseteq raced'
        /\ n \notin there[c]
        /\ outdated' = IF modes[c][n] # {} THEN outdated \cup {c} ELSE outdated
    BY <1>4, <1>8, RacedGrows DEF Join, Joined, ModesInv, TrackInv, Inv
  <2>2. ASSUME NEW d \in Joined' \ (raced' \cup outdated')
        PROVE  ModesTracked(d)'
    <3>1. d \in Channels /\ ModesTracked(d)
      BY <2>1, <2>2 DEF ModesInv, Joined
    <3>2. CASE d = c
      <4>1. modes[c][n] = {} /\ has[c][n] = {}
        BY <2>1, <2>2, <3>2 DEF ModesInv, HeldThere
      <4>2. Agrees(c, n)'
        BY <1>2, <2>1, <4>1 DEF Agrees
      <4>3. \A o \in Nicks \ {n} : Settled(c, o)' => Settled(c, o)
        BY <1>3, <2>1 DEF Settled, Awaited
      <4>4. \A o \in Nicks : Agrees(c, o) => Agrees(c, o)'
        BY <1>2, <2>1 DEF Agrees
      <4> QED
        BY <3>1, <3>2, <4>2, <4>3, <4>4 DEF ModesTracked
    <3>3. CASE d # c
      BY <1>2, <1>3, <2>1, <3>1, <3>3, StillAgrees
    <3> QED
      BY <3>2, <3>3
  <2> QED
    BY <1>1, <1>5, <1>6, <2>2 DEF ModesInv
<1> QED
  BY <1>7, <1>8

\* Whoever leaves takes the modes along, in the books too.
LEMMA DepartsModes ==
  ASSUME ModesInv, NEW n \in Nicks, NEW k \in Nicks, NEW c \in Channels, Departs(n, k, c)
  PROVE  ModesInv'
<1>1. TrackInv'
  BY DepartsTracked DEF ModesInv
<1> DEFINE b == IF n = me THEN Forgotten ELSE part(Book(c), n)
<1>2. Change(c, b)
  BY DEF Departs
<1>3. b.modes = IF n = me THEN NoModes ELSE [modes[c] EXCEPT ![n] = {}]
  <2>1. CASE n = me
    BY <2>1 DEF Forgotten
  <2>2. CASE n # me
    BY <2>2, OperationModes DEF ModesInv, ModeTypes
  <2> QED
    BY <2>1, <2>2
<1>4. n # me => /\ b.busy = names_in_progress[c]
                /\ names_in_progress[c] => /\ b.seen = names_seen[c] \ {n}
                                           /\ b.removed = names_removed[c] \cup {n}
  BY DEF part, Book
<1> HIDE DEF b
<1>5. modes' \in [Channels -> [Nicks -> SUBSET Modes]] /\ modes'[c] = b.modes
      /\ \A d \in Channels \ {c} : modes'[d] = modes[d]
  <2>1. b.modes \in [Nicks -> SUBSET Modes]
    BY <1>3 DEF NoModes, ModesInv, ModeTypes
  <2> QED
    BY <1>2, <2>1, ChangeModes DEF ModesInv, ModeTypes
<1>6. /\ names_in_progress'[c] = b.busy /\ names_seen'[c] = b.seen /\ names_removed'[c] = b.removed
      /\ \A d \in Channels \ {c} :
           UNCHANGED <<names_in_progress[d], names_seen[d], names_removed[d]>>
  BY <1>2, ChangeFields
<1>7. there \in [Channels -> SUBSET Nicks] /\ me' = me /\ UNCHANGED <<left, listing, who, outdated>>
      /\ raced \subseteq raced'
      /\ there' = [there EXCEPT ![c] = IF n = me THEN {} ELSE @ \ {n}]
      /\ has' = [has EXCEPT ![c] = IF n = me THEN NoModes ELSE [@ EXCEPT ![n] = {}]]
  BY RacedGrows DEF ModesInv, TrackInv, Inv, Departs, answers
<1>8. ModeTypes'
  BY <1>5, <1>7 DEF ModesInv, ModeTypes, NoModes
<1>9. HeldThere'
  BY <1>7 DEF ModesInv, ModeTypes, HeldThere, NoModes
<1>10. ASSUME NEW d \in Joined' \ (raced' \cup outdated')
       PROVE  ModesTracked(d)'
  <2>1. d \in Channels /\ d \in Joined /\ ModesTracked(d) /\ (d = c => n # me)
    BY <1>7, <1>10 DEF ModesInv, Joined
  <2>2. CASE d = c
    <3>1. modes'[c] = [modes[c] EXCEPT ![n] = {}] /\ has'[c] = [has[c] EXCEPT ![n] = {}]
      BY <1>3, <1>5, <1>7, <2>1, <2>2 DEF ModesInv, ModeTypes
    <3>2. Agrees(c, n)' /\ \A o \in Nicks \ {n} : Agrees(c, o) => Agrees(c, o)'
      BY <3>1 DEF Agrees, ModesInv, ModeTypes
    <3>3. \A o \in Nicks \ {n} : Settled(c, o)' => Settled(c, o)
      BY <1>4, <1>6, <1>7, <2>1, <2>2 DEF Settled, Awaited
    <3> QED
      BY <2>1, <2>2, <3>2, <3>3 DEF ModesTracked
  <2>3. CASE d # c
    <3>1. modes'[d] = modes[d] /\ has'[d] = has[d]
      BY <1>5, <1>7, <2>1, <2>3 DEF ModesInv, ModeTypes
    <3> QED
      BY <1>6, <1>7, <2>1, <2>3, <3>1, StillAgrees
  <2> QED
    BY <2>2, <2>3
<1> QED
  BY <1>1, <1>8, <1>9, <1>10 DEF ModesInv

LEMMA QuitModes ==
  ASSUME ModesInv, NEW n \in Nicks, Quit(n)
  PROVE  ModesInv'
<1>1. TrackInv'
  BY QuitTracked DEF ModesInv
<1>2. modes' \in [Channels -> [Nicks -> SUBSET Modes]]
      /\ \A c \in Channels :
           modes'[c] = IF n \in members[c] THEN [modes[c] EXCEPT ![n] = {}] ELSE modes[c]
  <2> DEFINE book == [c \in Channels |-> quit(Book(c), n)]
  <2>1. Write(book)
    BY DEF Quit
  <2>2. ASSUME NEW c \in Channels
        PROVE  book[c].modes =
                 IF n \in members[c] THEN [modes[c] EXCEPT ![n] = {}] ELSE modes[c]
    BY OperationModes DEF ModesInv, ModeTypes
  <2>3. ASSUME NEW c \in Channels
        PROVE  book[c].modes \in [Nicks -> SUBSET Modes]
    <3>1. modes[c] \in [Nicks -> SUBSET Modes]
      BY DEF ModesInv, ModeTypes
    <3> HIDE DEF book
    <3> QED
      BY <2>2, <3>1
  <2> HIDE DEF book
  <2>4. \A c \in Channels : modes'[c] = book[c].modes
    BY <2>1, WriteModes
  <2>5. modes' \in [Channels -> [Nicks -> SUBSET Modes]]
    BY <2>1, <2>3, WriteModes
  <2> QED
    BY <2>2, <2>4, <2>5
<1>3. UNCHANGED <<left, listing, who, outdated, me>> /\ Joined' = Joined /\ raced \subseteq raced'
      /\ there' = [c \in Channels |-> there[c] \ {n}]
      /\ has' = [c \in Channels |-> [has[c] EXCEPT ![n] = {}]]
  BY RacedGrows DEF Quit, answers, Joined, ModesInv, TrackInv, Inv
<1>4. ModeTypes' /\ HeldThere'
  BY <1>2, <1>3 DEF ModesInv, ModeTypes, HeldThere
<1>5. ASSUME NEW c \in Joined' \ (raced' \cup outdated')
      PROVE  ModesTracked(c)'
  <2>1. c \in Channels /\ c \in Joined /\ Tracked(c) /\ ModesTracked(c)
    BY <1>3, <1>5 DEF ModesInv, TrackInv, Joined
  <2>2. \A o \in Nicks \ {n} : Agrees(c, o) => Agrees(c, o)'
    BY <1>2, <1>3, <2>1 DEF Agrees, ModesInv, ModeTypes
  <2>3. CASE n \in members[c]
    <3>1. Agrees(c, n)'
      <4>1. modes'[c] = [modes[c] EXCEPT ![n] = {}] /\ has'[c] = [has[c] EXCEPT ![n] = {}]
        BY <1>2, <1>3, <2>1, <2>3
      <4> QED
        BY <2>1, <4>1 DEF Agrees, ModesInv, ModeTypes
    <3>2. \A o \in Nicks \ {n} : Settled(c, o)' => Settled(c, o)
      BY <1>3, <2>1, <2>3, QuitFields DEF Settled, Awaited
    <3> QED
      BY <2>1, <2>2, <3>1, <3>2 DEF ModesTracked
  <2>4. CASE n \notin members[c]
    <3>1. \A o \in Nicks : Settled(c, o)' => Settled(c, o)
      BY <1>3, <2>1, <2>4, QuitFields DEF Settled, Awaited
    <3>2. Settled(c, n) => n \notin there[c]
      BY <1>1, <2>1, <2>4 DEF Settled, Tracked, ModesInv, TrackInv, Inv, AllSound, Sound, Book
    <3>3. Settled(c, n) /\ Agrees(c, n) => Agrees(c, n)'
      BY <1>2, <1>3, <2>1, <2>4, <3>2 DEF Agrees, ModesInv, ModeTypes, HeldThere
    <3> QED
      BY <2>1, <2>2, <3>1, <3>3 DEF ModesTracked
  <2> QED
    BY <2>3, <2>4
<1> QED
  BY <1>1, <1>4, <1>5 DEF ModesInv

LEMMA MovedModes ==
  ASSUME NEW f \in [Nicks -> SUBSET Modes], NEW n \in Nicks, NEW new \in Nicks
  PROVE  /\ Moved(f, n, new) \in [Nicks -> SUBSET Modes]
         /\ Moved(f, n, new)[new] = f[n]
         /\ n # new => Moved(f, n, new)[n] = {}
         /\ \A o \in Nicks \ {n, new} : Moved(f, n, new)[o] = f[o]
BY DEF Moved

\* The new nick takes over what was settled about the old one; what was not
\* is passed over only if it was right.
LEMMA NickModes ==
  ASSUME ModesInv, NEW n \in Nicks, NEW new \in Nicks, Nick(n, new)
  PROVE  ModesInv'
<1>1. TrackInv'
  BY NickTracked DEF ModesInv
<1>2. modes' \in [Channels -> [Nicks -> SUBSET Modes]]
      /\ \A c \in Channels :
           modes'[c] = IF n \in members[c] THEN Moved(modes[c], n, new) ELSE modes[c]
  <2> DEFINE book == [c \in Channels |-> rename(Book(c), n, new)]
  <2>1. Write(book)
    BY DEF Nick
  <2>2. ASSUME NEW c \in Channels
        PROVE  book[c].modes = IF n \in members[c] THEN Moved(modes[c], n, new) ELSE modes[c]
    <3>1. book[c] = rename(Book(c), n, new)
      OBVIOUS
    <3> QED
      BY <3>1 DEF rename, Book
  <2>3. ASSUME NEW c \in Channels
        PROVE  book[c].modes \in [Nicks -> SUBSET Modes]
    <3>1. modes[c] \in [Nicks -> SUBSET Modes]
      BY DEF ModesInv, ModeTypes
    <3>2. Moved(modes[c], n, new) \in [Nicks -> SUBSET Modes]
      BY <3>1, MovedModes
    <3> HIDE DEF book
    <3> QED
      BY <2>2, <3>1, <3>2
  <2> HIDE DEF book
  <2>4. \A c \in Channels : modes'[c] = book[c].modes
    BY <2>1, WriteModes
  <2>5. modes' \in [Channels -> [Nicks -> SUBSET Modes]]
    BY <2>1, <2>3, WriteModes
  <2> QED
    BY <2>2, <2>4, <2>5
<1>3. UNCHANGED <<left, listing, who>> /\ Joined' = Joined /\ raced \subseteq raced'
      /\ outdated' = outdated \cup {c \in listing : n \in Named(left[c]) /\ modes[c][n] # has[c][n]}
  BY <1>1, RacedGrows DEF Nick, answers, ModesInv, TrackInv, Inv
<1>4. /\ has' \in [Channels -> [Nicks -> SUBSET Modes]]
      /\ \A c \in Channels :
           /\ n \in there[c] => /\ has'[c] = Moved(has[c], n, new)
                                /\ there'[c] = (there[c] \ {n}) \cup {new}
           /\ n \notin there[c] => has'[c] = has[c] /\ there'[c] = there[c]
           /\ new = n \/ new \notin there[c]
  BY MovedModes DEF Nick, ModesInv, ModeTypes
<1>5. ModeTypes'
  BY <1>2, <1>3, <1>4 DEF ModesInv, ModeTypes
<1>6. HeldThere'
  <2> SUFFICES ASSUME NEW c \in Channels, NEW o \in Nicks \ there'[c]
               PROVE  has'[c][o] = {}
    BY DEF HeldThere
  <2>1. CASE n \in there[c]
    <3>1. has'[c] = Moved(has[c], n, new) /\ o # new /\ (o = n \/ o \notin there[c])
      BY <1>4, <2>1
    <3> QED
      BY <3>1, MovedModes DEF ModesInv, ModeTypes, HeldThere
  <2>2. CASE n \notin there[c]
    BY <1>4, <2>2 DEF ModesInv, HeldThere
  <2> QED
    BY <2>1, <2>2
<1>7. ASSUME NEW c \in Joined' \ (raced' \cup outdated')
      PROVE  ModesTracked(c)'
  <2>1. c \in Channels /\ c \in Joined /\ Tracked(c) /\ Tracked(c)' /\ ModesTracked(c)
    BY <1>1, <1>3, <1>7 DEF ModesInv, TrackInv, Joined
  <2>2. modes[c] \in [Nicks -> SUBSET Modes] /\ has[c] \in [Nicks -> SUBSET Modes]
    BY <2>1 DEF ModesInv, ModeTypes
  <2>3. CASE c \in listing /\ ~names_in_progress[c]
    <3>1. c \in listing' /\ ~names_in_progress'[c]
      BY <1>3, <2>1, <2>3, NickFields
    <3> QED
      BY <2>1, <3>1, NothingSettled
  <2>4. CASE n \in members[c] /\ (c \in listing => names_in_progress[c])
    <3>1. n \in there[c]
      <4>1. CASE c \notin listing
        BY <2>1, <2>4, <4>1 DEF Tracked
      <4>2. CASE c \in listing
        <5>1. new \in names_seen'[c] /\ names_seen'[c] \subseteq there'[c]
          BY <1>3, <2>1, <2>4, <4>2, NickFields DEF Tracked
        <5> QED
          BY <1>4, <2>1, <5>1
      <4> QED
        BY <4>1, <4>2
    <3>2. modes'[c] = Moved(modes[c], n, new) /\ has'[c] = Moved(has[c], n, new)
      BY <1>2, <1>4, <2>1, <2>4, <3>1
    <3>3. Agrees(c, n) => Agrees(c, new)'
      BY <2>2, <3>2 DEF Agrees, Moved
    <3>4. \A o \in Nicks \ {n, new} : Agrees(c, o) => Agrees(c, o)'
      BY <2>2, <3>2 DEF Agrees, Moved
    <3>5. n # new => Agrees(c, n)'
      BY <2>2, <3>2 DEF Agrees, Moved
    <3>6. \A o \in Nicks \ {n, new} : Settled(c, o)' => Settled(c, o)
      BY <1>3, <2>1, <2>4, NickFields DEF Settled, Awaited
    <3>7. Agrees(c, n)
      <4>1. CASE Settled(c, n)
        BY <2>1, <4>1 DEF ModesTracked
      <4>2. CASE ~Settled(c, n)
        <5>1. c \in listing /\ n \in Named(left[c])
          BY <2>1, <2>4, <3>1, <4>2 DEF Settled, Awaited, Tracked, Covered
        <5>2. modes[c][n] = has[c][n]
          BY <1>3, <1>7, <5>1
        <5> QED
          BY <5>2 DEF Agrees
      <4> QED
        BY <4>1, <4>2
    <3> QED
      BY <2>1, <3>3, <3>4, <3>5, <3>6, <3>7 DEF ModesTracked
  <2>5. CASE n \notin members[c] /\ (c \in listing => names_in_progress[c])
    <3>1. n \in there[c] => new = n
      <4>1. CASE c \notin listing
        BY <2>1, <2>5, <4>1 DEF Tracked
      <4>2. CASE c \in listing
        <5>1. names_seen[c] \subseteq members[c]
          BY <2>1, <2>5, <4>2 DEF ModesInv, TrackInv, Inv, AllSound, Sound, Book
        <5>2. n \in there[c] => n \in Named(left[c]) \ names_removed[c]
          BY <2>1, <2>5, <4>2, <5>1 DEF Tracked, Covered
        <5>3. names_removed'[c] = names_removed[c] /\ names_in_progress'[c]
          BY <2>1, <2>5, <4>2, NickFields
        <5>4. Named(left'[c]) \ there'[c] \subseteq names_removed'[c]
          BY <1>3, <2>1, <4>2, <5>3 DEF Tracked
        <5> QED
          BY <1>3, <1>4, <2>1, <5>2, <5>3, <5>4
      <4> QED
        BY <4>1, <4>2
    <3>2. \A o \in Nicks : has'[c][o] = has[c][o]
      BY <1>4, <2>1, <2>2, <3>1 DEF Moved
    <3>3. \A o \in Nicks : Agrees(c, o) => Agrees(c, o)'
      BY <1>2, <2>1, <2>5, <3>2 DEF Agrees
    <3>4. \A o \in Nicks : Settled(c, o)' => Settled(c, o)
      BY <1>3, <2>1, <2>5, NickFields DEF Settled, Awaited
    <3> QED
      BY <2>1, <3>3, <3>4 DEF ModesTracked
  <2> QED
    BY <2>3, <2>4, <2>5
<1> QED
  BY <1>1, <1>5, <1>6, <1>7 DEF ModesInv

LEMMA ModeModes ==
  ASSUME ModesInv, NEW n \in Nicks, NEW m \in Modes, NEW c \in Channels, Mode(n, m, c)
  PROVE  ModesInv'
<1>1. TrackInv'
  BY ModeTracked DEF ModesInv
<1> DEFINE on == m \in has'[c][n]
           b == set_membership_mode(Book(c), n, m, on)
<1>2. Change(c, b)
  BY DEF Mode, _apply_channel_modes
<1>3. b.modes = IF n \notin members[c] THEN modes[c]
                ELSE [modes[c] EXCEPT ![n] = IF on THEN @ \cup {m} ELSE @ \ {m}]
  BY DEF set_membership_mode, Book
<1>4. b.busy = names_in_progress[c] /\ b.seen = names_seen[c] /\ b.removed = names_removed[c]
  BY DEF set_membership_mode, Book
<1> HIDE DEF b
<1>5. modes[c] \in [Nicks -> SUBSET Modes] /\ has[c] \in [Nicks -> SUBSET Modes]
  BY DEF ModesInv, ModeTypes
<1>6. b.modes \in [Nicks -> SUBSET Modes]
  BY <1>3, <1>5
<1>7. modes' \in [Channels -> [Nicks -> SUBSET Modes]] /\ modes'[c] = b.modes
      /\ \A d \in Channels \ {c} : modes'[d] = modes[d]
  BY <1>2, <1>6, ChangeModes DEF ModesInv, ModeTypes
<1>8. \A d \in Channels : UNCHANGED <<names_in_progress[d], names_seen[d], names_removed[d]>>
  BY <1>2, <1>4, ChangeFields
<1>9. UNCHANGED <<there, listing, left, who, raced, outdated>> /\ Joined' = Joined
      /\ n \in there[c]
      /\ has' = [has EXCEPT ![c][n] = IF m \in @ THEN @ \ {m} ELSE @ \cup {m}]
  BY DEF Mode, answers, Joined
<1>10. has' \in [Channels -> [Nicks -> SUBSET Modes]]
       /\ has'[c] = [has[c] EXCEPT ![n] = IF m \in @ THEN @ \ {m} ELSE @ \cup {m}]
       /\ \A d \in Channels \ {c} : has'[d] = has[d]
  BY <1>9 DEF ModesInv, ModeTypes
<1>11. ModeTypes' /\ HeldThere'
  BY <1>7, <1>9, <1>10 DEF ModesInv, ModeTypes, HeldThere
<1>12. ASSUME NEW d \in Joined' \ (raced' \cup outdated')
       PROVE  ModesTracked(d)'
  <2>1. d \in Channels /\ d \in Joined /\ Tracked(d) /\ ModesTracked(d)
    BY <1>9, <1>12 DEF ModesInv, TrackInv, Joined
  <2>2. CASE d = c
    <3>1. \A o \in Nicks : Settled(c, o)' => Settled(c, o)
      BY <1>8, <1>9 DEF Settled, Awaited
    <3>2. \A o \in Nicks \ {n} : Agrees(c, o) => Agrees(c, o)'
      BY <1>3, <1>5, <1>7, <1>10 DEF Agrees
    <3>3. Settled(c, n) => n \in members[c]
      BY <1>9, <2>1, <2>2 DEF Settled, Tracked, ModesInv, TrackInv, Inv, AllSound, Sound, Book
    <3>4. ASSUME n \in members[c], Agrees(c, n)
          PROVE  Agrees(c, n)'
      <4>1. CASE m \in has[c][n]
        <5>1. has'[c][n] = has[c][n] \ {m} /\ modes'[c][n] = modes[c][n] \ {m}
          BY <1>3, <1>5, <1>7, <1>10, <3>4, <4>1
        <5> QED
          BY <3>4, <5>1 DEF Agrees
      <4>2. CASE m \notin has[c][n]
        <5>1. has'[c][n] = has[c][n] \cup {m} /\ modes'[c][n] = modes[c][n] \cup {m}
          BY <1>3, <1>5, <1>7, <1>10, <3>4, <4>2
        <5> QED
          BY <3>4, <5>1 DEF Agrees
      <4> QED
        BY <4>1, <4>2
    <3> QED
      BY <2>1, <2>2, <3>1, <3>2, <3>3, <3>4 DEF ModesTracked
  <2>3. CASE d # c
    BY <1>7, <1>8, <1>9, <1>10, <2>1, <2>3, StillAgrees
  <2> QED
    BY <2>2, <2>3
<1> QED
  BY <1>1, <1>11, <1>12 DEF ModesInv

\* A line that is about the books of c only: the other channels agree still.
LEMMA LineAgrees ==
  ASSUME ModesInv, TrackInv', ModeTypes', UNCHANGED <<there, me, has>>, NEW c \in Channels,
         raced \subseteq raced', outdated \subseteq outdated',
         \A d \in Channels \ {c} :
           /\ d \in listing' <=> d \in listing
           /\ UNCHANGED <<left[d], names_in_progress[d], names_seen[d], names_removed[d], modes[d]>>,
         c \in Joined \ (raced' \cup outdated') /\ Tracked(c) /\ ModesTracked(c) => ModesTracked(c)'
  PROVE  ModesInv'
<1>1. Joined' = Joined /\ HeldThere'
  BY DEF Joined, ModesInv, HeldThere
<1>2. ASSUME NEW d \in Joined' \ (raced' \cup outdated')
      PROVE  ModesTracked(d)'
  <2>1. d \in Channels /\ d \in Joined /\ Tracked(d) /\ ModesTracked(d)
    BY <1>1, <1>2 DEF ModesInv, TrackInv, Joined
  <2>2. CASE d = c
    BY <1>1, <1>2, <2>1, <2>2
  <2>3. CASE d # c
    BY <2>1, <2>3, StillAgrees
  <2> QED
    BY <2>2, <2>3
<1> QED
  BY <1>1, <1>2 DEF ModesInv

LEMMA NamesModes ==
  ASSUME ModesInv, NEW c \in Channels, NEW e \in left[c], Names(e, c)
  PROVE  ModesInv'
<1>1. TrackInv'
  BY NamesTracked DEF ModesInv
<1>2. UNCHANGED <<there, me, has, listing, who, raced>> /\ left' = [left EXCEPT ![c] = @ \ {e}]
      /\ c \in listing /\ outdated \subseteq outdated' /\ (Outdated(e, c) => c \in outdated')
  BY DEF Names, world
<1>3. e.nick \in Nicks /\ e.modes \in SUBSET Modes
  BY DEF ModesInv, TrackInv, Entries
<1>4. \A d \in Channels \ {c} : left'[d] = left[d] /\ (d \in listing' <=> d \in listing)
  BY <1>2 DEF ModesInv, TrackInv
<1>5. CASE c \notin channels
  <2>1. UNCHANGED <<modes, names_in_progress, names_seen, names_removed>> /\ c \notin Joined
    BY <1>5 DEF Names, Kept, ModesInv, TrackInv, Inv
  <2>2. ModeTypes'
    BY <1>2, <2>1 DEF ModesInv, ModeTypes
  <2> QED
    BY <1>1, <1>2, <1>4, <2>1, <2>2, LineAgrees
<1>6. CASE c \in channels
  <2> DEFINE passed == names_in_progress[c] /\ e.nick \in names_removed[c]
             b == add_name(Book(c), e)
  <2>1. Change(c, b)
    BY <1>6 DEF Names
  <2>2. b.modes = IF passed THEN modes[c] ELSE [modes[c] EXCEPT ![e.nick] = e.modes]
    BY DEF add_name, Book
  <2> HIDE DEF b
  <2>3. modes[c] \in [Nicks -> SUBSET Modes]
    BY DEF ModesInv, ModeTypes
  <2>4. b.modes \in [Nicks -> SUBSET Modes]
    BY <1>3, <2>2, <2>3
  <2>5. modes' \in [Channels -> [Nicks -> SUBSET Modes]] /\ modes'[c] = b.modes
        /\ \A d \in Channels \ {c} : modes'[d] = modes[d]
    BY <2>1, <2>4, ChangeModes DEF ModesInv, ModeTypes
  <2>6. ModeTypes'
    BY <1>2, <2>5 DEF ModesInv, ModeTypes
  <2>7. Named(left[c]) \subseteq Named(left'[c]) \cup {e.nick}
    BY <1>2 DEF Named, ModesInv, TrackInv
  <2>8. ASSUME c \notin outdated', ModesTracked(c)
        PROVE  ModesTracked(c)'
    <3>1. ~Outdated(e, c)
      BY <1>2, <2>8
    <3>2. CASE passed
      <4>1. \A o \in Nicks : Settled(c, o)' => Settled(c, o)
        BY <1>2, <1>6, <2>7, <3>2, NamesFields DEF Settled, Awaited
      <4>2. \A o \in Nicks : Agrees(c, o) => Agrees(c, o)'
        BY <1>2, <2>2, <2>5, <3>2 DEF Agrees
      <4> QED
        BY <2>8, <4>1, <4>2 DEF ModesTracked
    <3>3. CASE ~passed
      <4>1. modes'[c] = [modes[c] EXCEPT ![e.nick] = e.modes]
        BY <2>2, <2>5, <3>3
      <4>2. Agrees(c, e.nick)'
        BY <1>2, <1>3, <2>3, <3>1, <4>1 DEF Agrees, Outdated
      <4>3. \A o \in Nicks \ {e.nick} : Agrees(c, o) => Agrees(c, o)'
        BY <1>2, <2>3, <4>1 DEF Agrees
      <4>4. \A o \in Nicks \ {e.nick} : Settled(c, o)' => Settled(c, o)
        <5>1. CASE names_in_progress[c]
          BY <1>2, <1>6, <2>7, <3>3, <5>1, NamesFields DEF Settled, Awaited
        <5>2. CASE ~names_in_progress[c]
          BY <1>2, <1>6, <5>2, NamesFields DEF Settled
        <5> QED
          BY <5>1, <5>2
      <4> QED
        BY <2>8, <4>2, <4>3, <4>4 DEF ModesTracked
    <3> QED
      BY <3>2, <3>3
  <2> QED
    <3>1. \A d \in Channels \ {c} :
            /\ d \in listing' <=> d \in listing
            /\ UNCHANGED <<left[d], names_in_progress[d], names_seen[d], names_removed[d], modes[d]>>
      BY <1>4, <1>6, <2>5, NamesFields
    <3> QED
      BY <1>1, <1>2, <2>6, <2>8, <3>1, LineAgrees
<1> QED
  BY <1>5, <1>6

\* WHO adds modes, and makes nobody seen whose entry is not still to come.
LEMMA WhoModes ==
  ASSUME ModesInv, NEW c \in Channels, NEW e \in who[c], WhoReply(e, c)
  PROVE  ModesInv'
<1>1. TrackInv'
  BY WhoTracked DEF ModesInv
<1>2. UNCHANGED <<there, me, has, listing, left>> /\ who' = [who EXCEPT ![c] = @ \ {e}]
      /\ outdated \subseteq outdated' /\ raced \subseteq raced'
      /\ (e.nick \notin there[c] => c \in raced')
      /\ (~(e.modes \subseteq has[c][e.nick]) => c \in outdated')
  BY DEF WhoReply, world
<1>3. e.nick \in Nicks /\ e.modes \in SUBSET Modes
  BY DEF ModesInv, ModeTypes, Entries
<1>4. CASE c \notin channels
  <2>1. UNCHANGED <<modes, names_in_progress, names_seen, names_removed>> /\ c \notin Joined
    BY <1>4 DEF WhoReply, Kept, ModesInv, TrackInv, Inv
  <2>2. ModeTypes'
    BY <1>2, <2>1 DEF ModesInv, ModeTypes
  <2> QED
    BY <1>1, <1>2, <2>1, <2>2, LineAgrees
<1>5. CASE c \in channels
  <2> DEFINE b == _update_who_state(Book(c), e)
  <2>1. Change(c, b)
    BY <1>5 DEF WhoReply
  <2>2. b.modes = [modes[c] EXCEPT ![e.nick] = @ \cup e.modes]
    BY DEF _update_who_state, join, Book
  <2> HIDE DEF b
  <2>3. modes[c] \in [Nicks -> SUBSET Modes] /\ has[c] \in [Nicks -> SUBSET Modes]
    BY DEF ModesInv, ModeTypes
  <2>4. b.modes \in [Nicks -> SUBSET Modes]
    BY <1>3, <2>2, <2>3
  <2>5. modes' \in [Channels -> [Nicks -> SUBSET Modes]] /\ modes'[c] = b.modes
        /\ \A d \in Channels \ {c} : modes'[d] = modes[d]
    BY <2>1, <2>4, ChangeModes DEF ModesInv, ModeTypes
  <2>6. ModeTypes'
    BY <1>2, <2>5 DEF ModesInv, ModeTypes
  <2>7. ASSUME c \notin raced', c \notin outdated', Tracked(c), ModesTracked(c)
        PROVE  ModesTracked(c)'
    <3>1. e.nick \in there[c] /\ e.modes \subseteq has[c][e.nick]
      BY <1>2, <2>7
    <3>2. \A o \in Nicks \ {e.nick} : Agrees(c, o) => Agrees(c, o)'
      BY <1>2, <1>3, <2>2, <2>3, <2>5 DEF Agrees
    <3>3. modes'[c][e.nick] = modes[c][e.nick] \cup e.modes
      BY <1>3, <2>2, <2>3, <2>5
    <3>4. Agrees(c, e.nick) => Agrees(c, e.nick)'
      BY <1>2, <3>1, <3>3 DEF Agrees
    <3>5. \A o \in Nicks \ {e.nick} : Settled(c, o)' => Settled(c, o)
      BY <1>2, <1>5, WhoFields DEF Settled, Awaited
    <3>6. Settled(c, e.nick)' => Settled(c, e.nick)
      BY <1>2, <1>5, <2>7, <3>1, WhoFields DEF Settled, Awaited, Tracked, Covered
    <3> QED
      BY <1>3, <2>7, <3>2, <3>4, <3>5, <3>6 DEF ModesTracked
  <2>8. \A d \in Channels \ {c} :
          /\ d \in listing' <=> d \in listing
          /\ UNCHANGED <<left[d], names_in_progress[d], names_seen[d], names_removed[d], modes[d]>>
    BY <1>2, <1>5, <2>5, WhoFields
  <2> QED
    BY <1>1, <1>2, <2>6, <2>7, <2>8, LineAgrees
<1> QED
  BY <1>4, <1>5

\* The last line: no entry is awaited, and who was not seen is not there.
LEMMA EndModes ==
  ASSUME ModesInv, NEW c \in Channels, EndOfNames(c)
  PROVE  ModesInv'
<1>1. TrackInv'
  BY EndTracked DEF ModesInv
<1>2. UNCHANGED <<there, me, has, left, who, raced, outdated>>
      /\ c \in listing /\ left[c] = {} /\ listing' = listing \ {c}
  BY DEF EndOfNames, world
<1>3. CASE c \notin channels
  <2>1. UNCHANGED <<modes, names_in_progress, names_seen, names_removed>> /\ c \notin Joined
    BY <1>3 DEF EndOfNames, Kept, ModesInv, TrackInv, Inv
  <2>2. ModeTypes'
    BY <1>2, <2>1 DEF ModesInv, ModeTypes
  <2> QED
    BY <1>1, <1>2, <2>1, <2>2, LineAgrees
<1>4. CASE c \in channels
  <2> DEFINE b == finish_names(Book(c))
  <2>1. Change(c, b)
    BY <1>4 DEF EndOfNames
  <2>2. b.modes = IF names_in_progress[c]
                  THEN [n \in Nicks |-> IF n \in names_seen[c] THEN modes[c][n] ELSE {}]
                  ELSE modes[c]
    BY OperationModes DEF ModesInv, ModeTypes
  <2> HIDE DEF b
  <2>3. modes[c] \in [Nicks -> SUBSET Modes]
    BY DEF ModesInv, ModeTypes
  <2>4. b.modes \in [Nicks -> SUBSET Modes]
    BY <2>2, <2>3
  <2>5. modes' \in [Channels -> [Nicks -> SUBSET Modes]] /\ modes'[c] = b.modes
        /\ \A d \in Channels \ {c} : modes'[d] = modes[d]
    BY <2>1, <2>4, ChangeModes DEF ModesInv, ModeTypes
  <2>6. ModeTypes'
    BY <1>2, <2>5 DEF ModesInv, ModeTypes
  <2>7. ASSUME c \in Joined, Tracked(c), ModesTracked(c)
        PROVE  ModesTracked(c)'
    <3>1. Named(left[c]) = {}
      BY <1>2 DEF Named
    <3>2. names_in_progress[c]
      BY <1>2, <2>7, <3>1 DEF Tracked, Joined
    <3>3. ASSUME NEW n \in Nicks, n \in names_seen[c]
          PROVE  Agrees(c, n)'
      <4>1. Agrees(c, n)
        BY <1>2, <2>7, <3>1, <3>2, <3>3 DEF ModesTracked, Settled, Awaited
      <4> QED
        BY <1>2, <2>2, <2>3, <2>5, <3>2, <3>3, <4>1 DEF Agrees
    <3>4. ASSUME NEW n \in Nicks, n \notin names_seen[c]
          PROVE  Agrees(c, n)'
      <4>1. n \notin there[c]
        BY <1>2, <2>7, <3>1, <3>2, <3>4 DEF Tracked, Covered
      <4>2. has[c][n] = {} /\ modes'[c][n] = {}
        BY <2>2, <2>5, <3>2, <3>4, <4>1 DEF ModesInv, HeldThere
      <4> QED
        BY <1>2, <4>2 DEF Agrees
    <3> QED
      BY <3>3, <3>4 DEF ModesTracked
  <2>8. \A d \in Channels \ {c} :
          /\ d \in listing' <=> d \in listing
          /\ UNCHANGED <<left[d], names_in_progress[d], names_seen[d], names_removed[d], modes[d]>>
    BY <1>2, <2>1, <2>5, ChangeFields
  <2> QED
    BY <1>1, <1>2, <2>6, <2>7, <2>8, LineAgrees
<1> QED
  BY <1>3, <1>4

LEMMA BeginModes ==
  ASSUME ModesInv, NEW c \in Channels, BeginNames(c)
  PROVE  ModesInv'
<1>1. TrackInv'
  BY BeginTracked DEF ModesInv
<1>2. UNCHANGED <<there, me, has, who, modes, names_in_progress, names_seen, names_removed>>
      /\ Joined' = Joined /\ c \notin listing /\ listing' = listing \cup {c}
      /\ raced' = raced \ {c} /\ outdated' = outdated \ {c}
      /\ \A d \in Channels \ {c} : left'[d] = left[d]
  BY DEF BeginNames, world, books, Kept, Joined, Answers, ModesInv, TrackInv
<1>3. ModeTypes' /\ HeldThere'
  BY <1>2 DEF ModesInv, ModeTypes, HeldThere
<1>4. ~names_in_progress'[c]
  BY <1>2 DEF ModesInv, TrackInv, InOrder
<1>5. ASSUME NEW d \in Joined' \ (raced' \cup outdated')
      PROVE  ModesTracked(d)'
  <2>1. CASE d = c
    BY <1>2, <1>4, <2>1, NothingSettled
  <2>2. CASE d # c
    <3>1. d \in Channels /\ ModesTracked(d)
      BY <1>2, <1>5, <2>2 DEF ModesInv, Joined
    <3> QED
      BY <1>2, <2>2, <3>1, StillAgrees
  <2> QED
    BY <2>1, <2>2
<1> QED
  BY <1>1, <1>3, <1>5 DEF ModesInv

\* What changes neither modes nor an answer to NAMES.
LEMMA StillModesInv ==
  ASSUME ModesInv, TrackInv', who' \in [Channels -> SUBSET Entries],
         UNCHANGED <<there, has, me, listing, left, raced, outdated, names_in_progress,
                     names_seen, names_removed, modes>>
  PROVE  ModesInv'
<1>1. Joined' = Joined /\ ModeTypes' /\ HeldThere'
  BY DEF Joined, ModesInv, ModeTypes, HeldThere
<1>2. \A c \in Joined' \ (raced' \cup outdated') : ModesTracked(c)'
  BY <1>1, StillAgrees DEF ModesInv, Joined
<1> QED
  BY <1>1, <1>2 DEF ModesInv

LEMMA BeginWhoModes ==
  ASSUME ModesInv, NEW c \in Channels, BeginWho(c)
  PROVE  ModesInv'
<1>1. TrackInv'
  BY TrackNext DEF Next, ModesInv
<1>2. who' \in [Channels -> SUBSET Entries]
  <2>1. PICK show \in [there'[c] -> SUBSET Modes] :
          who' = [who EXCEPT ![c] = {[nick |-> n, modes |-> show[n]] : n \in there'[c]}]
    BY DEF BeginWho, Answers
  <2>2. {[nick |-> n, modes |-> show[n]] : n \in there'[c]} \subseteq Entries
    BY <1>1 DEF TrackInv, Inv, Entries
  <2> QED
    BY <2>1, <2>2 DEF ModesInv, ModeTypes
<1> QED
  BY <1>1, <1>2, StillModesInv DEF BeginWho, world, books, Kept

LEMMA LeaveAllModes ==
  ASSUME ModesInv, LeaveAll
  PROVE  ModesInv'
<1>1. TrackInv'
  BY TrackNext DEF Next, ModesInv
<1>2. Joined' = {}
  BY DEF LeaveAll, Joined, Absent
<1>3. modes' = [c \in Channels |-> NoModes] /\ has' = [c \in Channels |-> NoModes]
  <2> DEFINE book == [c \in Channels |-> Forgotten]
  <2>1. Write(book) /\ \A c \in Channels : book[c].modes = NoModes
    BY DEF LeaveAll, Forgotten
  <2> HIDE DEF book
  <2> QED
    BY <2>1, WriteModes DEF LeaveAll
<1>4. ModeTypes' /\ HeldThere'
  BY <1>3 DEF LeaveAll, answers, NoModes, ModesInv, ModeTypes, HeldThere
<1> QED
  BY <1>1, <1>2, <1>4 DEF ModesInv

LEMMA ModesNext ==
  ASSUME ModesInv, [Next]_vars
  PROVE  ModesInv'
<1>1. TrackInv'
  BY TrackNext DEF ModesInv
<1>2. ASSUME NEW n \in Nicks, Hear(n)
      PROVE  ModesInv'
  BY <1>1, <1>2, StillModesInv DEF Hear, world, Kept, answers, ModesInv, ModeTypes
<1>3. CASE UNCHANGED vars
  BY <1>1, <1>3, StillModesInv DEF vars, world, books, Kept, answers, ModesInv, ModeTypes
<1> QED
  BY <1>2, <1>3, JoinModes, DepartsModes, NickModes, QuitModes, ModeModes, NamesModes, WhoModes,
     EndModes, BeginModes, BeginWhoModes, LeaveAllModes DEF Next, Part, Kick

(***************************************************************************)
(* For every set of nicks, channels and modes, with multi-prefix and       *)
(* without: after 366 the books and the channel agree about who holds      *)
(* which mode, through returns, kicks, nick changes and resyncs cut        *)
(* anywhere, unless an entry was out of date when it was read or was       *)
(* passed over with news.  In between they agree about everybody who was   *)
(* seen and of whom no entry is still to come, which is what makes 366     *)
(* safe.                                                                   *)
(***************************************************************************)
THEOREM ModesAreRight == Spec => []ModesAreHeld
<1>1. ModesInv /\ [Next]_vars => ModesInv'
  BY ModesNext
<1>2. ModesInv => ModesAreHeld
  BY DEF ModesInv, ModesAreHeld, ModesTracked, Settled, Agrees
<1> QED
  BY ModesInit, <1>1, <1>2, PTL DEF Spec

-----------------------------------------------------------------------------
(* The types, with what is left of an answer once it has ended.            *)

\* One book: seen and tombstones belong to an answer, and where the bot is not
\* there is nothing to remember.
Clean(b, open) ==
  /\ b.members \subseteq Nicks /\ b.seen \subseteq Nicks /\ b.removed \subseteq Nicks
  /\ b.busy \in BOOLEAN
  /\ ~b.busy => b.seen = {} /\ b.removed = {}
  /\ ~open => b.members = {} /\ ~b.busy

Books ==
  /\ members \in [Channels -> SUBSET Nicks] /\ names_in_progress \in [Channels -> BOOLEAN]
  /\ names_seen \in [Channels -> SUBSET Nicks] /\ names_removed \in [Channels -> SUBSET Nicks]
  /\ \A c \in Channels : Clean(Book(c), c \in channels)

Rest ==
  /\ users \subseteq Nicks
  /\ listing \subseteq Channels /\ raced \subseteq Channels /\ outdated \subseteq Channels
  /\ snapshots \in 0 .. MaxSnapshots

StateTypes == ModesInv /\ Books /\ Rest

LEMMA OperationsClean ==
  ASSUME NEW c \in Channels, NEW b, b = Book(c), NEW n \in Nicks
  PROVE  /\ \A open : Clean(b, open) => Clean(join(b, n), TRUE)
         /\ Clean(b, TRUE) => Clean(part(b, n), TRUE)
         /\ \A open : Clean(b, open) => Clean(quit(b, n), open)
         /\ \A new \in Nicks : \A open : Clean(b, open) => Clean(rename(b, n, new), open)
         /\ \A e \in Entries : Clean(b, TRUE) => Clean(add_name(b, e), TRUE)
         /\ Clean(b, TRUE) => Clean(finish_names(b), TRUE)
         /\ \A m, on : Clean(b, TRUE) => Clean(set_membership_mode(b, n, m, on), TRUE)
         /\ \A e \in Entries : Clean(b, TRUE) => Clean(_update_who_state(b, e), TRUE)
<1>1. \A open : Clean(b, open) => Clean(join(b, n), TRUE)
  BY DEF Clean, Book, join
<1>2. Clean(b, TRUE) => Clean(part(b, n), TRUE)
  BY DEF Clean, Book, part
<1>3. \A open : Clean(b, open) => Clean(quit(b, n), open)
  BY DEF Clean, Book, part, quit
<1>4. ASSUME NEW new \in Nicks, NEW open, Clean(b, open)
      PROVE  Clean(rename(b, n, new), open)
  BY <1>4 DEF Clean, Book, rename
<1>5. ASSUME NEW e \in Entries, Clean(b, TRUE)
      PROVE  Clean(add_name(b, e), TRUE)
  <2>1. CASE b.busy
    BY <1>5, <2>1 DEF Clean, Book, add_name, Entries
  <2>2. CASE ~b.busy
    BY <1>5, <2>2 DEF Clean, Book, add_name, Entries
  <2> QED
    BY <2>1, <2>2
<1>6. Clean(b, TRUE) => Clean(finish_names(b), TRUE)
  BY DEF Clean, Book, finish_names, Forgotten
<1>7. \A m, on : Clean(b, TRUE) => Clean(set_membership_mode(b, n, m, on), TRUE)
  BY DEF Clean, Book, set_membership_mode
<1>8. ASSUME NEW e \in Entries, Clean(b, TRUE)
      PROVE  Clean(_update_who_state(b, e), TRUE)
  BY <1>8 DEF Clean, Book, _update_who_state, join, Entries
<1> QED
  BY <1>1, <1>2, <1>3, <1>4, <1>5, <1>6, <1>7, <1>8

LEMMA WriteClean ==
  ASSUME NEW book, Write(book), \A c \in Channels : Clean(book[c], c \in channels')
  PROVE  Books'
<1>1. \A c \in Channels : Clean(Book(c)', c \in channels')
  BY DEF Write, Clean, Book
<1>2. /\ members' \in [Channels -> SUBSET Nicks] /\ names_seen' \in [Channels -> SUBSET Nicks]
      /\ names_removed' \in [Channels -> SUBSET Nicks]
      /\ names_in_progress' \in [Channels -> BOOLEAN]
  BY DEF Write, Clean
<1> QED
  BY <1>1, <1>2 DEF Books

LEMMA ChangeClean ==
  ASSUME Books, NEW c \in Channels, NEW b, Change(c, b), Clean(b, c \in channels'),
         \A d \in Channels \ {c} : d \in channels' <=> d \in channels
  PROVE  Books'
<1> DEFINE book == [d \in Channels |-> IF d = c THEN b ELSE Book(d)]
<1>1. Write(book)
  BY DEF Change
<1>2. \A d \in Channels : Clean(book[d], d \in channels')
  <2>1. ASSUME NEW d \in Channels \ {c}
        PROVE  Clean(Book(d), d \in channels')
    BY DEF Books, Clean
  <2> QED
    BY <2>1
<1> HIDE DEF book
<1> QED
  BY <1>1, <1>2, WriteClean

\* A book that stays, of a channel the bot is in.
LEMMA OpenBook ==
  ASSUME Books, NEW c \in Channels, c \in channels
  PROVE  Clean(Book(c), TRUE)
BY DEF Books, Clean

LEMMA BooksStay ==
  ASSUME Books, UNCHANGED <<channels, members, names_in_progress, names_seen, names_removed>>
  PROVE  Books'
BY DEF Books, Clean, Book

LEMMA DropTypes ==
  ASSUME users \subseteq Nicks, NEW nicks, NEW n \in Nicks, Drop(nicks, n)
  PROVE  users' \subseteq Nicks
BY DEF Drop

LEMMA TypesInit == Init => StateTypes
<1> SUFFICES ASSUME Init PROVE StateTypes
  OBVIOUS
<1>1. ModesInv
  BY ModesInit
<1>2. Books
  BY DEF Init, Absent, Books, Clean, Book
<1>3. Rest
  BY StateAssumption DEF Init, Rest
<1> QED
  BY <1>1, <1>2, <1>3 DEF StateTypes

LEMMA TypesJoin ==
  ASSUME StateTypes, NEW n \in Nicks, NEW c \in Channels, Join(n, c)
  PROVE  Books' /\ Rest'
<1>1. Clean(join(Book(c), n), TRUE)
  BY OperationsClean DEF StateTypes, Books
<1>2. Books'
  <2>1. Clean(join(Book(c), n), c \in channels') /\ \A d \in Channels \ {c} : d \in channels' <=> d \in channels
    BY <1>1 DEF Join, Clean
  <2> QED
    BY <2>1, ChangeClean DEF Join, StateTypes
<1>3. users' \subseteq Nicks
  BY DropTypes DEF Join, StateTypes, Rest
<1>4. snapshots' \in 0 .. MaxSnapshots
  BY StateAssumption DEF Join, StateTypes, Rest
<1>5. listing' \subseteq Channels
  BY DEF Join, StateTypes, Rest
<1>6. outdated' \subseteq Channels
  BY DEF Join, StateTypes, Rest
<1>7. raced' \subseteq Channels
  BY <1>5 DEF Join, NoteRaces, StateTypes, Rest
<1> QED
  BY <1>2, <1>3, <1>4, <1>5, <1>6, <1>7 DEF Rest

LEMMA TypesDeparts ==
  ASSUME StateTypes, NEW n \in Nicks, NEW k \in Nicks, NEW c \in Channels, Departs(n, k, c)
  PROVE  Books' /\ Rest'
<1>1. c \in channels
  BY DEF Departs, StateTypes, ModesInv, TrackInv, Inv
<1>2. Books'
  <2>1. CASE n = me
    <3>1. Clean(Forgotten, c \in channels')
      BY DEF Clean, Forgotten
    <3>2. \A d \in Channels \ {c} : d \in channels' <=> d \in channels
      BY <2>1 DEF Departs
    <3> QED
      BY <2>1, <3>1, <3>2, ChangeClean DEF Departs, StateTypes
  <2>2. CASE n # me
    <3>1. Clean(part(Book(c), n), c \in channels')
      BY <1>1, <2>2, OpenBook, OperationsClean DEF Departs, StateTypes, Clean
    <3> QED
      BY <2>2, <3>1, ChangeClean DEF Departs, StateTypes
  <2> QED
    BY <2>1, <2>2
<1>3. users' \subseteq Nicks
  BY DropTypes DEF Departs, StateTypes, Rest
<1>4. Rest'
  BY <1>3 DEF Departs, NoteRaces, answers, StateTypes, Rest
<1> QED
  BY <1>2, <1>4

LEMMA TypesQuit ==
  ASSUME StateTypes, NEW n \in Nicks, Quit(n)
  PROVE  Books' /\ Rest'
<1> DEFINE book == [c \in Channels |-> quit(Book(c), n)]
<1>1. Write(book)
  BY DEF Quit
<1>2. \A c \in Channels : Clean(quit(Book(c), n), c \in channels')
  BY OperationsClean DEF StateTypes, Books, Quit
<1>3. \A c \in Channels : Clean(book[c], c \in channels')
  BY <1>2
<1> HIDE DEF book
<1>4. Books'
  BY <1>1, <1>3, WriteClean
<1>5. Rest'
  BY DEF Quit, NoteRaces, answers, StateTypes, Rest
<1> QED
  BY <1>4, <1>5

LEMMA TypesNick ==
  ASSUME StateTypes, NEW n \in Nicks, NEW new \in Nicks, Nick(n, new)
  PROVE  Books' /\ Rest'
<1> DEFINE book == [c \in Channels |-> rename(Book(c), n, new)]
<1>1. Write(book)
  BY DEF Nick
<1>2. \A c \in Channels : Clean(rename(Book(c), n, new), c \in channels')
  BY OperationsClean DEF StateTypes, Books, Nick
<1>3. \A c \in Channels : Clean(book[c], c \in channels')
  BY <1>2
<1> HIDE DEF book
<1>4. Books'
  BY <1>1, <1>3, WriteClean
<1>5. Rest'
  BY DEF Nick, NoteRaces, answers, StateTypes, Rest
<1> QED
  BY <1>4, <1>5

LEMMA TypesLeaveAll ==
  ASSUME StateTypes, LeaveAll
  PROVE  Books' /\ Rest'
<1> DEFINE book == [c \in Channels |-> Forgotten]
<1>1. Write(book)
  BY DEF LeaveAll
<1>2. \A c \in Channels : Clean(book[c], c \in channels')
  BY DEF Clean, Forgotten
<1> HIDE DEF book
<1>3. Books'
  BY <1>1, <1>2, WriteClean
<1>4. Rest'
  BY DEF LeaveAll, answers, StateTypes, Rest
<1> QED
  BY <1>3, <1>4

LEMMA TypesMode ==
  ASSUME StateTypes, NEW n \in Nicks, NEW m \in Modes, NEW c \in Channels, Mode(n, m, c)
  PROVE  Books' /\ Rest'
<1>1. c \in channels
  BY DEF Mode, StateTypes, ModesInv, TrackInv, Inv
<1> DEFINE b == set_membership_mode(Book(c), n, m, m \in has'[c][n])
<1>2. Change(c, b)
  BY DEF Mode, _apply_channel_modes
<1>3. Clean(b, c \in channels')
  BY <1>1, OpenBook, OperationsClean DEF Mode, StateTypes, Clean
<1> HIDE DEF b
<1>4. Books'
  BY <1>2, <1>3, ChangeClean DEF Mode, StateTypes
<1>5. PICK setter \in there[c] : Drop({}, setter)
  BY DEF Mode
<1>6. setter \in Nicks
  BY DEF StateTypes, ModesInv, TrackInv, Inv
<1>7. users' \subseteq Nicks
  BY <1>5, <1>6, DropTypes DEF StateTypes, Rest
<1> QED
  BY <1>4, <1>7 DEF Mode, answers, StateTypes, Rest

LEMMA TypesNames ==
  ASSUME StateTypes, NEW c \in Channels, NEW e \in left[c], Names(e, c)
  PROVE  Books' /\ Rest'
<1>1. e \in Entries /\ e.nick \in Nicks
  BY DEF Entries, StateTypes, ModesInv, TrackInv
<1>2. CASE c \in channels
  <2>1. Clean(add_name(Book(c), e), c \in channels')
    BY <1>1, <1>2, OpenBook, OperationsClean DEF Names, StateTypes, Clean
  <2>2. Books'
    BY <1>2, <2>1, ChangeClean DEF Names, StateTypes
  <2>3. users' \subseteq Nicks
    BY <1>1, <1>2, DropTypes DEF Names, StateTypes, Rest
  <2> QED
    BY <2>2, <2>3 DEF Names, StateTypes, Rest
<1>3. CASE c \notin channels
  <2>1. Books'
    BY <1>3, BooksStay DEF Names, Kept, StateTypes
  <2> QED
    BY <1>3, <2>1 DEF Names, StateTypes, Rest
<1> QED
  BY <1>2, <1>3

LEMMA TypesWho ==
  ASSUME StateTypes, NEW c \in Channels, NEW e \in who[c], WhoReply(e, c)
  PROVE  Books' /\ Rest'
<1>1. e \in Entries /\ e.nick \in Nicks
  BY DEF Entries, StateTypes, ModesInv, ModeTypes
<1>2. CASE c \in channels
  <2>1. Clean(_update_who_state(Book(c), e), c \in channels')
    BY <1>1, <1>2, OpenBook, OperationsClean DEF WhoReply, StateTypes, Clean
  <2>2. Books'
    BY <1>2, <2>1, ChangeClean DEF WhoReply, StateTypes
  <2>3. users' \subseteq Nicks
    BY <1>1, <1>2, DropTypes DEF WhoReply, StateTypes, Rest
  <2> QED
    BY <2>2, <2>3 DEF WhoReply, StateTypes, Rest
<1>3. CASE c \notin channels
  <2>1. Books'
    BY <1>3, BooksStay DEF WhoReply, Kept, StateTypes
  <2> QED
    BY <1>3, <2>1 DEF WhoReply, StateTypes, Rest
<1> QED
  BY <1>2, <1>3

LEMMA TypesEnd ==
  ASSUME StateTypes, NEW c \in Channels, EndOfNames(c)
  PROVE  Books' /\ Rest'
<1>1. CASE c \in channels
  <2>1. Clean(finish_names(Book(c)), c \in channels')
    BY <1>1, OpenBook, OperationsClean DEF EndOfNames, StateTypes, Clean, ModesInv, TrackInv, Inv
  <2>2. Books'
    BY <1>1, <2>1, ChangeClean DEF EndOfNames, StateTypes
  <2> QED
    BY <1>1, <2>2 DEF EndOfNames, StateTypes, Rest
<1>2. CASE c \notin channels
  <2>1. Books'
    BY <1>2, BooksStay DEF EndOfNames, Kept, StateTypes
  <2> QED
    BY <1>2, <2>1 DEF EndOfNames, StateTypes, Rest
<1> QED
  BY <1>1, <1>2

LEMMA TypesBegin ==
  ASSUME StateTypes, NEW c \in Channels, BeginNames(c) \/ BeginWho(c)
  PROVE  Books' /\ Rest'
<1>1. Books'
  BY BooksStay DEF BeginNames, BeginWho, books, Kept, StateTypes
<1>2. snapshots' \in 0 .. MaxSnapshots
  BY StateAssumption DEF BeginNames, BeginWho, StateTypes, Rest
<1> QED
  BY <1>1, <1>2 DEF BeginNames, BeginWho, books, StateTypes, Rest

LEMMA TypesNext ==
  ASSUME StateTypes, [Next]_vars
  PROVE  StateTypes'
<1>1. ModesInv'
  BY ModesNext DEF StateTypes
<1>2. ASSUME NEW n \in Nicks, Hear(n)
      PROVE  Books' /\ Rest'
  <2>1. Books'
    BY <1>2, BooksStay DEF Hear, Kept, StateTypes
  <2>2. users' \subseteq Nicks
    BY <1>2, DropTypes DEF Hear, StateTypes, Rest
  <2> QED
    BY <1>2, <2>1, <2>2 DEF Hear, answers, StateTypes, Rest
<1>3. ASSUME UNCHANGED vars
      PROVE  Books' /\ Rest'
  <2>1. Books'
    BY <1>3, BooksStay DEF vars, books, Kept, StateTypes
  <2>2. Rest'
    BY <1>3 DEF vars, books, answers, StateTypes, Rest
  <2> QED
    BY <2>1, <2>2
<1>4. Books' /\ Rest'
  BY <1>2, <1>3, TypesJoin, TypesDeparts, TypesQuit, TypesNick, TypesLeaveAll, TypesMode, TypesNames,
     TypesWho, TypesEnd, TypesBegin DEF Next, Part, Kick
<1> QED
  BY <1>1, <1>4 DEF StateTypes

(***************************************************************************)
(* For every set of nicks, channels and modes the state keeps its types;   *)
(* names_seen and names_removed are empty outside of an answer, and        *)
(* nothing is remembered of a channel that the bot is not in.              *)
(***************************************************************************)
THEOREM ChannelTypesCorrect == Spec => []TypeOK
<1>1. StateTypes /\ [Next]_vars => StateTypes'
  BY TypesNext
<1>2. StateTypes => TypeOK
  BY DEF StateTypes, ModesInv, ModeTypes, TrackInv, Inv, Joined, Books, Clean, Book, Rest, TypeOK
<1> QED
  BY TypesInit, <1>1, <1>2, PTL DEF Spec

-----------------------------------------------------------------------------
(* Users.  Who stays a member nowhere does not stay a user.                *)

Member(n) == \E c \in Channels : n \in members[c]
Lost(n) == Member(n) /\ ~Member(n)'

LEMMA NobodyLost ==
  ASSUME \A c \in Channels : members[c] \subseteq members'[c], NEW n
  PROVE  ~Lost(n)
BY DEF Lost, Member

\* Change() by an operation that takes nobody out.
LEMMA GrowingBook ==
  ASSUME NEW c \in Channels, NEW b, Change(c, b), members[c] \subseteq b.members, NEW n
  PROVE  ~Lost(n)
<1>1. \A d \in Channels : members[d] \subseteq members'[d]
  BY ChangeFields
<1> QED
  BY <1>1, NobodyLost

LEMMA DepartsDrops ==
  ASSUME NEW n \in Nicks, NEW k \in Nicks, NEW c \in Channels, Departs(n, k, c),
         NEW o \in Nicks, Lost(o)
  PROVE  o \notin users'
<1>1. CASE n = me
  <2>1. Change(c, Forgotten) /\ Drop(members[c], k)
    BY <1>1 DEF Departs
  <2>2. \A d \in Channels \ {c} : members'[d] = members[d]
    BY <2>1, ChangeFields
  <2>3. o \in members[c]
    BY <2>2 DEF Lost, Member
  <2> QED
    BY <2>1, <2>3 DEF Drop, Lost, Member
<1>2. CASE n # me
  <2>1. members'[c] = members[c] \ {n} /\ \A d \in Channels \ {c} : members'[d] = members[d]
    <3>1. Change(c, part(Book(c), n))
      BY <1>2 DEF Departs
    <3>2. part(Book(c), n).members = members[c] \ {n}
      BY DEF part, Book
    <3> QED
      BY <3>1, <3>2, ChangeFields
  <2>2. o = n
    BY <2>1 DEF Lost, Member
  <2> QED
    BY <1>2, <2>2 DEF Departs, Drop, Lost, Member
<1> QED
  BY <1>1, <1>2

LEMMA EndOfNamesDrops ==
  ASSUME NEW c \in Channels, EndOfNames(c), NEW o \in Nicks, Lost(o)
  PROVE  o \notin users'
<1>1. CASE c \in channels
  <2>1. \A d \in Channels \ {c} : members'[d] = members[d]
    BY <1>1, ChangeFields DEF EndOfNames
  <2>2. o \in members[c] \ members'[c]
    BY <2>1 DEF Lost, Member
  <2> QED
    BY <1>1, <2>2 DEF EndOfNames, Lost, Member
<1>2. CASE c \notin channels
  BY <1>2 DEF EndOfNames, Kept, Lost, Member
<1> QED
  BY <1>1, <1>2

LEMMA LinesLoseNobody ==
  ASSUME NEW c \in Channels, NEW n \in Nicks, NEW o \in Nicks,
         \/ Join(n, c) \/ \E m \in Modes : Mode(n, m, c)
         \/ \E e \in left[c] : Names(e, c)
         \/ \E e \in who[c] : WhoReply(e, c)
  PROVE  ~Lost(o)
<1>1. CASE Join(n, c)
  BY <1>1, GrowingBook DEF Join, join, Book
<1>2. CASE \E m \in Modes : Mode(n, m, c)
  BY <1>2, GrowingBook DEF Mode, _apply_channel_modes, set_membership_mode, Book
<1>3. ASSUME NEW e, Names(e, c) PROVE ~Lost(o)
  <2>1. CASE c \in channels
    BY <1>3, <2>1, GrowingBook DEF Names, add_name, Book
  <2>2. CASE c \notin channels
    BY <1>3, <2>2, NobodyLost DEF Names, Kept
  <2> QED
    BY <2>1, <2>2
<1>4. ASSUME NEW e, WhoReply(e, c) PROVE ~Lost(o)
  <2>1. CASE c \in channels
    BY <1>4, <2>1, GrowingBook DEF WhoReply, _update_who_state, join, Book
  <2>2. CASE c \notin channels
    BY <1>4, <2>2, NobodyLost DEF WhoReply, Kept
  <2> QED
    BY <2>1, <2>2
<1> QED
  BY <1>1, <1>2, <1>3, <1>4

(***************************************************************************)
(* For every set of nicks and channels, who loses the last channel shared  *)
(* with the bot is forgotten in that step: _drop_orphan_user() is called   *)
(* for everybody that part(), quit(), rename(), remove_channel() and       *)
(* finish_names() of irc/state.py take out.                                *)
(***************************************************************************)
THEOREM NoOrphanStays == Spec => OrphansAreDropped
<1>1. ASSUME Next, NEW o \in Nicks, Lost(o)
      PROVE  o \notin users'
  <2>1. ASSUME NEW n \in Nicks, Quit(n) PROVE o \notin users'
    <3>1. o = n
      BY <1>1, <2>1, QuitFields DEF Lost, Member
    <3> QED
      BY <2>1, <3>1 DEF Quit
  <2>2. ASSUME NEW n \in Nicks, NEW new \in Nicks, Nick(n, new) PROVE o \notin users'
    <3>1. o = n /\ o # new
      BY <1>1, <2>2, NickFields DEF Lost, Member
    <3> QED
      BY <2>2, <3>1 DEF Nick
  <2>3. ASSUME NEW n \in Nicks, NEW k \in Nicks, NEW c \in Channels, Part(n, c) \/ Kick(k, n, c)
        PROVE  o \notin users'
    BY <1>1, <2>3, DepartsDrops DEF Part, Kick
  <2>4. CASE LeaveAll
    BY <2>4 DEF LeaveAll
  <2>5. ASSUME UNCHANGED members PROVE FALSE
    BY <1>1, <2>5, NobodyLost
  <2>6. ASSUME NEW c \in Channels, BeginNames(c) \/ BeginWho(c) PROVE FALSE
    BY <2>5, <2>6 DEF BeginNames, BeginWho, books, Kept
  <2>7. ASSUME NEW n \in Nicks, Hear(n) PROVE FALSE
    BY <2>5, <2>7 DEF Hear, Kept
  <2>8. Nicks # {}
    OBVIOUS
  <2> QED
    BY <1>1, <2>1, <2>2, <2>3, <2>4, <2>6, <2>7, <2>8, LinesLoseNobody, EndOfNamesDrops DEF Next
<1>2. [Next]_vars =>
        [\A n \in Nicks :
           (\E c \in Channels : n \in members[c]) /\ (\A c \in Channels : n \notin members'[c])
             => n \notin users']_vars
  BY <1>1 DEF Lost, Member
<1> QED
  BY <1>2, PTL DEF Spec, OrphansAreDropped
=============================================================================
