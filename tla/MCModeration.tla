------------------------------ MODULE MCModeration ------------------------------
(* Two people, three nicks of which rfc1459 folds two together, one channel. *)
EXTENDS Moderation, TLC

CONSTANTS p1, p2, c1

\* The two people are alike, and no liveness is checked.
Symmetry == Permutations(Persons)

MCNicks == {"n", "N", "m"}
MCKeys == {"n", "N", "m"}
MCFold == [rfc1459 |-> [n |-> "n", N |-> "n", m |-> "m"],
           ascii |-> [n |-> "n", N |-> "N", m |-> "m"]]

Quiet == [rate |-> "off", spam |-> "off", words |-> "off", inline |-> FALSE]

\* Every check and every action once, in few tables.
MCFiles == {[Quiet EXCEPT !.words = "warn", !.inline = TRUE],
            [Quiet EXCEPT !.rate = "ban", !.words = "kick"],
            [Quiet EXCEPT !.spam = "mute", !.words = "warn", !.inline = TRUE]}

MCRuleKinds == {<<"block", "global", 1>>, <<"allow", c1, 2>>}

\* Two rows of one pattern, and another.
MCTwice == {<<"block", "global", 1>>, <<"block", "global", 2>>, <<"allow", c1, 3>>}
=============================================================================
