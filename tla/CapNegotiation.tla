---------------------------- MODULE CapNegotiation ----------------------------
(***************************************************************************)
(* One connection of novariusirc/core/client.py from _register() on: CAP   *)
(* negotiation, SASL and the welcome, between the bot's reader and an IRC  *)
(* server, over one FIFO stream in each direction.                         *)
(*                                                                         *)
(* A line is handled by one step.  The handlers do await their own writes, *)
(* but no other task of the bot touches this state, so nothing is seen     *)
(* in between.  The server is external: it answers every request, and it   *)
(* may refuse, withdraw or add a capability whenever it likes.             *)
(* The registration timeout is in ClientLifecycle.                         *)
(***************************************************************************)
EXTENDS Integers, FiniteSets, SequencesExt

CONSTANTS
  Requested,  \* the capability profile, without sasl
  Extra,      \* capabilities a server may offer that the profile has not
  MaxChanges  \* bound: unsolicited changes of the server's capabilities

ASSUME CapAssumption ==
  /\ IsFiniteSet(Requested \cup Extra)
  /\ "sasl" \notin Requested \cup Extra
  /\ MaxChanges \in Nat

Caps == Requested \cup Extra \cup {"sasl"}
Mechanisms == {"ours", "theirs"}  \* auth.sasl_mechanism(), and any other

VARIABLES
  config,            \* network.ircv3_enabled, auth.sasl_enabled, credentials
  reader,            \* "registering", "registered", or "failed"
  offered, active, pending,            \* CapabilityState
  sasl_mechanisms, sasl_in_progress, sasl_complete, cap_end_sent,
  toServer, toClient,                  \* lines in flight
  srv,               \* the server's side of the connection
  changes            \* unsolicited changes so far

clientVars == <<reader, offered, active, pending, sasl_mechanisms,
                sasl_in_progress, sasl_complete, cap_end_sent>>
serverVars == <<srv, changes>>
vars == <<config, clientVars, toServer, toClient, serverVars>>

Line(cmd) == [cmd |-> cmd, caps |-> {}]
CapLine(cmd, caps) == [cmd |-> cmd, caps |-> caps]

ToServer == {"LS", "REQ", "END", "USER", "MECHANISM", "DATA", "ABORT"}
ToClient == {"LS*", "LS", "ACK", "ACK-", "NAK", "NEW", "DEL", "+", "challenge",
             "903", "904", "001", "421", "433", "ERROR"}

TypeOK ==
  /\ config \in [ircv3 : BOOLEAN, sasl : BOOLEAN, credentials : BOOLEAN]
  /\ reader \in {"registering", "registered", "failed"}
  /\ offered \subseteq Caps /\ active \subseteq Caps /\ pending \subseteq Caps
  /\ sasl_mechanisms \subseteq Mechanisms
  /\ sasl_in_progress \in BOOLEAN /\ sasl_complete \in BOOLEAN
  /\ cap_end_sent \in BOOLEAN
  /\ \A i \in 1 .. Len(toServer) :
       toServer[i].cmd \in ToServer /\ toServer[i].caps \subseteq Caps
  /\ Cardinality({i \in 1 .. Len(toServer) : toServer[i].cmd = "END"})
       <= IF cap_end_sent THEN 1 ELSE 0
  /\ \A i \in 1 .. Len(toClient) :
       toClient[i].cmd \in ToClient /\ toClient[i].caps \subseteq Caps
  /\ srv \in [support : {"cap", "unknown", "silent"}, mechanisms : SUBSET Mechanisms,
              caps : SUBSET Caps, enabled : SUBSET Caps,
              suspended : BOOLEAN, user : BOOLEAN, account : BOOLEAN, welcomed : BOOLEAN]
  /\ changes \in 0 .. MaxChanges

\* _reset_connection_state() and _register(): NICK and USER are one line here.
Init ==
  /\ config \in [ircv3 : BOOLEAN, sasl : BOOLEAN, credentials : BOOLEAN]
  /\ reader = "registering"
  /\ offered = {} /\ active = {} /\ pending = {} /\ sasl_mechanisms = {}
  /\ sasl_in_progress = FALSE /\ sasl_complete = FALSE /\ cap_end_sent = FALSE
  /\ toServer = (IF config.ircv3 \/ config.sasl THEN <<Line("LS")>> ELSE <<>>)
                  \o <<Line("USER")>>
  /\ toClient = <<>>
  /\ srv \in [support : {"cap", "unknown", "silent"}, mechanisms : SUBSET Mechanisms,
              caps : SUBSET Caps, enabled : {{}},
              suspended : {FALSE}, user : {FALSE}, account : {FALSE}, welcomed : {FALSE}]
  /\ srv.support # "cap" => srv.caps = {} /\ srv.mechanisms = {}
  /\ changes = 0

-----------------------------------------------------------------------------
(* The reader.                                                             *)

Read(cmd) ==
  /\ reader # "failed"
  /\ toClient # <<>> /\ Head(toClient).cmd = cmd
  /\ toClient' = Tail(toClient)

Named == Head(toClient).caps

Send(lines) == toServer' = toServer \o lines

\* Mutant of _end_cap_negotiation: CAP END whenever negotiation is over.
_end_cap_negotiation_again(lines) ==
  /\ cap_end_sent' = TRUE
  /\ Send(lines \o <<Line("END")>>)

\* Writes `lines', and CAP END unless it was written before.
_end_cap_negotiation(lines) ==
  /\ cap_end_sent' = TRUE
  /\ Send(lines \o IF cap_end_sent THEN <<>> ELSE <<Line("END")>>)

\* Mutant of _maybe_end_cap_negotiation: ends as soon as nothing is pending.
_maybe_end_cap_negotiation_noSasl(left, busy, done) ==
  IF left = {}
    THEN _end_cap_negotiation(<<>>)
    ELSE UNCHANGED <<cap_end_sent, toServer>>

\* `left', `busy' and `done' are pending, sasl_in_progress and sasl_complete
\* as the caller leaves them.
_maybe_end_cap_negotiation(left, busy, done) ==
  IF left = {} /\ ~busy /\ (config.sasl => done)
    THEN _end_cap_negotiation(<<>>)
    ELSE UNCHANGED <<cap_end_sent, toServer>>

\* cap_req_lines() fills one line after the other: where it cuts depends on
\* the length of the names.
cap_req_lines(caps) ==
  {<<CapLine("REQ", caps)>>} \cup
  {[i \in DOMAIN s |-> CapLine("REQ", {s[i]})] : s \in SetToSeqs(caps)}

\* The lines of the requests, and CAP END when there is nothing to request.
Request(optional) ==
  LET sasl == IF config.sasl THEN {"sasl"} ELSE {}
      first == IF config.sasl THEN <<CapLine("REQ", sasl)>> ELSE <<>>
  IN /\ pending' = pending \cup sasl \cup optional
     /\ \/ /\ optional # {}
           /\ \E rest \in cap_req_lines(optional) : Send(first \o rest)
           /\ UNCHANGED cap_end_sent
        \/ optional = {} /\ first # <<>> /\ Send(first) /\ UNCHANGED cap_end_sent
        \/ optional = {} /\ first = <<>> /\ _end_cap_negotiation(<<>>)

Advertise ==
  /\ offered' = offered \cup Named
  /\ sasl_mechanisms' = IF "sasl" \in Named THEN sasl_mechanisms \cup srv.mechanisms
                                            ELSE sasl_mechanisms

ListMore ==
  /\ Read("LS*")
  /\ Advertise
  /\ UNCHANGED <<config, reader, active, pending, sasl_in_progress, sasl_complete,
                 cap_end_sent, toServer, serverVars>>

ListLast ==
  /\ Read("LS")
  /\ Advertise
  /\ IF /\ config.sasl
        /\ "sasl" \notin offered' \/ (sasl_mechanisms' # {} /\ "ours" \notin sasl_mechanisms')
       THEN /\ _end_cap_negotiation(<<>>)
            /\ reader' = "failed"
            /\ UNCHANGED pending
       ELSE /\ Request(IF config.ircv3 THEN Requested \cap offered' ELSE {})
            /\ UNCHANGED reader
  /\ UNCHANGED <<config, active, sasl_in_progress, sasl_complete, serverVars>>

Acknowledge ==
  /\ Read("ACK")
  /\ pending' = pending \ Named
  /\ active' = active \cup Named
  /\ IF config.sasl /\ "sasl" \in Named
       THEN /\ sasl_in_progress' = TRUE
            /\ Send(<<Line("MECHANISM")>>)
            /\ UNCHANGED cap_end_sent
       ELSE /\ UNCHANGED sasl_in_progress
            /\ _maybe_end_cap_negotiation(pending', sasl_in_progress, sasl_complete)
  /\ UNCHANGED <<config, reader, offered, sasl_mechanisms, sasl_complete, serverVars>>

\* An ACK of names with a minus sign: the server has disabled them.
AcknowledgeOff ==
  /\ Read("ACK-")
  /\ pending' = pending \ Named
  /\ active' = active \ Named
  /\ IF config.sasl /\ "sasl" \in Named
       THEN _end_cap_negotiation(<<>>) /\ reader' = "failed"
       ELSE /\ _maybe_end_cap_negotiation(pending', sasl_in_progress, sasl_complete)
            /\ UNCHANGED reader
  /\ UNCHANGED <<config, offered, sasl_mechanisms, sasl_in_progress, sasl_complete,
                 serverVars>>

\* Mutant of Reject: the rejected names stay pending.
Reject_leak ==
  /\ Read("NAK")
  /\ UNCHANGED pending
  /\ IF "sasl" \in Named
       THEN _end_cap_negotiation(<<>>) /\ reader' = "failed"
       ELSE /\ _maybe_end_cap_negotiation(pending', sasl_in_progress, sasl_complete)
            /\ UNCHANGED reader
  /\ UNCHANGED <<config, offered, active, sasl_mechanisms, sasl_in_progress, sasl_complete,
                 serverVars>>

Reject ==
  /\ Read("NAK")
  /\ pending' = pending \ Named
  /\ IF "sasl" \in Named
       THEN _end_cap_negotiation(<<>>) /\ reader' = "failed"
       ELSE /\ _maybe_end_cap_negotiation(pending', sasl_in_progress, sasl_complete)
            /\ UNCHANGED reader
  /\ UNCHANGED <<config, offered, active, sasl_mechanisms, sasl_in_progress, sasl_complete,
                 serverVars>>

\* CAP NEW requests what the profile wants and is neither active nor pending.
New ==
  /\ Read("NEW")
  /\ offered' = offered \cup Named
  /\ LET wanted == (Requested \cap offered') \ (active \cup pending)
     IN /\ pending' = pending \cup wanted
        /\ \/ wanted = {} /\ UNCHANGED toServer
           \/ wanted # {} /\ \E lines \in cap_req_lines(wanted) : Send(lines)
  /\ UNCHANGED <<config, reader, active, sasl_mechanisms, sasl_in_progress, sasl_complete,
                 cap_end_sent, serverVars>>

\* Mutant of Delete: a capability the server withdrew stays active.
Delete_keepActive ==
  /\ Read("DEL")
  /\ offered' = offered \ Named /\ pending' = pending \ Named
  /\ UNCHANGED <<config, reader, active, sasl_mechanisms, sasl_in_progress, sasl_complete,
                 cap_end_sent, toServer, serverVars>>

Delete ==
  /\ Read("DEL")
  /\ offered' = offered \ Named
  /\ active' = active \ Named
  /\ pending' = pending \ Named
  /\ UNCHANGED <<config, reader, sasl_mechanisms, sasl_in_progress, sasl_complete,
                 cap_end_sent, toServer, serverVars>>

Authenticate ==
  /\ Read("+")
  /\ IF sasl_in_progress
       THEN Send(<<Line(IF config.credentials THEN "DATA" ELSE "ABORT")>>)
       ELSE UNCHANGED toServer
  /\ UNCHANGED <<config, clientVars, serverVars>>

\* Anything else than "+" is a challenge of a mechanism the bot cannot do.
AuthenticateUnsupported ==
  /\ Read("challenge")
  /\ IF sasl_in_progress
       THEN /\ _end_cap_negotiation(<<Line("ABORT")>>)
            /\ sasl_in_progress' = FALSE
            /\ reader' = "failed"
       ELSE UNCHANGED <<cap_end_sent, toServer, sasl_in_progress, reader>>
  /\ UNCHANGED <<config, offered, active, pending, sasl_mechanisms, sasl_complete, serverVars>>

\* 903 and 907.
SaslDone ==
  /\ Read("903")
  /\ sasl_in_progress' = FALSE /\ sasl_complete' = TRUE
  /\ UNCHANGED pending
  /\ _maybe_end_cap_negotiation(pending, FALSE, TRUE)
  /\ UNCHANGED <<config, reader, offered, active, sasl_mechanisms, serverVars>>

\* 902, 904, 905 and 906.  A 908 before it is left out: it adds mechanisms
\* that are tried no more, for the connection ends here.
SaslFailed ==
  /\ Read("904")
  /\ sasl_in_progress' = FALSE
  /\ _end_cap_negotiation(<<>>)
  /\ reader' = "failed"
  /\ UNCHANGED <<config, offered, active, pending, sasl_mechanisms, sasl_complete, serverVars>>

Welcome ==
  /\ Read("001")
  /\ reader' = IF config.sasl /\ ~sasl_complete THEN "failed" ELSE "registered"
  /\ UNCHANGED <<config, offered, active, pending, sasl_mechanisms, sasl_in_progress,
                 sasl_complete, cap_end_sent, toServer, serverVars>>

\* ERROR, a refused nick, and a server that does not know CAP.
Refused ==
  /\ \/ Read("ERROR") /\ reader' = "failed"
     \/ Read("433") /\ reader' = IF reader = "registering" THEN "failed" ELSE reader
     \/ Read("421") /\ reader' = IF config.sasl THEN "failed" ELSE reader
  /\ UNCHANGED <<config, offered, active, pending, sasl_mechanisms, sasl_in_progress,
                 sasl_complete, cap_end_sent, toServer, serverVars>>

ClientNext ==
  \/ ListMore \/ ListLast \/ Acknowledge \/ AcknowledgeOff \/ Reject \/ New \/ Delete
  \/ Authenticate \/ AuthenticateUnsupported \/ SaslDone \/ SaslFailed
  \/ Welcome \/ Refused

-----------------------------------------------------------------------------
(* The server (external).                                                  *)

Take(cmd) ==
  /\ reader # "failed"
  /\ toServer # <<>> /\ Head(toServer).cmd = cmd
  /\ toServer' = Tail(toServer)
  /\ UNCHANGED <<config, clientVars>>

Reply(lines) == toClient' = toClient \o lines

\* In one line or two.
ServeList ==
  /\ Take("LS")
  /\ \/ /\ srv.support = "cap"
        /\ \/ Reply(<<CapLine("LS", srv.caps)>>)
           \/ \E part \in SUBSET srv.caps :
                Reply(<<CapLine("LS*", part), CapLine("LS", srv.caps \ part)>>)
     \/ srv.support = "unknown" /\ Reply(<<Line("421")>>)
     \/ srv.support = "silent" /\ UNCHANGED toClient
  /\ srv' = [srv EXCEPT !.suspended = srv.support = "cap"]
  /\ UNCHANGED changes

\* A request is granted or refused as a whole.
ServeRequest ==
  /\ Take("REQ")
  /\ LET caps == Head(toServer).caps
     IN \/ /\ caps \subseteq srv.caps
           /\ srv' = [srv EXCEPT !.enabled = @ \cup caps]
           /\ Reply(<<CapLine("ACK", caps)>>)
        \/ /\ UNCHANGED srv
           /\ Reply(<<CapLine("NAK", caps)>>)
  /\ UNCHANGED changes

ServeEnd ==
  /\ Take("END")
  /\ srv' = [srv EXCEPT !.suspended = FALSE]
  /\ UNCHANGED <<toClient, changes>>

ServeUser ==
  /\ Take("USER")
  /\ \/ srv' = [srv EXCEPT !.user = TRUE] /\ UNCHANGED toClient
     \/ UNCHANGED srv /\ Reply(<<Line("433")>>)
  /\ UNCHANGED changes

ServeMechanism ==
  /\ Take("MECHANISM")
  /\ \E answer \in {"+", "challenge", "904"} : Reply(<<Line(answer)>>)
  /\ UNCHANGED serverVars

ServeData ==
  /\ Take("DATA")
  /\ \/ srv' = [srv EXCEPT !.account = TRUE] /\ Reply(<<Line("903")>>)
     \/ UNCHANGED srv /\ Reply(<<Line("904")>>)
  /\ UNCHANGED changes

ServeAbort ==
  /\ Take("ABORT")
  /\ Reply(<<Line("904")>>)
  /\ UNCHANGED serverVars

ServeWelcome ==
  /\ reader # "failed"
  /\ srv.user /\ ~srv.suspended /\ ~srv.welcomed
  /\ srv' = [srv EXCEPT !.welcomed = TRUE]
  /\ Reply(<<Line("001")>>)
  /\ UNCHANGED <<config, clientVars, toServer, changes>>

\* A server that was asked with LS 302 adds, withdraws or disables one
\* capability, or it gives up on the connection.
ServerChange ==
  /\ reader # "failed"
  /\ changes < MaxChanges
  /\ changes' = changes + 1
  /\ \/ \E c \in Caps \ srv.caps :
          /\ srv' = [srv EXCEPT !.caps = @ \cup {c}]
          /\ Reply(<<CapLine("NEW", {c})>>)
     \/ \E c \in srv.caps :
          /\ srv' = [srv EXCEPT !.caps = @ \ {c}, !.enabled = @ \ {c}]
          /\ Reply(<<CapLine("DEL", {c})>>)
     \/ \E c \in srv.enabled :
          /\ srv' = [srv EXCEPT !.enabled = @ \ {c}]
          /\ Reply(<<CapLine("ACK-", {c})>>)
     \/ Reply(<<Line("ERROR")>>) /\ UNCHANGED srv
  /\ srv.support = "cap" /\ (srv.suspended \/ srv.welcomed)
  /\ config.ircv3 \/ config.sasl
  /\ UNCHANGED <<config, clientVars, toServer>>

ServerNext ==
  \/ ServeList \/ ServeRequest \/ ServeEnd \/ ServeUser
  \/ ServeMechanism \/ ServeData \/ ServeAbort \/ ServeWelcome

Next == ClientNext \/ ServerNext \/ ServerChange

\* Both ends keep reading; nobody has to change a capability.
Spec == Init /\ [][Next]_vars /\ WF_vars(ClientNext) /\ WF_vars(ServerNext)

-----------------------------------------------------------------------------
(* Properties.                                                             *)

(***************************************************************************)
(* With SASL configured the bot goes on (CAP END, or registered) only on a *)
(* connection the server has authenticated: anything else ends in the      *)
(* failing of the connection, whatever the server refuses or withdraws.    *)
(***************************************************************************)
AuthenticatedOrFailed ==
  config.sasl /\ reader # "failed" /\ (cap_end_sent \/ reader = "registered")
    => srv.account

(***************************************************************************)
(* When the server has nothing more to tell, the bot believes exactly those*)
(* capabilities active that the server has enabled, and when it has nothing*)
(* more to answer either, the bot waits for no answer: no order of LS, ACK,*)
(* NAK, NEW and DEL loses or invents a capability or leaks a request.      *)
(***************************************************************************)
CapabilitiesAgree ==
  reader # "failed" /\ toClient = <<>> =>
    /\ active = srv.enabled
    /\ toServer = <<>> => pending = {}

(***************************************************************************)
(* With a server that answers, registration always ends, and without the   *)
(* registration timeout: CAP END is not forgotten in any order of answers. *)
(***************************************************************************)
RegistrationEnds == <>(reader # "registering")
=============================================================================
