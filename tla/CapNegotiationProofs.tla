-------------------------- MODULE CapNegotiationProofs --------------------------
(***************************************************************************)
(* Theorems about CapNegotiation, for every set of capabilities and every  *)
(* number of changes of them by the server.                                *)
(***************************************************************************)
EXTENDS CapNegotiation, FiniteSetTheorems, TLAPS

ServerLines == [cmd : ToServer, caps : SUBSET Caps]
PlainLines == [cmd : ToServer \ {"END"}, caps : SUBSET Caps]
ClientLines == [cmd : ToClient, caps : SUBSET Caps]

\* What the bot has written: one CAP END at most, and none unless it says so.
Written ==
  /\ toServer \in Seq(ServerLines)
  /\ cap_end_sent \in BOOLEAN
  /\ \A i, j \in 1 .. Len(toServer) :
       toServer[i].cmd = "END" /\ toServer[j].cmd = "END" => i = j
  /\ \A i \in 1 .. Len(toServer) : toServer[i].cmd = "END" => cap_end_sent

\* What the server has written: a success is only told of an account.
Answered ==
  /\ toClient \in Seq(ClientLines)
  /\ \A i \in 1 .. Len(toClient) : toClient[i].cmd = "903" => srv.account

ServerTypes ==
  /\ srv \in [support : {"cap", "unknown", "silent"}, mechanisms : SUBSET Mechanisms,
              caps : SUBSET Caps, enabled : SUBSET Caps,
              suspended : BOOLEAN, user : BOOLEAN, account : BOOLEAN, welcomed : BOOLEAN]
  /\ changes \in 0 .. MaxChanges

ConfigTypes == config \in [ircv3 : BOOLEAN, sasl : BOOLEAN, credentials : BOOLEAN]

ClientTypes ==
  /\ reader \in {"registering", "registered", "failed"}
  /\ offered \subseteq Caps /\ active \subseteq Caps /\ pending \subseteq Caps
  /\ sasl_mechanisms \subseteq Mechanisms
  /\ sasl_in_progress \in BOOLEAN /\ sasl_complete \in BOOLEAN

Inv ==
  /\ ConfigTypes /\ ClientTypes /\ ServerTypes /\ Written /\ Answered
  /\ sasl_complete => srv.account
  /\ AuthenticatedOrFailed

LEMMA PlainAreLines ==
  ASSUME NEW lines \in Seq(PlainLines)
  PROVE  lines \in Seq(ServerLines) /\ \A i \in 1 .. Len(lines) : lines[i].cmd # "END"
<1>1. PlainLines \subseteq ServerLines
  BY DEF PlainLines, ServerLines
<1>2. ASSUME NEW i \in 1 .. Len(lines) PROVE lines[i].cmd # "END"
  <2>1. lines[i] \in PlainLines
    OBVIOUS
  <2> QED
    BY <2>1 DEF PlainLines
<1> QED
  BY <1>1, <1>2

LEMMA InitInv == Init => Inv
<1> SUFFICES ASSUME Init PROVE Inv
  OBVIOUS
<1> USE DEF Init
<1>1. ConfigTypes /\ ClientTypes
  BY DEF ConfigTypes, ClientTypes
<1>2. ServerTypes
  <2>1. changes \in 0 .. MaxChanges
    BY CapAssumption
  <2>2. {{}} \subseteq SUBSET Caps /\ {FALSE} \subseteq BOOLEAN
    OBVIOUS
  <2> QED
    BY <2>1, <2>2 DEF ServerTypes
<1>3. Written
  <2>1. Line("LS") \in PlainLines /\ Line("USER") \in PlainLines
    BY DEF PlainLines, ToServer, Line
  <2>2. toServer \in Seq(PlainLines)
    BY <2>1
  <2> QED
    BY <2>2, PlainAreLines DEF Written
<1>4. Answered
  BY DEF Answered
<1> QED
  BY <1>1, <1>2, <1>3, <1>4 DEF Inv, AuthenticatedOrFailed

-----------------------------------------------------------------------------
(* The wires.                                                              *)

\* A line is read: the rest of the stream is as it was.
LEMMA ReadRest ==
  ASSUME Answered, NEW cmd, Read(cmd)
  PROVE  /\ Head(toClient) \in ClientLines /\ Head(toClient).cmd = cmd
         /\ Named \subseteq Caps
         /\ cmd = "903" => srv.account
         /\ (srv.account => srv'.account) => Answered'
<1> USE DEF Answered, Read
<1>1. Head(toClient) \in ClientLines /\ Head(toClient) = toClient[1] /\ 1 \in 1 .. Len(toClient)
  OBVIOUS
<1>2. toClient' \in Seq(ClientLines)
  OBVIOUS
<1>3. \A i \in 1 .. Len(toClient') : i + 1 \in 1 .. Len(toClient) /\ toClient'[i] = toClient[i + 1]
  OBVIOUS
<1> QED
  BY <1>1, <1>2, <1>3 DEF ClientLines, Named

LEMMA ReadKeeps ==
  ASSUME Answered, UNCHANGED srv, \E cmd \in ToClient : Read(cmd)
  PROVE  Named \subseteq Caps /\ Answered'
BY ReadRest

LEMMA ReplyAdds ==
  ASSUME Answered, NEW lines \in Seq(ClientLines), Reply(lines),
         srv.account => srv'.account,
         \A i \in 1 .. Len(lines) : lines[i].cmd = "903" => srv'.account
  PROVE  Answered'
<1>1. toClient' \in Seq(ClientLines)
  BY DEF Answered, Reply
<1>2. ASSUME NEW i \in 1 .. Len(toClient'), toClient'[i].cmd = "903" PROVE srv'.account
  <2>1. CASE i <= Len(toClient)
    BY <1>2, <2>1 DEF Answered, Reply
  <2>2. CASE i > Len(toClient)
    <3>1. i - Len(toClient) \in 1 .. Len(lines) /\ toClient'[i] = lines[i - Len(toClient)]
      BY <2>2 DEF Answered, Reply
    <3> QED
      BY <1>2, <3>1
  <2> QED
    BY <2>1, <2>2 DEF Answered
<1> QED
  BY <1>1, <1>2 DEF Answered

LEMMA TakeRest ==
  ASSUME Written, NEW cmd, Take(cmd)
  PROVE  Written' /\ Head(toServer) \in ServerLines
<1> USE DEF Written, Take, clientVars
<1>1. toServer' \in Seq(ServerLines) /\ Head(toServer) \in ServerLines
  OBVIOUS
<1>2. \A i \in 1 .. Len(toServer') : i + 1 \in 1 .. Len(toServer) /\ toServer'[i] = toServer[i + 1]
  OBVIOUS
<1>3. ASSUME NEW i \in 1 .. Len(toServer'), NEW j \in 1 .. Len(toServer'),
             toServer'[i].cmd = "END", toServer'[j].cmd = "END"
      PROVE  i = j
  <2>1. i + 1 = j + 1
    BY <1>2, <1>3
  <2> QED
    BY <2>1
<1> QED
  BY <1>1, <1>2, <1>3

\* Lines without CAP END can be added at any time.
LEMMA SendAdds ==
  ASSUME Written, NEW lines \in Seq(PlainLines), Send(lines), UNCHANGED cap_end_sent
  PROVE  Written'
<1> USE DEF Written, Send
<1>1. toServer' \in Seq(ServerLines)
  <2>1. lines \in Seq(ServerLines)
    BY PlainAreLines
  <2> QED
    BY <2>1
<1>2. ASSUME NEW i \in 1 .. Len(toServer'), toServer'[i].cmd = "END"
      PROVE  i \in 1 .. Len(toServer) /\ toServer'[i] = toServer[i]
  <2>1. CASE i > Len(toServer)
    <3>1. i - Len(toServer) \in 1 .. Len(lines) /\ toServer'[i] = lines[i - Len(toServer)]
      BY <2>1
    <3>2. lines[i - Len(toServer)] \in PlainLines
      BY <3>1
    <3> QED
      BY <1>2, <3>1, <3>2 DEF PlainLines
  <2>2. CASE i <= Len(toServer)
    BY <2>2
  <2> QED
    BY <2>1, <2>2
<1> QED
  BY <1>1, <1>2

LEMMA EndAdds ==
  ASSUME Written, NEW lines \in Seq(PlainLines), _end_cap_negotiation(lines)
  PROVE  Written' /\ cap_end_sent'
<1> USE DEF _end_cap_negotiation
<1>1. CASE cap_end_sent
  <2>1. lines \o <<>> = lines
    OBVIOUS
  <2>2. Send(lines) /\ UNCHANGED cap_end_sent
    BY <1>1, <2>1
  <2> QED
    BY <1>1, <2>2, SendAdds
<1>2. CASE ~cap_end_sent
  <2> DEFINE all == toServer \o lines
             end == Line("END")
  <2>1. end \in ServerLines /\ end.cmd = "END"
    BY DEF ServerLines, ToServer, Line
  <2>2. lines \in Seq(ServerLines) /\ toServer \in Seq(ServerLines)
    BY PlainAreLines DEF Written
  <2>3. all \in Seq(ServerLines)
    BY <2>2
  <2>4. \A i \in 1 .. Len(all) : all[i].cmd # "END"
    <3>1. \A i \in 1 .. Len(toServer) : toServer[i].cmd # "END"
      BY <1>2 DEF Written
    <3>2. \A i \in 1 .. Len(lines) : lines[i].cmd # "END"
      BY PlainAreLines
    <3>3. ASSUME NEW i \in 1 .. Len(all) PROVE all[i].cmd # "END"
      <4>1. CASE i <= Len(toServer)
        BY <2>2, <3>1, <4>1
      <4>2. CASE i > Len(toServer)
        <5>1. i - Len(toServer) \in 1 .. Len(lines) /\ all[i] = lines[i - Len(toServer)]
          BY <2>2, <4>2
        <5> QED
          BY <3>2, <5>1
      <4> QED
        BY <2>2, <4>1, <4>2
    <3> QED
      BY <3>3
  <2>5. toServer' = Append(all, end)
    BY <1>2, <2>1, <2>2 DEF Send
  <2>6. toServer' \in Seq(ServerLines) /\ Len(toServer') = Len(all) + 1
        /\ \A i \in 1 .. Len(all) : toServer'[i] = all[i]
    BY <2>1, <2>3, <2>5
  <2>7. ASSUME NEW i \in 1 .. Len(toServer'), toServer'[i].cmd = "END"
        PROVE  i = Len(all) + 1
    <3>1. CASE i \in 1 .. Len(all)
      BY <2>4, <2>6, <2>7, <3>1
    <3>2. CASE i \notin 1 .. Len(all)
      <4>1. Len(all) \in Nat
        BY <2>3
      <4> HIDE DEF all
      <4> QED
        BY <2>6, <3>2, <4>1
    <3> QED
      BY <3>1, <3>2
  <2> QED
    BY <2>6, <2>7 DEF Written
<1> QED
  BY <1>1, <1>2 DEF Written

LEMMA MaybeEndAdds ==
  ASSUME Written, NEW left, NEW busy, NEW done, _maybe_end_cap_negotiation(left, busy, done)
  PROVE  Written' /\ (cap_end_sent' /\ ~cap_end_sent => (config.sasl => done))
<1>1. CASE _end_cap_negotiation(<<>>)
  <2>1. <<>> \in Seq(PlainLines)
    OBVIOUS
  <2> QED
    BY <1>1, <2>1, EndAdds DEF _maybe_end_cap_negotiation, Written, _end_cap_negotiation
<1>2. CASE UNCHANGED <<cap_end_sent, toServer>>
  BY <1>2 DEF Written
<1> QED
  BY <1>1, <1>2 DEF _maybe_end_cap_negotiation

LEMMA CapsFinite == IsFiniteSet(Caps)
BY CapAssumption, FS_Singleton, FS_Union DEF Caps

LEMMA RequestLines ==
  ASSUME NEW caps \in SUBSET Caps, NEW lines \in cap_req_lines(caps)
  PROVE  lines \in Seq(PlainLines)
<1>1. CASE lines = <<CapLine("REQ", caps)>>
  BY <1>1 DEF PlainLines, ToServer, CapLine
<1>2. CASE \E s \in SetToSeqs(caps) : lines = [i \in DOMAIN s |-> CapLine("REQ", {s[i]})]
  <2>1. PICK s \in SetToSeqs(caps) : lines = [i \in DOMAIN s |-> CapLine("REQ", {s[i]})]
    BY <1>2
  <2>2. Cardinality(caps) \in Nat
    BY CapsFinite, FS_Subset, FS_CardinalityType
  <2>3. s \in [1 .. Cardinality(caps) -> caps]
    BY <2>1 DEF SetToSeqs
  <2>4. \A i \in 1 .. Cardinality(caps) : CapLine("REQ", {s[i]}) \in PlainLines
    BY <2>3 DEF PlainLines, ToServer, CapLine
  <2>5. lines \in [1 .. Cardinality(caps) -> PlainLines]
    BY <2>1, <2>3, <2>4
  <2> QED
    BY <2>2, <2>5
<1> QED
  BY <1>1, <1>2 DEF cap_req_lines

LEMMA RequestAdds ==
  ASSUME Written, pending \subseteq Caps, NEW optional \in SUBSET Caps, Request(optional)
  PROVE  /\ Written' /\ pending' \subseteq Caps
         /\ cap_end_sent' /\ ~cap_end_sent => ~config.sasl
<1> DEFINE sasl == IF config.sasl THEN {"sasl"} ELSE {}
           first == IF config.sasl THEN <<CapLine("REQ", sasl)>> ELSE <<>>
<1>1. sasl \subseteq Caps
  BY DEF Caps
<1>2. first \in Seq(PlainLines)
  <2>1. CapLine("REQ", sasl) \in PlainLines
    BY <1>1 DEF PlainLines, ToServer, CapLine
  <2> QED
    BY <2>1
<1>3. pending' \subseteq Caps
  BY <1>1 DEF Request
<1>4. CASE UNCHANGED cap_end_sent /\ \E rest \in cap_req_lines(optional) : Send(first \o rest)
  <2>1. PICK rest \in cap_req_lines(optional) : Send(first \o rest)
    BY <1>4
  <2>2. first \o rest \in Seq(PlainLines)
    BY <1>2, RequestLines
  <2> QED
    BY <1>3, <1>4, <2>1, <2>2, SendAdds
<1>5. CASE UNCHANGED cap_end_sent /\ Send(first)
  BY <1>2, <1>3, <1>5, SendAdds
<1>6. CASE first = <<>> /\ _end_cap_negotiation(<<>>)
  <2>1. ~config.sasl
    BY <1>6
  <2>2. <<>> \in Seq(PlainLines)
    OBVIOUS
  <2> QED
    BY <1>3, <1>6, <2>1, <2>2, EndAdds
<1> QED
  BY <1>4, <1>5, <1>6 DEF Request

-----------------------------------------------------------------------------
(* The reader.  A step that does not fail goes on only when it may.        *)

LEMMA MayGoOn ==
  ASSUME Inv, reader # "failed", UNCHANGED <<config, srv>>,
         reader' # "failed" /\ cap_end_sent' /\ ~cap_end_sent
           => (config.sasl => sasl_complete'),
         reader' = "registered" => reader = "registered" \/ (config.sasl => sasl_complete'),
         sasl_complete' => srv.account
  PROVE  AuthenticatedOrFailed'
BY DEF Inv, AuthenticatedOrFailed

LEMMA ListInv ==
  ASSUME Inv, ListMore \/ ListLast PROVE Inv'
<1> USE DEF Inv, serverVars
<1>1. Named \subseteq Caps /\ Answered'
  <2>1. \E cmd \in ToClient : Read(cmd)
    BY DEF ToClient, ListMore, ListLast
  <2> QED
    BY <2>1, ReadKeeps DEF ListMore, ListLast
<1>2. offered' \subseteq Caps /\ sasl_mechanisms' \subseteq Mechanisms
  BY <1>1 DEF ListMore, ListLast, Advertise, ClientTypes, ServerTypes
<1>3. CASE ListMore
  <2>1. Written' /\ ClientTypes'
    BY <1>2, <1>3 DEF ListMore, Written, ClientTypes
  <2> QED
    BY <1>1, <1>3, <2>1 DEF ListMore, ConfigTypes, ServerTypes, AuthenticatedOrFailed
<1>4. CASE ListLast
  <2>1. CASE _end_cap_negotiation(<<>>) /\ reader' = "failed" /\ UNCHANGED pending
    <3>1. <<>> \in Seq(PlainLines)
      OBVIOUS
    <3>2. Written'
      BY <2>1, <3>1, EndAdds
    <3> QED
      BY <1>1, <1>2, <1>4, <2>1, <3>2
      DEF ListLast, ConfigTypes, ClientTypes, ServerTypes, AuthenticatedOrFailed
  <2>2. CASE Request(IF config.ircv3 THEN Requested \cap offered' ELSE {}) /\ UNCHANGED reader
    <3>1. (IF config.ircv3 THEN Requested \cap offered' ELSE {}) \in SUBSET Caps
      BY DEF Caps
    <3>2. /\ Written' /\ pending' \subseteq Caps
          /\ cap_end_sent' /\ ~cap_end_sent => ~config.sasl
      BY <2>2, <3>1, RequestAdds DEF ClientTypes
    <3>3. AuthenticatedOrFailed'
      BY <1>4, <2>2, <3>2, MayGoOn DEF ListLast, Read
    <3> QED
      BY <1>1, <1>2, <1>4, <2>2, <3>2, <3>3 DEF ListLast, ConfigTypes, ClientTypes, ServerTypes
  <2> QED
    BY <1>4, <2>1, <2>2 DEF ListLast
<1> QED
  BY <1>3, <1>4

LEMMA AcknowledgeInv ==
  ASSUME Inv, Acknowledge \/ AcknowledgeOff \/ Reject PROVE Inv'
<1> USE DEF Inv, serverVars, Acknowledge, AcknowledgeOff, Reject
<1>1. Named \subseteq Caps /\ Answered'
  <2>1. \E cmd \in ToClient : Read(cmd)
    BY DEF ToClient
  <2> QED
    BY <2>1, ReadKeeps
<1>2. ClientTypes' /\ ConfigTypes' /\ ServerTypes' /\ UNCHANGED <<config, srv, sasl_complete>>
  BY <1>1 DEF ClientTypes, ConfigTypes, ServerTypes
<1>3. <<>> \in Seq(PlainLines) /\ <<Line("MECHANISM")>> \in Seq(PlainLines)
  BY DEF PlainLines, ToServer, Line
<1>4. Written' /\ (cap_end_sent' /\ ~cap_end_sent /\ reader' # "failed"
                     => (config.sasl => sasl_complete))
  <2>1. CASE Send(<<Line("MECHANISM")>>) /\ UNCHANGED cap_end_sent
    BY <1>3, <2>1, SendAdds
  <2>2. CASE _maybe_end_cap_negotiation(pending', sasl_in_progress, sasl_complete)
    BY <2>2, MaybeEndAdds
  <2>3. CASE _end_cap_negotiation(<<>>) /\ reader' = "failed"
    BY <1>3, <2>3, EndAdds
  <2> QED
    BY <2>1, <2>2, <2>3
<1>5. AuthenticatedOrFailed'
  BY <1>2, <1>4, MayGoOn DEF Read
<1> QED
  BY <1>1, <1>2, <1>4, <1>5

LEMMA ChangeInv ==
  ASSUME Inv, New \/ Delete PROVE Inv'
<1> USE DEF Inv, serverVars, New, Delete
<1>1. Named \subseteq Caps /\ Answered'
  <2>1. \E cmd \in ToClient : Read(cmd)
    BY DEF ToClient
  <2> QED
    BY <2>1, ReadKeeps
<1>2. ClientTypes' /\ ConfigTypes' /\ ServerTypes'
      /\ UNCHANGED <<config, srv, reader, cap_end_sent, sasl_complete>>
  BY <1>1 DEF ClientTypes, ConfigTypes, ServerTypes, Caps
<1>3. Written'
  <2>1. CASE UNCHANGED toServer
    BY <1>2, <2>1 DEF Written
  <2>2. CASE \E wanted \in SUBSET Caps : \E lines \in cap_req_lines(wanted) : Send(lines)
    <3>1. PICK wanted \in SUBSET Caps : \E lines \in cap_req_lines(wanted) : Send(lines)
      BY <2>2
    <3>2. PICK lines \in cap_req_lines(wanted) : Send(lines)
      BY <3>1
    <3>3. lines \in Seq(PlainLines)
      BY RequestLines
    <3> QED
      BY <1>2, <3>2, <3>3, SendAdds
  <2> QED
    BY <2>1, <2>2 DEF Caps
<1>4. AuthenticatedOrFailed'
  BY <1>2 DEF AuthenticatedOrFailed
<1> QED
  BY <1>1, <1>2, <1>3, <1>4

LEMMA SaslInv ==
  ASSUME Inv, Authenticate \/ AuthenticateUnsupported \/ SaslDone \/ SaslFailed PROVE Inv'
<1> USE DEF Inv, serverVars, clientVars
<1>0. /\ <<>> \in Seq(PlainLines) /\ <<Line("ABORT")>> \in Seq(PlainLines)
      /\ <<Line("DATA")>> \in Seq(PlainLines)
  BY DEF PlainLines, ToServer, Line
<1>1. Answered'
  <2>1. \E cmd \in ToClient : Read(cmd)
    BY DEF ToClient, Authenticate, AuthenticateUnsupported, SaslDone, SaslFailed
  <2> QED
    BY <2>1, ReadKeeps DEF Authenticate, AuthenticateUnsupported, SaslDone, SaslFailed
<1>2. ClientTypes' /\ ConfigTypes' /\ ServerTypes' /\ UNCHANGED <<config, srv>>
  BY DEF Authenticate, AuthenticateUnsupported, SaslDone, SaslFailed,
         ClientTypes, ConfigTypes, ServerTypes
<1>3. CASE Authenticate
  <2>1. Written'
    <3>1. CASE UNCHANGED toServer
      BY <1>3, <3>1 DEF Authenticate, Written
    <3>2. CASE Send(<<Line(IF config.credentials THEN "DATA" ELSE "ABORT")>>)
      BY <1>0, <1>3, <3>2, SendAdds DEF Authenticate
    <3> QED
      BY <1>3, <3>1, <3>2 DEF Authenticate
  <2> QED
    BY <1>1, <1>2, <1>3, <2>1 DEF Authenticate, AuthenticatedOrFailed
<1>4. CASE AuthenticateUnsupported
  <2>1. CASE _end_cap_negotiation(<<Line("ABORT")>>) /\ reader' = "failed"
    BY <1>0, <1>1, <1>2, <1>4, <2>1, EndAdds DEF AuthenticateUnsupported, AuthenticatedOrFailed
  <2>2. CASE UNCHANGED <<cap_end_sent, toServer, sasl_in_progress, reader>>
    BY <1>1, <1>2, <1>4, <2>2 DEF AuthenticateUnsupported, AuthenticatedOrFailed, Written
  <2> QED
    BY <1>4, <2>1, <2>2 DEF AuthenticateUnsupported
<1>5. CASE SaslDone
  <2>1. srv.account
    BY <1>5, ReadRest DEF SaslDone
  <2>2. Written'
    BY <1>5, MaybeEndAdds DEF SaslDone
  <2> QED
    BY <1>1, <1>2, <2>1, <2>2 DEF AuthenticatedOrFailed
<1>6. CASE SaslFailed
  BY <1>0, <1>1, <1>2, <1>6, EndAdds DEF SaslFailed, AuthenticatedOrFailed
<1> QED
  BY <1>3, <1>4, <1>5, <1>6

LEMMA WelcomeInv ==
  ASSUME Inv, Welcome \/ Refused PROVE Inv'
<1> USE DEF Inv, serverVars, Welcome, Refused
<1>1. Answered'
  <2>1. \E cmd \in ToClient : Read(cmd)
    BY DEF ToClient
  <2> QED
    BY <2>1, ReadKeeps
<1>2. ClientTypes' /\ ConfigTypes' /\ ServerTypes' /\ Written'
      /\ UNCHANGED <<config, srv, cap_end_sent, sasl_complete>>
  BY DEF ClientTypes, ConfigTypes, ServerTypes, Written
<1>3. AuthenticatedOrFailed'
  BY <1>2, MayGoOn DEF Read
<1> QED
  BY <1>1, <1>2, <1>3

-----------------------------------------------------------------------------
(* The server: an account that it has given it does not take back.         *)

LEMMA ServerStep ==
  ASSUME Inv, UNCHANGED <<config, clientVars>>, ServerTypes', Written', Answered',
         srv.account => srv'.account
  PROVE  Inv'
BY DEF Inv, clientVars, ConfigTypes, ClientTypes, AuthenticatedOrFailed

LEMMA SingleReply ==
  ASSUME Answered, NEW line \in ClientLines, Reply(<<line>>),
         srv.account => srv'.account, line.cmd = "903" => srv'.account
  PROVE  Answered'
<1>1. <<line>> \in Seq(ClientLines)
  OBVIOUS
<1>2. \A i \in 1 .. Len(<<line>>) : <<line>>[i].cmd = "903" => srv'.account
  OBVIOUS
<1> QED
  BY <1>1, <1>2, ReplyAdds

LEMMA ServeTakenInv ==
  ASSUME Inv,
         \/ ServeList \/ ServeRequest \/ ServeEnd \/ ServeUser
         \/ ServeMechanism \/ ServeData \/ ServeAbort
  PROVE  Inv'
<1> USE DEF Inv, serverVars
<1>1. UNCHANGED <<config, clientVars>> /\ Written' /\ Head(toServer) \in ServerLines
  <2>1. \E cmd \in ToServer : Take(cmd)
    BY DEF ToServer, ServeList, ServeRequest, ServeEnd, ServeUser, ServeMechanism, ServeData,
           ServeAbort
  <2>2. PICK cmd \in ToServer : Take(cmd)
    BY <2>1
  <2> QED
    BY <2>2, TakeRest DEF Take
<1>2. Head(toServer).caps \subseteq Caps
  BY <1>1 DEF ServerLines
<1>3. ServerTypes' /\ (srv.account => srv'.account)
  BY <1>2 DEF ServerTypes, ServeList, ServeRequest, ServeEnd, ServeUser, ServeMechanism,
              ServeData, ServeAbort
<1>4. Answered'
  <2>1. CASE UNCHANGED toClient
    BY <1>3, <2>1 DEF Answered
  <2>2. CASE ServeList /\ ~UNCHANGED toClient
    <3>1. CASE Reply(<<CapLine("LS", srv.caps)>>)
      <4>1. CapLine("LS", srv.caps) \in ClientLines /\ CapLine("LS", srv.caps).cmd # "903"
        BY DEF ClientLines, ToClient, CapLine, ServerTypes
      <4> QED
        BY <1>3, <3>1, <4>1, SingleReply
    <3>2. ASSUME NEW part \in SUBSET srv.caps,
                 Reply(<<CapLine("LS*", part), CapLine("LS", srv.caps \ part)>>)
          PROVE  Answered'
      <4> DEFINE a == CapLine("LS*", part)
                 b == CapLine("LS", srv.caps \ part)
      <4>1. /\ a \in ClientLines /\ a.cmd # "903"
            /\ b \in ClientLines /\ b.cmd # "903"
        BY DEF ClientLines, ToClient, CapLine, ServerTypes
      <4> HIDE DEF a, b
      <4>2. <<a, b>> \in Seq(ClientLines) /\ \A i \in 1 .. Len(<<a, b>>) : <<a, b>>[i].cmd # "903"
        BY <4>1
      <4> QED
        BY <1>3, <3>2, <4>2, ReplyAdds DEF a, b
    <3>3. CASE Reply(<<Line("421")>>)
      <4>1. Line("421") \in ClientLines /\ Line("421").cmd # "903"
        BY DEF ClientLines, ToClient, Line
      <4> QED
        BY <1>3, <3>3, <4>1, SingleReply
    <3> QED
      BY <2>2, <3>1, <3>2, <3>3 DEF ServeList
  <2>3. CASE ServeRequest
    <3>1. PICK cmd \in {"ACK", "NAK"} : Reply(<<CapLine(cmd, Head(toServer).caps)>>)
      BY <2>3 DEF ServeRequest
    <3>2. /\ CapLine(cmd, Head(toServer).caps) \in ClientLines
          /\ CapLine(cmd, Head(toServer).caps).cmd # "903"
      BY <1>2 DEF ClientLines, ToClient, CapLine
    <3> QED
      BY <1>3, <3>1, <3>2, SingleReply
  <2>4. CASE \E cmd \in {"433", "+", "challenge", "904"} : Reply(<<Line(cmd)>>)
    <3>1. PICK cmd \in {"433", "+", "challenge", "904"} : Reply(<<Line(cmd)>>)
      BY <2>4
    <3>2. Line(cmd) \in ClientLines /\ Line(cmd).cmd # "903"
      BY DEF ClientLines, ToClient, Line
    <3> QED
      BY <1>3, <3>1, <3>2, SingleReply
  <2>5. CASE srv' = [srv EXCEPT !.account = TRUE] /\ Reply(<<Line("903")>>)
    <3>1. Line("903") \in ClientLines /\ srv'.account
      BY <2>5 DEF ClientLines, ToClient, Line, ServerTypes
    <3> QED
      BY <1>3, <2>5, <3>1, SingleReply
  <2> QED
    BY <2>1, <2>2, <2>3, <2>4, <2>5
    DEF ServeList, ServeRequest, ServeEnd, ServeUser, ServeMechanism, ServeData, ServeAbort
<1> QED
  BY <1>1, <1>3, <1>4, ServerStep

LEMMA ServerOwnInv ==
  ASSUME Inv, ServeWelcome \/ ServerChange PROVE Inv'
<1> USE DEF Inv, clientVars, ServeWelcome, ServerChange
<1>1. UNCHANGED <<config, clientVars>> /\ Written'
  BY DEF Written
<1>2. ServerTypes' /\ (srv.account => srv'.account)
  <2>1. CASE ServeWelcome
    BY <2>1 DEF ServerTypes
  <2>2. CASE ServerChange
    <3>1. changes' \in 0 .. MaxChanges
      <4>1. changes \in 0 .. MaxChanges /\ changes < MaxChanges /\ changes' = changes + 1
        BY <2>2 DEF ServerTypes
      <4> HIDE DEF ServerChange
      <4> QED
        BY <4>1, CapAssumption
    <3>2. \/ UNCHANGED srv
          \/ \E c \in Caps : srv' = [srv EXCEPT !.caps = @ \cup {c}]
          \/ \E c \in Caps : srv' = [srv EXCEPT !.caps = @ \ {c}, !.enabled = @ \ {c}]
          \/ \E c \in Caps : srv' = [srv EXCEPT !.enabled = @ \ {c}]
      BY <2>2 DEF ServerTypes
    <3> HIDE DEF ServerChange
    <3>3. CASE UNCHANGED srv
      BY <3>1, <3>3 DEF ServerTypes
    <3>4. ASSUME NEW c \in Caps, srv' = [srv EXCEPT !.caps = @ \cup {c}]
          PROVE  ServerTypes' /\ (srv.account => srv'.account)
      BY <3>1, <3>4 DEF ServerTypes
    <3>5. ASSUME NEW c \in Caps, srv' = [srv EXCEPT !.caps = @ \ {c}, !.enabled = @ \ {c}]
          PROVE  ServerTypes' /\ (srv.account => srv'.account)
      BY <3>1, <3>5 DEF ServerTypes
    <3>6. ASSUME NEW c \in Caps, srv' = [srv EXCEPT !.enabled = @ \ {c}]
          PROVE  ServerTypes' /\ (srv.account => srv'.account)
      BY <3>1, <3>6 DEF ServerTypes
    <3> QED
      BY <3>2, <3>3, <3>4, <3>5, <3>6
  <2> QED
    BY <2>1, <2>2
<1>3. Answered'
  <2>1. CASE \E cmd \in {"001", "ERROR"} : Reply(<<Line(cmd)>>)
    <3>1. PICK cmd \in {"001", "ERROR"} : Reply(<<Line(cmd)>>)
      BY <2>1
    <3>2. Line(cmd) \in ClientLines /\ Line(cmd).cmd # "903"
      BY DEF ClientLines, ToClient, Line
    <3> QED
      BY <1>2, <3>1, <3>2, SingleReply
  <2>2. CASE \E cmd \in {"NEW", "DEL", "ACK-"} : \E c \in Caps : Reply(<<CapLine(cmd, {c})>>)
    <3>1. PICK cmd \in {"NEW", "DEL", "ACK-"} : \E c \in Caps : Reply(<<CapLine(cmd, {c})>>)
      BY <2>2
    <3>2. PICK c \in Caps : Reply(<<CapLine(cmd, {c})>>)
      BY <3>1
    <3>3. CapLine(cmd, {c}) \in ClientLines /\ CapLine(cmd, {c}).cmd # "903"
      BY DEF ClientLines, ToClient, CapLine
    <3> QED
      BY <1>2, <3>2, <3>3, SingleReply
  <2> QED
    BY <2>1, <2>2 DEF ServerTypes
<1> QED
  BY <1>1, <1>2, <1>3, ServerStep

LEMMA NextInv == Inv /\ [Next]_vars => Inv'
<1> SUFFICES ASSUME Inv, [Next]_vars PROVE Inv'
  OBVIOUS
<1>1. CASE ClientNext
  BY <1>1, ListInv, AcknowledgeInv, ChangeInv, SaslInv, WelcomeInv DEF ClientNext
<1>2. CASE ServerNext \/ ServerChange
  BY <1>2, ServeTakenInv, ServerOwnInv DEF ServerNext
<1>3. CASE UNCHANGED vars
  BY <1>3 DEF vars, clientVars, serverVars, Inv, ConfigTypes, ClientTypes, ServerTypes, Written,
              Answered, AuthenticatedOrFailed
<1> QED
  BY <1>1, <1>2, <1>3 DEF Next

-----------------------------------------------------------------------------
\* What the invariant says of the lines, in the form that TypeOK has.
LEMMA InvTypes == Inv => TypeOK
<1> SUFFICES ASSUME Inv PROVE TypeOK
  OBVIOUS
<1> USE DEF Inv
<1> DEFINE ends == {i \in 1 .. Len(toServer) : toServer[i].cmd = "END"}
<1>1. Cardinality(ends) <= IF cap_end_sent THEN 1 ELSE 0
  <2>1. CASE ends = {}
    BY <2>1, FS_EmptySet
  <2>2. CASE ends # {}
    <3>1. PICK i \in ends : TRUE
      BY <2>2
    <3>2. ends = {i} /\ cap_end_sent
      BY <3>1 DEF Written
    <3>3. Cardinality(ends) = 1
      BY <3>2, FS_Singleton
    <3> QED
      BY <3>2, <3>3
  <2> QED
    BY <2>1, <2>2
<1>2. \A i \in 1 .. Len(toServer) : toServer[i].cmd \in ToServer /\ toServer[i].caps \subseteq Caps
  <2>1. ASSUME NEW i \in 1 .. Len(toServer) PROVE toServer[i] \in ServerLines
    BY DEF Written
  <2> QED
    BY <2>1 DEF ServerLines
<1>3. \A i \in 1 .. Len(toClient) : toClient[i].cmd \in ToClient /\ toClient[i].caps \subseteq Caps
  <2>1. ASSUME NEW i \in 1 .. Len(toClient) PROVE toClient[i] \in ClientLines
    BY DEF Answered
  <2> QED
    BY <2>1 DEF ClientLines
<1> QED
  BY <1>1, <1>2, <1>3 DEF TypeOK, ConfigTypes, ClientTypes, ServerTypes, Written

(***************************************************************************)
(* The negotiation keeps its types, and CAP END is written once at most,   *)
(* whichever of ACK, NAK, 903 and LS comes last.                           *)
(***************************************************************************)
THEOREM NegotiationTypeCorrect == Spec => []TypeOK
BY InitInv, NextInv, InvTypes, PTL DEF Spec

(***************************************************************************)
(* With SASL configured the bot goes on only on a connection the server    *)
(* has authenticated, in whatever order the server answers, refuses, adds  *)
(* and withdraws, and however often.                                       *)
(***************************************************************************)
THEOREM GoesOnAuthenticated == Spec => []AuthenticatedOrFailed
<1>1. Inv => AuthenticatedOrFailed
  BY DEF Inv
<1> QED
  BY InitInv, NextInv, <1>1, PTL DEF Spec

-----------------------------------------------------------------------------
(* What the two sides believe.  The lines on their way to the bot say what *)
(* it will take for active: the last one that is about a capability tells  *)
(* whether the server has it enabled, and if there is none the bot knows.  *)

Touches(line, c) == line.cmd \in {"ACK", "ACK-", "DEL"} /\ c \in line.caps

Settles(lines, believed, enabled, c) ==
  /\ (\A i \in 1 .. Len(lines) : ~Touches(lines[i], c)) => (c \in believed <=> c \in enabled)
  /\ \A i \in 1 .. Len(lines) :
       Touches(lines[i], c) /\ (\A j \in i + 1 .. Len(lines) : ~Touches(lines[j], c))
         => (lines[i].cmd = "ACK" <=> c \in enabled)

Told == \A c \in Caps : Settles(toClient, active, srv.enabled, c)

\* A pending capability is in a request or in an answer on its way.
Requests(lines) ==
  {c \in Caps : \E i \in 1 .. Len(lines) : lines[i].cmd = "REQ" /\ c \in lines[i].caps}
Answers(lines) ==
  {c \in Caps : \E i \in 1 .. Len(lines) : lines[i].cmd \in {"ACK", "NAK"} /\ c \in lines[i].caps}

Awaited == pending \subseteq Requests(toServer) \cup Answers(toClient)

AgreeInv == Inv /\ Told /\ Awaited

LEMMA HeadSettles ==
  ASSUME NEW lines \in Seq(ClientLines), lines # <<>>, NEW a, NEW b, NEW e, NEW c,
         Settles(lines, a, e, c),
         Touches(Head(lines), c) => (c \in b <=> Head(lines).cmd = "ACK"),
         ~Touches(Head(lines), c) => (c \in b <=> c \in a)
  PROVE  Settles(Tail(lines), b, e, c)
<1> DEFINE n == Len(lines)
<1>1. /\ n \in Nat /\ 1 \in 1 .. n /\ Head(lines) = lines[1] /\ Len(Tail(lines)) = n - 1
      /\ \A i \in 1 .. n - 1 : i + 1 \in 1 .. n /\ Tail(lines)[i] = lines[i + 1]
  OBVIOUS
<1>2. ASSUME \A i \in 1 .. n - 1 : ~Touches(Tail(lines)[i], c)
      PROVE  c \in b <=> c \in e
  <2>1. \A j \in 2 .. n : j - 1 \in 1 .. n - 1 /\ Tail(lines)[j - 1] = lines[j]
    BY <1>1
  <2>2. \A j \in 2 .. n : ~Touches(lines[j], c)
    BY <1>2, <2>1
  <2>3. CASE Touches(lines[1], c)
    BY <1>1, <2>2, <2>3 DEF Settles
  <2>4. CASE ~Touches(lines[1], c)
    <3>1. \A i \in 1 .. n : ~Touches(lines[i], c)
      BY <1>1, <2>2, <2>4
    <3> QED
      BY <1>1, <2>4, <3>1 DEF Settles
  <2> QED
    BY <2>3, <2>4
<1>3. ASSUME NEW i \in 1 .. n - 1, Touches(Tail(lines)[i], c),
             \A j \in i + 1 .. n - 1 : ~Touches(Tail(lines)[j], c)
      PROVE  Tail(lines)[i].cmd = "ACK" <=> c \in e
  <2>1. \A j \in i + 2 .. n : j - 1 \in i + 1 .. n - 1 /\ Tail(lines)[j - 1] = lines[j]
    BY <1>1
  <2>2. \A j \in (i + 1) + 1 .. n : ~Touches(lines[j], c)
    BY <1>1, <1>3, <2>1
  <2> QED
    BY <1>1, <1>3, <2>2 DEF Settles
<1> QED
  BY <1>1, <1>2, <1>3 DEF Settles

LEMMA ReplySettles ==
  ASSUME NEW lines \in Seq(ClientLines), NEW line \in ClientLines, NEW a, NEW e, NEW f, NEW c,
         Settles(lines, a, e, c),
         Touches(line, c) => (line.cmd = "ACK" <=> c \in f),
         ~Touches(line, c) => (c \in e <=> c \in f)
  PROVE  Settles(Append(lines, line), a, f, c)
<1> DEFINE n == Len(lines)
           all == Append(lines, line)
<1>1. /\ n \in Nat /\ Len(all) = n + 1 /\ all[n + 1] = line
      /\ \A i \in 1 .. n : all[i] = lines[i]
  OBVIOUS
<1> HIDE DEF all, n
<1>2. ASSUME \A i \in 1 .. n + 1 : ~Touches(all[i], c)
      PROVE  c \in a <=> c \in f
  <2>1. \A i \in 1 .. n : ~Touches(lines[i], c)
    BY <1>1, <1>2
  <2>2. ~Touches(line, c)
    BY <1>1, <1>2
  <2> QED
    BY <2>1, <2>2 DEF Settles, n
<1>3. ASSUME NEW i \in 1 .. n + 1, Touches(all[i], c),
             \A j \in i + 1 .. n + 1 : ~Touches(all[j], c)
      PROVE  all[i].cmd = "ACK" <=> c \in f
  <2>1. CASE i = n + 1
    BY <1>1, <1>3, <2>1
  <2>2. CASE i \in 1 .. n
    <3>1. ~Touches(line, c)
      BY <1>1, <1>3, <2>2
    <3>2. \A j \in i + 1 .. n : ~Touches(lines[j], c)
      BY <1>1, <1>3, <2>2
    <3>3. Touches(lines[i], c)
      BY <1>1, <1>3, <2>2
    <3> QED
      BY <1>1, <2>2, <3>1, <3>2, <3>3 DEF Settles, n
  <2> QED
    BY <1>1, <2>1, <2>2
<1> QED
  BY <1>1, <1>2, <1>3 DEF Settles, all

LEMMA RequestsAdd ==
  ASSUME NEW lines \in Seq(ServerLines), NEW more \in Seq(ServerLines)
  PROVE  Requests(lines) \cup Requests(more) \subseteq Requests(lines \o more)
<1>1. Len(lines) \in Nat /\ Len(more) \in Nat /\ Len(lines \o more) = Len(lines) + Len(more)
  OBVIOUS
<1>2. ASSUME NEW i \in 1 .. Len(lines)
      PROVE  i \in 1 .. Len(lines \o more) /\ (lines \o more)[i] = lines[i]
  OBVIOUS
<1>3. ASSUME NEW i \in 1 .. Len(more)
      PROVE  /\ i + Len(lines) \in 1 .. Len(lines \o more)
             /\ (lines \o more)[i + Len(lines)] = more[i]
  OBVIOUS
<1> QED
  BY <1>2, <1>3 DEF Requests

LEMMA AnswersAdd ==
  ASSUME NEW lines \in Seq(ClientLines), NEW line \in ClientLines
  PROVE  /\ Answers(lines) \subseteq Answers(Append(lines, line))
         /\ line.cmd \in {"ACK", "NAK"} => line.caps \subseteq Answers(Append(lines, line))
<1>1. /\ Len(lines) \in Nat /\ Len(Append(lines, line)) = Len(lines) + 1
      /\ \A i \in 1 .. Len(lines) : Append(lines, line)[i] = lines[i]
      /\ Append(lines, line)[Len(lines) + 1] = line
  OBVIOUS
<1>2. /\ Len(lines) + 1 \in 1 .. Len(Append(lines, line))
      /\ \A i \in 1 .. Len(lines) : i \in 1 .. Len(Append(lines, line))
  BY <1>1
<1>3. line.caps \subseteq Caps
  BY DEF ClientLines
<1> QED
  BY <1>1, <1>2, <1>3 DEF Answers

LEMMA TailLoses ==
  ASSUME NEW S, NEW lines \in Seq(S), lines # <<>>
  PROVE  /\ Requests(lines) \subseteq Requests(Tail(lines))
             \cup (IF Head(lines).cmd = "REQ" THEN Head(lines).caps ELSE {})
         /\ Answers(lines) \subseteq Answers(Tail(lines))
             \cup (IF Head(lines).cmd \in {"ACK", "NAK"} THEN Head(lines).caps ELSE {})
<1>1. /\ Len(lines) \in Nat /\ Head(lines) = lines[1]
      /\ Len(Tail(lines)) = Len(lines) - 1
  OBVIOUS
<1>2. \A i \in 1 .. Len(lines) : i = 1 \/ (i - 1 \in 1 .. Len(Tail(lines)) /\ Tail(lines)[i - 1] = lines[i])
  OBVIOUS
<1> QED
  BY <1>1, <1>2 DEF Requests, Answers

\* Every capability that is asked for is in one of the lines.
LEMMA AllRequested ==
  ASSUME NEW caps \in SUBSET Caps, NEW lines \in cap_req_lines(caps)
  PROVE  caps \subseteq Requests(lines)
<1>1. CASE lines = <<CapLine("REQ", caps)>>
  <2>1. Len(lines) = 1 /\ lines[1].cmd = "REQ" /\ lines[1].caps = caps
    BY <1>1 DEF CapLine
  <2>2. 1 \in 1 .. Len(lines)
    BY <2>1
  <2> QED
    BY <2>1, <2>2 DEF Requests
<1>2. CASE \E s \in SetToSeqs(caps) : lines = [i \in DOMAIN s |-> CapLine("REQ", {s[i]})]
  <2> DEFINE n == Cardinality(caps)
  <2>1. PICK s \in SetToSeqs(caps) : lines = [i \in DOMAIN s |-> CapLine("REQ", {s[i]})]
    BY <1>2
  <2>2. IsFiniteSet(caps) /\ n \in Nat
    BY CapsFinite, FS_Subset, FS_CardinalityType
  <2>3. s \in [1 .. n -> caps] /\ \A i, j \in 1 .. n : i # j => s[i] # s[j]
    BY <2>1 DEF SetToSeqs
  <2> HIDE DEF n
  <2>4. DOMAIN lines = 1 .. n /\ \A i \in 1 .. n : lines[i].cmd = "REQ" /\ lines[i].caps = {s[i]}
    BY <2>1, <2>3 DEF CapLine
  <2>5. Len(lines) = n
    <3>1. lines \in Seq(PlainLines)
      BY RequestLines
    <3> QED
      BY <2>2, <2>4, <3>1
  <2>6. \A c \in caps : \E i \in 1 .. n : s[i] = c
    <3> DEFINE T == {s[i] : i \in 1 .. n}
    <3>1. T \subseteq caps /\ IsFiniteSet(1 .. n) /\ Cardinality(1 .. n) = n
      BY <2>2, <2>3, FS_Interval
    <3>2. s \in Surjection(1 .. n, T) /\ s \in Injection(1 .. n, T)
      BY <2>3 DEF Surjection, Injection, IsInjective
    <3>3. IsFiniteSet(T) /\ Cardinality(T) = n
      BY <3>1, <3>2, FS_Surjection
    <3>4. T = caps
      BY <2>2, <3>1, <3>3, FS_Subset DEF n
    <3> QED
      BY <3>4
  <2> QED
    BY <2>4, <2>5, <2>6 DEF Requests
<1> QED
  BY <1>1, <1>2 DEF cap_req_lines

\* What is written leaves the requests on their way.
LEMMA SendKeeps ==
  ASSUME Written, NEW lines \in Seq(ServerLines), Send(lines)
  PROVE  Requests(toServer) \cup Requests(lines) \subseteq Requests(toServer')
BY RequestsAdd DEF Written, Send

LEMMA EndKeeps ==
  ASSUME Written, NEW lines \in Seq(PlainLines), _end_cap_negotiation(lines)
  PROVE  Requests(toServer) \subseteq Requests(toServer')
<1> DEFINE all == lines \o IF cap_end_sent THEN <<>> ELSE <<Line("END")>>
<1>1. Line("END") \in ServerLines
  BY DEF Line, ServerLines, ToServer
<1>2. all \in Seq(ServerLines)
  BY <1>1, PlainAreLines
<1>3. Send(all)
  BY DEF _end_cap_negotiation
<1> HIDE DEF all
<1> QED
  BY <1>2, <1>3, SendKeeps

LEMMA MaybeEndKeeps ==
  ASSUME Written, NEW left, NEW busy, NEW done, _maybe_end_cap_negotiation(left, busy, done)
  PROVE  Requests(toServer) \subseteq Requests(toServer')
<1>1. <<>> \in Seq(PlainLines)
  OBVIOUS
<1> QED
  BY <1>1, EndKeeps DEF _maybe_end_cap_negotiation

LEMMA RequestKeeps ==
  ASSUME Written, NEW optional \in SUBSET Caps, Request(optional)
  PROVE  /\ Requests(toServer) \subseteq Requests(toServer')
         /\ pending' \subseteq pending \cup Requests(toServer')
<1> DEFINE sasl == IF config.sasl THEN {"sasl"} ELSE {}
           first == IF config.sasl THEN <<CapLine("REQ", sasl)>> ELSE <<>>
<1>1. first \in Seq(ServerLines) /\ sasl \subseteq Requests(first)
  <2>1. CASE config.sasl
    <3>1. CapLine("REQ", sasl) \in ServerLines /\ CapLine("REQ", sasl).cmd = "REQ"
          /\ CapLine("REQ", sasl).caps = sasl /\ sasl \subseteq Caps
      BY <2>1 DEF ServerLines, ToServer, CapLine, Caps
    <3>2. Len(first) = 1 /\ first[1] = CapLine("REQ", sasl) /\ 1 \in 1 .. 1
      BY <2>1
    <3> QED
      BY <2>1, <3>1, <3>2 DEF Requests
  <2>2. CASE ~config.sasl
    BY <2>2
  <2> QED
    BY <2>1, <2>2
<1>2. CASE \E rest \in cap_req_lines(optional) : Send(first \o rest)
  <2>1. PICK rest \in cap_req_lines(optional) : Send(first \o rest)
    BY <1>2
  <2>2. rest \in Seq(ServerLines) /\ optional \subseteq Requests(rest)
    BY RequestLines, PlainAreLines, AllRequested
  <2>3. first \o rest \in Seq(ServerLines)
    BY <1>1, <2>2
  <2>4. /\ Requests(toServer) \cup Requests(first \o rest) \subseteq Requests(toServer')
        /\ Requests(first) \cup Requests(rest) \subseteq Requests(first \o rest)
    BY <1>1, <2>1, <2>2, <2>3, SendKeeps, RequestsAdd
  <2> QED
    BY <1>1, <2>2, <2>4 DEF Request
<1>3. CASE optional = {} /\ Send(first)
  BY <1>1, <1>3, SendKeeps DEF Request
<1>4. CASE optional = {} /\ first = <<>> /\ _end_cap_negotiation(<<>>)
  <2>1. <<>> \in Seq(PlainLines) /\ sasl = {}
    BY <1>4
  <2> QED
    BY <1>4, <2>1, EndKeeps DEF Request
<1> QED
  BY <1>2, <1>3, <1>4 DEF Request

\* A line is read, and what it tells is taken over.
LEMMA ReadAgree ==
  ASSUME AgreeInv, NEW cmd, Read(cmd), UNCHANGED srv,
         active' = IF cmd = "ACK" THEN active \cup Named
                   ELSE IF cmd \in {"ACK-", "DEL"} THEN active \ Named ELSE active,
         pending' \subseteq
           (IF cmd \in {"ACK", "NAK"} THEN pending \ Named ELSE pending) \cup Requests(toServer'),
         Requests(toServer) \subseteq Requests(toServer')
  PROVE  Told' /\ Awaited'
<1> USE DEF AgreeInv, Inv
<1>1. /\ toClient \in Seq(ClientLines) /\ toClient # <<>> /\ toClient' = Tail(toClient)
      /\ Head(toClient).cmd = cmd /\ Named = Head(toClient).caps
  BY DEF Answered, Read, Named
<1>2. Told'
  <2>1. ASSUME NEW c \in Caps PROVE Settles(Tail(toClient), active', srv.enabled, c)
    <3>1. Settles(toClient, active, srv.enabled, c)
      BY DEF Told
    <3>2. Touches(Head(toClient), c) => (c \in active' <=> Head(toClient).cmd = "ACK")
      BY <1>1 DEF Touches
    <3>3. ~Touches(Head(toClient), c) => (c \in active' <=> c \in active)
      BY <1>1 DEF Touches
    <3> QED
      BY <1>1, <3>1, <3>2, <3>3, HeadSettles
  <2> QED
    BY <1>1, <2>1 DEF Told
<1>3. Awaited'
  BY <1>1, TailLoses DEF Awaited
<1> QED
  BY <1>2, <1>3

LEMMA ClientAgree == ASSUME AgreeInv, ClientNext PROVE Told' /\ Awaited'
<1> USE DEF serverVars
<1>0. Written /\ <<>> \in Seq(PlainLines) /\ <<Line("MECHANISM")>> \in Seq(ServerLines)
      /\ <<Line("ABORT")>> \in Seq(PlainLines) /\ <<Line("ABORT")>> \in Seq(ServerLines)
      /\ <<Line("DATA")>> \in Seq(ServerLines)
  BY DEF AgreeInv, Inv, PlainLines, ServerLines, ToServer, Line
<1>1. CASE ListMore \/ Welcome \/ Refused
  BY <1>1, ReadAgree DEF ListMore, Welcome, Refused
<1>2. CASE ListLast
  <2>1. CASE _end_cap_negotiation(<<>>) /\ UNCHANGED pending
    BY <1>0, <1>2, <2>1, EndKeeps, ReadAgree DEF ListLast
  <2>2. CASE Request(IF config.ircv3 THEN Requested \cap offered' ELSE {})
    <3>1. (IF config.ircv3 THEN Requested \cap offered' ELSE {}) \in SUBSET Caps
      BY DEF Caps
    <3>2. /\ Requests(toServer) \subseteq Requests(toServer')
          /\ pending' \subseteq pending \cup Requests(toServer')
      BY <1>0, <2>2, <3>1, RequestKeeps
    <3> QED
      BY <1>2, <3>2, ReadAgree DEF ListLast
  <2> QED
    BY <1>2, <2>1, <2>2 DEF ListLast
<1>3. CASE Acknowledge
  <2>1. Requests(toServer) \subseteq Requests(toServer')
    BY <1>0, <1>3, SendKeeps, MaybeEndKeeps DEF Acknowledge
  <2> QED
    BY <1>3, <2>1, ReadAgree DEF Acknowledge
<1>4. CASE AcknowledgeOff
  <2>1. Requests(toServer) \subseteq Requests(toServer')
    BY <1>0, <1>4, EndKeeps, MaybeEndKeeps DEF AcknowledgeOff
  <2> QED
    BY <1>4, <2>1, ReadAgree DEF AcknowledgeOff
<1>5. CASE Reject
  <2>1. Requests(toServer) \subseteq Requests(toServer')
    BY <1>0, <1>5, EndKeeps, MaybeEndKeeps DEF Reject
  <2> QED
    BY <1>5, <2>1, ReadAgree DEF Reject
<1>6. CASE New
  <2> DEFINE wanted == (Requested \cap offered') \ (active \cup pending)
  <2>1. CASE UNCHANGED toServer /\ wanted = {}
    BY <1>6, <2>1, ReadAgree DEF New
  <2>2. CASE \E lines \in cap_req_lines(wanted) : Send(lines)
    <3>1. PICK lines \in cap_req_lines(wanted) : Send(lines)
      BY <2>2
    <3>2. lines \in Seq(ServerLines) /\ wanted \subseteq Requests(lines)
      <4>1. wanted \in SUBSET Caps
        BY DEF Caps
      <4> HIDE DEF wanted
      <4> QED
        BY <4>1, RequestLines, PlainAreLines, AllRequested
    <3>3. Requests(toServer) \cup wanted \subseteq Requests(toServer')
      BY <1>0, <3>1, <3>2, SendKeeps
    <3> QED
      BY <1>6, <3>3, ReadAgree DEF New
  <2> QED
    BY <1>6, <2>1, <2>2 DEF New
<1>7. CASE Delete
  BY <1>7, ReadAgree DEF Delete
<1>8. CASE Authenticate
  <2>1. Requests(toServer) \subseteq Requests(toServer')
    BY <1>0, <1>8, SendKeeps DEF Authenticate
  <2> QED
    BY <1>8, <2>1, ReadAgree DEF Authenticate, clientVars
<1>9. CASE AuthenticateUnsupported \/ SaslDone \/ SaslFailed
  <2>1. Requests(toServer) \subseteq Requests(toServer')
    BY <1>0, <1>9, EndKeeps, MaybeEndKeeps DEF AuthenticateUnsupported, SaslDone, SaslFailed
  <2> QED
    BY <1>9, <2>1, ReadAgree DEF AuthenticateUnsupported, SaslDone, SaslFailed
<1> QED
  BY <1>1, <1>2, <1>3, <1>4, <1>5, <1>6, <1>7, <1>8, <1>9 DEF ClientNext

\* The server tells of what it enables and disables in its own order.
LEMMA ReplyAgree ==
  ASSUME AgreeInv, NEW line \in ClientLines, Reply(<<line>>), UNCHANGED <<active, pending>>,
         \A c \in Caps :
           /\ Touches(line, c) => (line.cmd = "ACK" <=> c \in srv'.enabled)
           /\ ~Touches(line, c) => (c \in srv.enabled <=> c \in srv'.enabled),
         Requests(toServer) \subseteq Requests(toServer')
           \cup (IF line.cmd \in {"ACK", "NAK"} THEN line.caps ELSE {})
  PROVE  Told' /\ Awaited'
<1>1. toClient \in Seq(ClientLines)
  BY DEF AgreeInv, Inv, Answered
<1>2. toClient' = Append(toClient, line)
  BY <1>1 DEF Reply
<1>3. Told'
  BY <1>1, <1>2, ReplySettles DEF AgreeInv, Told
<1>4. Awaited'
  BY <1>1, <1>2, AnswersAdd DEF AgreeInv, Awaited
<1> QED
  BY <1>3, <1>4

LEMMA ServerAgree == ASSUME AgreeInv, ServerNext \/ ServerChange PROVE Told' /\ Awaited'
<1> USE DEF clientVars, serverVars
<1>0. srv \in [support : {"cap", "unknown", "silent"}, mechanisms : SUBSET Mechanisms,
               caps : SUBSET Caps, enabled : SUBSET Caps,
               suspended : BOOLEAN, user : BOOLEAN, account : BOOLEAN, welcomed : BOOLEAN]
      /\ toServer \in Seq(ServerLines) /\ toClient \in Seq(ClientLines)
  BY DEF AgreeInv, Inv, ServerTypes, Written, Answered
<1>1. ASSUME NEW cmd \in ToServer \ {"REQ"}, Take(cmd)
      PROVE  Requests(toServer) \subseteq Requests(toServer')
  BY <1>0, <1>1, TailLoses DEF Take
<1>2. ASSUME UNCHANGED <<toClient, active, pending>>, srv'.enabled = srv.enabled,
             Requests(toServer) \subseteq Requests(toServer')
      PROVE  Told' /\ Awaited'
  BY <1>2 DEF AgreeInv, Told, Awaited
<1>3. ASSUME NEW cmd \in ToClient \ {"ACK", "ACK-", "DEL"}, NEW caps \in SUBSET Caps,
             Reply(<<CapLine(cmd, caps)>>), UNCHANGED <<active, pending>>,
             srv'.enabled = srv.enabled, Requests(toServer) \subseteq Requests(toServer')
      PROVE  Told' /\ Awaited'
  <2>1. CapLine(cmd, caps) \in ClientLines /\ \A c \in Caps : ~Touches(CapLine(cmd, caps), c)
    BY DEF CapLine, ClientLines, Touches
  <2> QED
    BY <1>3, <2>1, ReplyAgree
<1>4. ASSUME NEW cmd \in ToClient \ {"ACK", "ACK-", "DEL"}, Reply(<<Line(cmd)>>),
             UNCHANGED <<active, pending>>, srv'.enabled = srv.enabled,
             Requests(toServer) \subseteq Requests(toServer')
      PROVE  Told' /\ Awaited'
  <2>1. Line(cmd) = CapLine(cmd, {}) /\ {} \in SUBSET Caps
    BY DEF Line, CapLine
  <2> QED
    BY <1>3, <1>4, <2>1
<1>5. CASE ServeList
  <2>1. /\ Requests(toServer) \subseteq Requests(toServer')
        /\ UNCHANGED <<active, pending>> /\ srv'.enabled = srv.enabled
    BY <1>0, <1>1, <1>5 DEF ServeList, Take, ToServer
  <2>2. CASE Reply(<<CapLine("LS", srv.caps)>>)
    BY <1>0, <1>3, <2>1, <2>2 DEF ToClient
  <2>3. ASSUME NEW part \in SUBSET srv.caps,
               Reply(<<CapLine("LS*", part), CapLine("LS", srv.caps \ part)>>)
        PROVE  Told' /\ Awaited'
    <3> DEFINE a == CapLine("LS*", part)
               b == CapLine("LS", srv.caps \ part)
    <3>1. /\ a \in ClientLines /\ b \in ClientLines
          /\ \A c \in Caps : ~Touches(a, c) /\ ~Touches(b, c)
      BY <1>0 DEF CapLine, ClientLines, ToClient, Touches
    <3> HIDE DEF a, b
    <3>2. toClient' = Append(Append(toClient, a), b) /\ Append(toClient, a) \in Seq(ClientLines)
      BY <1>0, <2>3, <3>1 DEF Reply, a, b
    <3>3. Told'
      <4>1. ASSUME NEW c \in Caps PROVE Settles(toClient', active, srv.enabled, c)
        <5>1. Settles(Append(toClient, a), active, srv.enabled, c)
          BY <1>0, <3>1, ReplySettles DEF AgreeInv, Told
        <5> QED
          BY <3>1, <3>2, <5>1, ReplySettles
      <4> QED
        BY <2>1, <4>1 DEF Told
    <3>4. Awaited'
      <4>1. Answers(toClient) \subseteq Answers(Append(toClient, a))
            /\ Answers(Append(toClient, a)) \subseteq Answers(toClient')
        BY <1>0, <3>1, <3>2, AnswersAdd
      <4> QED
        BY <2>1, <4>1 DEF AgreeInv, Awaited
    <3> QED
      BY <3>3, <3>4
  <2>4. CASE Reply(<<Line("421")>>)
    BY <1>4, <2>1, <2>4 DEF ToClient
  <2>5. CASE UNCHANGED toClient
    BY <1>2, <2>1, <2>5
  <2> QED
    BY <1>5, <2>2, <2>3, <2>4, <2>5 DEF ServeList
<1>6. CASE ServeRequest
  <2> DEFINE caps == Head(toServer).caps
  <2>1. caps \subseteq Caps
    <3>1. Head(toServer) \in ServerLines
      BY <1>0, <1>6 DEF ServeRequest, Take
    <3> QED
      BY <3>1 DEF ServerLines
  <2>2. /\ Requests(toServer) \subseteq Requests(toServer') \cup caps
        /\ UNCHANGED <<active, pending>>
    BY <1>0, <1>6, TailLoses DEF ServeRequest, Take
  <2>3. CASE srv' = [srv EXCEPT !.enabled = @ \cup caps] /\ Reply(<<CapLine("ACK", caps)>>)
    <3> DEFINE line == CapLine("ACK", caps)
    <3>1. line \in ClientLines /\ line.cmd = "ACK" /\ line.caps = caps
      BY <2>1 DEF CapLine, ClientLines, ToClient
    <3>2. srv'.enabled = srv.enabled \cup caps
      BY <1>0, <2>3
    <3>3. \A c \in Caps : Touches(line, c) <=> c \in caps
      BY <3>1 DEF Touches
    <3> HIDE DEF line
    <3> QED
      BY <2>2, <2>3, <3>1, <3>2, <3>3, ReplyAgree DEF line
  <2>4. CASE UNCHANGED srv /\ Reply(<<CapLine("NAK", caps)>>)
    <3> DEFINE line == CapLine("NAK", caps)
    <3>1. line \in ClientLines /\ line.cmd = "NAK" /\ line.caps = caps
      BY <2>1 DEF CapLine, ClientLines, ToClient
    <3>2. \A c \in Caps : ~Touches(line, c)
      BY <3>1 DEF Touches
    <3> HIDE DEF line
    <3> QED
      BY <2>2, <2>4, <3>1, <3>2, ReplyAgree DEF line
  <2> QED
    BY <1>6, <2>3, <2>4 DEF ServeRequest
<1>7. CASE ServeEnd \/ ServeUser \/ ServeMechanism \/ ServeData \/ ServeAbort
  <2>1. /\ Requests(toServer) \subseteq Requests(toServer')
        /\ UNCHANGED <<active, pending>> /\ srv'.enabled = srv.enabled
    <3>1. \E cmd \in ToServer \ {"REQ"} : Take(cmd)
      BY <1>7 DEF ServeEnd, ServeUser, ServeMechanism, ServeData, ServeAbort, ToServer
    <3>2. srv'.enabled = srv.enabled
      BY <1>0, <1>7 DEF ServeEnd, ServeUser, ServeMechanism, ServeData, ServeAbort
    <3> QED
      BY <1>1, <3>1, <3>2 DEF Take
  <2>2. \/ UNCHANGED toClient
        \/ \E cmd \in ToClient \ {"ACK", "ACK-", "DEL"} : Reply(<<Line(cmd)>>)
    BY <1>7 DEF ServeEnd, ServeUser, ServeMechanism, ServeData, ServeAbort, ToClient
  <2> QED
    BY <1>2, <1>4, <2>1, <2>2
<1>8. CASE ServeWelcome
  <2>1. srv'.enabled = srv.enabled /\ UNCHANGED <<active, pending, toServer>>
        /\ Reply(<<Line("001")>>)
    BY <1>0, <1>8 DEF ServeWelcome
  <2> QED
    BY <1>4, <2>1 DEF ToClient
<1>9. CASE ServerChange
  <2>1. UNCHANGED <<active, pending, toServer>>
    BY <1>9 DEF ServerChange
  <2>2. ASSUME NEW c \in Caps, srv' = [srv EXCEPT !.caps = @ \cup {c}],
               Reply(<<CapLine("NEW", {c})>>)
        PROVE  Told' /\ Awaited'
    <3>1. srv'.enabled = srv.enabled /\ {c} \in SUBSET Caps
      BY <1>0, <2>2
    <3> QED
      BY <1>3, <2>1, <2>2, <3>1 DEF ToClient
  <2>3. ASSUME NEW c \in Caps, NEW cmd \in {"DEL", "ACK-"}, srv'.enabled = srv.enabled \ {c},
               Reply(<<CapLine(cmd, {c})>>)
        PROVE  Told' /\ Awaited'
    <3> DEFINE line == CapLine(cmd, {c})
    <3>1. line \in ClientLines /\ line.cmd = cmd /\ \A d \in Caps : Touches(line, d) <=> d = c
      BY DEF CapLine, ClientLines, ToClient, Touches
    <3> HIDE DEF line
    <3> QED
      BY <2>1, <2>3, <3>1, ReplyAgree DEF line
  <2>4. CASE Reply(<<Line("ERROR")>>) /\ UNCHANGED srv
    BY <1>4, <2>1, <2>4 DEF ToClient
  <2>5. \/ \E c \in Caps : srv' = [srv EXCEPT !.caps = @ \cup {c}] /\ Reply(<<CapLine("NEW", {c})>>)
        \/ \E c \in Caps : \E cmd \in {"DEL", "ACK-"} :
              srv'.enabled = srv.enabled \ {c} /\ Reply(<<CapLine(cmd, {c})>>)
        \/ Reply(<<Line("ERROR")>>) /\ UNCHANGED srv
    BY <1>0, <1>9 DEF ServerChange
  <2> QED
    BY <2>2, <2>3, <2>4, <2>5
<1> QED
  BY <1>5, <1>6, <1>7, <1>8, <1>9 DEF ServerNext

LEMMA InitAgree == Init => AgreeInv
<1> SUFFICES ASSUME Init PROVE Told /\ Awaited
  BY InitInv DEF AgreeInv
<1>1. toClient = <<>> /\ active = {} /\ srv.enabled = {} /\ pending = {}
  BY DEF Init
<1> QED
  BY <1>1 DEF Told, Awaited, Settles

LEMMA AgreeGivesCapabilities == AgreeInv => CapabilitiesAgree
<1> SUFFICES ASSUME AgreeInv, toClient = <<>>
             PROVE  active = srv.enabled /\ (toServer = <<>> => pending = {})
  BY DEF CapabilitiesAgree
<1>1. active \subseteq Caps /\ srv.enabled \subseteq Caps
  BY DEF AgreeInv, Inv, ClientTypes, ServerTypes
<1>2. \A c \in Caps : c \in active <=> c \in srv.enabled
  BY DEF AgreeInv, Told, Settles
<1>3. toServer = <<>> => pending = {}
  BY DEF AgreeInv, Awaited, Requests, Answers
<1> QED
  BY <1>1, <1>2, <1>3

(***************************************************************************)
(* However ACK, NAK, NEW and DEL are ordered and however often the server  *)
(* changes its mind: once it has nothing more to tell, both sides agree on *)
(* what is enabled, and once the bot has nothing to answer either, it      *)
(* waits for nothing (CapabilityState, _handle_cap()).                     *)
(***************************************************************************)
THEOREM BothSidesAgree == Spec => []CapabilitiesAgree
<1>1. AgreeInv /\ [Next]_vars => AgreeInv'
  <2> SUFFICES ASSUME AgreeInv, [Next]_vars PROVE Told' /\ Awaited'
    BY NextInv DEF AgreeInv
  <2>1. CASE UNCHANGED vars
    BY <2>1 DEF vars, clientVars, serverVars, AgreeInv, Told, Awaited
  <2> QED
    BY <2>1, ClientAgree, ServerAgree DEF Next
<1> QED
  BY InitAgree, <1>1, AgreeGivesCapabilities, PTL DEF Spec
=============================================================================
