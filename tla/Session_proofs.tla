---------------------------- MODULE Session_proofs ----------------------------
(***************************************************************************)
(* The handshake, for any number of messages and flushes: the console      *)
(* hears one handshake and one startup, in this order, and of the gamepad  *)
(* after both.  The stage tells exactly what the message channel has been  *)
(* sent, because the startup goes out with the change of stage that ends   *)
(* the waiting for it.                                                     *)
(*                                                                         *)
(* The worker thread and the application, for any candidates and channels  *)
(* of any capacity: a candidate is in one place of its way.  A set is      *)
(* handed on as a whole, so the places stay disjoint.                      *)
(***************************************************************************)
EXTENDS MCSession, SequenceTheorems, FiniteSetTheorems, TLAPS

\* What has been said on the message channel at each stage.
SaidAt(s) == CASE s = "WaitingForChannels" -> <<>>
               [] s = "WaitingForHandshakeAck" -> <<"Handshake">>
               [] s = "Ready" -> <<"Handshake", Startup>>

StageOK == stage \in {"WaitingForChannels", "WaitingForHandshakeAck", "Ready"}
MessageFollowsStage == message = SaidAt(stage)
Words == {"authorization", "gamepad", "preference", "keyframe", "dimensions"}
ControlOK == control \in Seq(Words) /\ (Contains(control, "gamepad") => stage = "Ready")

ShakeInv == StageOK /\ MessageFollowsStage /\ ControlOK

-----------------------------------------------------------------------------
\* A handshake and then a startup are two messages.
LEMMA TwoWords == Append(<<"Handshake">>, Startup) = <<"Handshake", Startup>>
<1> DEFINE said == {"Handshake", Startup}
<1>1. /\ <<"Handshake">> \in Seq(said) /\ Startup \in said
      /\ Len(<<"Handshake">>) = 1 /\ <<"Handshake">>[1] = "Handshake"
  OBVIOUS
<1>2. /\ <<"Handshake", Startup>> \in Seq(said) /\ Len(<<"Handshake", Startup>>) = 2
      /\ <<"Handshake", Startup>>[1] = "Handshake" /\ <<"Handshake", Startup>>[2] = Startup
  OBVIOUS
<1>3. ASSUME NEW S, NEW first \in Seq(S), NEW e \in S, NEW both \in Seq(S),
             Len(first) = 1, Len(both) = 2, both[1] = first[1], both[2] = e
      PROVE  Append(first, e) = both
  <2>1. Append(first, e) \in Seq(S) /\ Len(Append(first, e)) = 2
    <3>1. Append(first, e) \in Seq(S) /\ Len(Append(first, e)) = Len(first) + 1
      BY AppendProperties, Zenon
    <3> QED BY <1>3, <3>1
  <2>2. Append(first, e)[1] = both[1] /\ Append(first, e)[2] = both[2]
    BY <1>3
  <2>3. \A i \in 1 .. 2 : Append(first, e)[i] = both[i]
    <3>1. \A i \in 1 .. 2 : i = 1 \/ i = 2
      OBVIOUS
    <3> QED BY <2>2, <3>1, Zenon
  <2> QED BY <1>3, <2>1, <2>3, SeqEqual
<1> HIDE DEF said
<1> QED BY <1>1, <1>2, <1>3

\* Only the words of the startup name the gamepad.
LEMMA SayKeepsControl ==
  ASSUME ControlOK, NEW word \in Words, word # "gamepad", NEW goes \in BOOLEAN,
         control' = Say(control, <<word>>, goes), stage' = stage
  PROVE  ControlOK'
<1>1. CASE ~goes
  BY <1>1 DEF ControlOK, Say, Contains
<1>2. CASE goes
  <2>1. control' = control \o <<word>>
    BY <1>2 DEF Say
  <2>2. control' \in Seq(Words) /\ Len(control') = Len(control) + 1
    BY <2>1 DEF ControlOK
  <2>3. ASSUME NEW i \in 1 .. Len(control'), control'[i] = "gamepad"
        PROVE  \E j \in 1 .. Len(control) : control[j] = "gamepad"
    BY <2>1, <2>2, <2>3 DEF ControlOK
  <2> QED BY <2>2, <2>3 DEF ControlOK, Contains
<1> QED BY <1>1, <1>2

LEMMA InitShake == Init => ShakeInv
BY DEF Init, ShakeInv, StageOK, MessageFollowsStage, SaidAt, ControlOK, Contains

LEMMA StepShake == ShakeInv /\ [Next]_vars => ShakeInv'
<1> SUFFICES ASSUME ShakeInv, [Next]_vars PROVE ShakeInv'
  OBVIOUS
<1> USE DEF ShakeInv, StageOK, MessageFollowsStage
<1>1. CASE ChannelOpens
  <2>1. ControlOK'
    BY <1>1 DEF ChannelOpens, ControlOK, Contains
  <2> QED BY <1>1, <2>1 DEF ChannelOpens, SaidAt
<1>2. CASE TextArrives
  <2>1. PICK kind \in {"HandshakeAck", "other"} :
          IF Awaits(kind)
          THEN \E goes \in Goes("control") :
                 /\ stage' = "Ready"
                 /\ message' = Append(message, Startup)
                 /\ control' = Say(control, <<"authorization", "gamepad", "preference">>, goes)
          ELSE UNCHANGED <<stage, message, control>>
    BY <1>2 DEF TextArrives
  <2>2. CASE Awaits(kind)
    <3>1. stage = "WaitingForHandshakeAck" /\ stage' = "Ready" /\ message' = Append(message, Startup)
      BY <2>1, <2>2 DEF Awaits
    <3>2. PICK goes \in Goes("control") :
            control' = Say(control, <<"authorization", "gamepad", "preference">>, goes)
      BY <2>1, <2>2
    <3>3. goes \in BOOLEAN
      BY DEF Goes
    <3>4. control \in Seq(Words)
      BY DEF ControlOK
    <3>5. control' \in Seq(Words)
      <4> DEFINE three == <<"authorization", "gamepad", "preference">>
      <4>1. three \in Seq(Words)
        BY DEF Words
      <4>2. control' = control \/ control' = control \o three
        BY <3>2, <3>3 DEF Say
      <4> HIDE DEF three
      <4> QED BY <3>4, <4>1, <4>2, ConcatProperties
    <3>6. message = <<"Handshake">>
      BY <3>1 DEF SaidAt
    <3>7. message' = <<"Handshake", Startup>>
      BY <3>1, <3>6, TwoWords
    <3>8. MessageFollowsStage'
      BY <3>1, <3>7 DEF SaidAt
    <3> QED BY <3>1, <3>5, <3>8 DEF ControlOK
  <2>3. CASE ~Awaits(kind)
    BY <2>1, <2>3 DEF ControlOK, Contains
  <2> QED BY <2>2, <2>3
<1>3. CASE MetadataArrives
  BY <1>3 DEF MetadataArrives, ControlOK, Contains
<1>4. CASE NotifyKeyframeRequested
  <2>1. PICK goes \in Goes("control") : control' = Say(control, <<"keyframe">>, goes)
    BY <1>4 DEF NotifyKeyframeRequested
  <2>2. goes \in BOOLEAN /\ stage' = stage /\ message' = message
    BY <1>4 DEF NotifyKeyframeRequested, Goes
  <2>3. "keyframe" \in Words /\ "keyframe" # "gamepad" /\ ControlOK
    BY DEF Words
  <2>4. ControlOK'
    BY <2>1, <2>2, <2>3, SayKeepsControl
  <2> QED BY <2>2, <2>4 DEF SaidAt
<1>5. CASE NotifyStreamFlush
  <2>1. PICK goes \in Goes("control") : control' = Say(control, <<"dimensions">>, goes)
    BY <1>5 DEF NotifyStreamFlush
  <2>2. goes \in BOOLEAN /\ stage' = stage /\ message' = message
    BY <1>5 DEF NotifyStreamFlush, Goes
  <2>3. "dimensions" \in Words /\ "dimensions" # "gamepad" /\ ControlOK
    BY DEF Words
  <2>4. ControlOK'
    BY <2>1, <2>2, <2>3, SayKeepsControl
  <2> QED BY <2>2, <2>4 DEF SaidAt
<1>6. CASE UNCHANGED vars
  BY <1>6 DEF vars, ControlOK, Contains
<1> QED BY <1>1, <1>2, <1>3, <1>4, <1>5, <1>6 DEF Next

LEMMA ShakeInvImplies == ShakeInv => ShakesOnce
<1> SUFFICES ASSUME ShakeInv PROVE ShakesOnce
  OBVIOUS
<1>1. IsPrefix(message, <<"Handshake", Startup>>)
  BY DEF ShakeInv, StageOK, MessageFollowsStage, SaidAt, IsPrefix
<1>2. stage = "Ready" <=> Contains(message, Startup)
  BY DEF ShakeInv, StageOK, MessageFollowsStage, SaidAt, Contains, Startup
<1> QED BY <1>1, <1>2 DEF ShakesOnce, ShakeInv, ControlOK

\* However often the console acknowledges, and whenever its channels open, it is
\* shaken hands with once and started once (control/channel.rs).
THEOREM OneHandshake == Spec => []ShakesOnce
<1>1. Spec => []ShakeInv
  BY InitShake, StepShake, PTL DEF Spec
<1> QED BY <1>1, ShakeInvImplies, PTL

-----------------------------------------------------------------------------
(* The candidates of either side, between the worker and the application. *)

EventOver == [kind : {"note", "local", "closed", "error"}, cands : SUBSET Local]

ChannelsOK ==
    /\ events \in Seq(EventOver)
    /\ commands \in Seq(Remote \cup {"stop", "pointer"}) /\ Len(commands) <= MaxCommands
    /\ ending \in {"none", "closed", "error"}
    /\ thread \in {"negotiating", "running", "reporting", "ended"}
    /\ thread = "reporting" => ending # "none"

JobsOK ==
    /\ post \in [at : {"idle", "running"}, cands : SUBSET Local]
    /\ post.at = "idle" => post.cands = {}
    /\ poll \in [at : {"idle", "running", "done"}, cands : SUBSET Remote]
    /\ offered \subseteq Remote

\* Where a candidate of the client can be, and nowhere twice.
LocalWay ==
    /\ gathered \subseteq Local
    /\ gathered = Worker!Waiting \cup post.cands \cup posted \cup (lost \cap Local)
    /\ Worker!Waiting \cap post.cands = {} /\ Worker!Waiting \cap posted = {}
    /\ Worker!Waiting \cap lost = {} /\ post.cands \cap posted = {}
    /\ post.cands \cap lost = {} /\ posted \cap lost = {}

\* Where one of the console's can be, as long as the worker listens.
RemoteWay ==
    thread \in {"negotiating", "running"} =>
        seen = added \cup (Worker!ToSet(commands) \cap Remote) \cup (lost \cap Remote)

WayInv == ChannelsOK /\ JobsOK /\ (app = "streaming" => LocalWay /\ RemoteWay)

\* The candidates a queue of events carries.
Carried(evs) == UNION {evs[i].cands : i \in DOMAIN evs}

LEMMA CarriedByNone == Carried(<<>>) = {} /\ <<>> \in Seq(EventOver)
BY DEF Carried

LEMMA CarriedByOneMore ==
  ASSUME NEW evs \in Seq(EventOver), NEW e \in EventOver
  PROVE  /\ Append(evs, e) \in Seq(EventOver)
         /\ Carried(Append(evs, e)) = Carried(evs) \cup e.cands
<1> DEFINE more == Append(evs, e)
<1>1. /\ more \in Seq(EventOver) /\ Len(more) = Len(evs) + 1
      /\ \A i \in 1 .. Len(evs) : more[i] = evs[i]
      /\ more[Len(evs) + 1] = e
  BY AppendProperties
<1>2. DOMAIN evs = 1 .. Len(evs) /\ DOMAIN more = 1 .. Len(evs) + 1 /\ Len(evs) \in Nat
  BY <1>1, LenProperties
<1> HIDE DEF more
<1>3. ASSUME NEW x
      PROVE  x \in Carried(more) <=> x \in Carried(evs) \cup e.cands
  <2>1. x \in Carried(more) <=> \E i \in DOMAIN more : x \in more[i].cands
    BY Zenon DEF Carried
  <2>2. x \in Carried(evs) <=> \E i \in DOMAIN evs : x \in evs[i].cands
    BY Zenon DEF Carried
  <2>3. (\E i \in DOMAIN more : x \in more[i].cands)
          <=> (\E i \in DOMAIN evs : x \in evs[i].cands) \/ x \in e.cands
    BY <1>1, <1>2
  <2> QED BY <2>1, <2>2, <2>3
<1> QED BY <1>1, <1>3 DEF more

\* A full channel carries no more than before.
LEMMA SendEventCarries ==
  ASSUME NEW evs \in Seq(EventOver), NEW e \in EventOver
  PROVE  /\ Worker!SendEvent(evs, e) \in Seq(EventOver)
         /\ app # "left" =>
               Carried(Worker!SendEvent(evs, e)) =
                  IF Len(evs) < MaxEvents THEN Carried(evs) \cup e.cands ELSE Carried(evs)
BY CarriedByOneMore, Zenon DEF Worker!SendEvent, Worker!Lossy

LEMMA SetOfSequences ==
  ASSUME NEW S, NEW c \in Seq(S), NEW d \in Seq(S)
  PROVE  /\ Worker!ToSet(c) \subseteq S
         /\ Worker!ToSet(c \o d) = Worker!ToSet(c) \cup Worker!ToSet(d)
         /\ \A x \in S : Worker!ToSet(Append(c, x)) = Worker!ToSet(c) \cup {x}
         /\ \A m \in 0 .. Len(c) : Worker!ToSet(SubSeq(c, 1, m)) \subseteq Worker!ToSet(c)
<1>0. /\ DOMAIN c = 1 .. Len(c) /\ Len(c) \in Nat /\ DOMAIN d = 1 .. Len(d) /\ Len(d) \in Nat
  BY LenProperties
<1>1. Worker!ToSet(c) \subseteq S
  BY DEF Worker!ToSet
<1>2. Worker!ToSet(c \o d) = Worker!ToSet(c) \cup Worker!ToSet(d)
  <2>1. /\ c \o d \in Seq(S) /\ Len(c \o d) = Len(c) + Len(d)
        /\ \A i \in 1 .. Len(c) + Len(d) :
              (c \o d)[i] = IF i <= Len(c) THEN c[i] ELSE d[i - Len(c)]
    BY ConcatProperties
  <2> DEFINE both == c \o d
  <2> HIDE DEF both
  <2>2. DOMAIN both = 1 .. Len(c) + Len(d)
    BY <2>1, LenProperties DEF both
  <2>3. ASSUME NEW i \in DOMAIN both
        PROVE  both[i] \in Worker!ToSet(c) \cup Worker!ToSet(d)
    <3>1. CASE i <= Len(c)
      BY <1>0, <2>1, <2>2, <3>1 DEF both, Worker!ToSet
    <3>2. CASE ~(i <= Len(c))
      <4>1. i - Len(c) \in DOMAIN d /\ both[i] = d[i - Len(c)]
        BY <1>0, <2>1, <2>2, <3>2 DEF both
      <4> QED BY <4>1 DEF Worker!ToSet
    <3> QED BY <3>1, <3>2
  <2>4. ASSUME NEW i \in DOMAIN c
        PROVE  c[i] \in Worker!ToSet(both)
    <3>1. i \in DOMAIN both /\ both[i] = c[i]
      BY <1>0, <2>1, <2>2 DEF both
    <3> QED BY <3>1 DEF Worker!ToSet
  <2>5. ASSUME NEW i \in DOMAIN d
        PROVE  d[i] \in Worker!ToSet(both)
    <3>1. Len(c) + i \in DOMAIN both /\ both[Len(c) + i] = d[i]
      BY <1>0, <2>1, <2>2 DEF both
    <3> QED BY <3>1 DEF Worker!ToSet
  <2>6. Worker!ToSet(both) = Worker!ToSet(c) \cup Worker!ToSet(d)
    BY <2>3, <2>4, <2>5 DEF Worker!ToSet
  <2> QED BY <2>6 DEF both
<1>3. ASSUME NEW x \in S
      PROVE  Worker!ToSet(Append(c, x)) = Worker!ToSet(c) \cup {x}
  <2> DEFINE more == Append(c, x)
  <2>1. /\ more \in Seq(S) /\ Len(more) = Len(c) + 1
        /\ \A i \in 1 .. Len(c) : more[i] = c[i]
        /\ more[Len(c) + 1] = x
    BY AppendProperties
  <2>2. DOMAIN more = 1 .. Len(c) + 1
    BY <2>1, LenProperties
  <2> HIDE DEF more
  <2>3. Worker!ToSet(more) = Worker!ToSet(c) \cup {x}
    BY <1>0, <2>1, <2>2 DEF Worker!ToSet
  <2> QED BY <2>3 DEF more
<1>4. ASSUME NEW m \in 0 .. Len(c)
      PROVE  Worker!ToSet(SubSeq(c, 1, m)) \subseteq Worker!ToSet(c)
  <2> DEFINE part1 == SubSeq(c, 1, m)
  <2>1. /\ part1 \in Seq(S) /\ Len(part1) = m
        /\ \A i \in 1 .. m : part1[i] = c[i]
    BY <1>0, SubSeqProperties
  <2>2. DOMAIN part1 = 1 .. m
    BY <2>1, LenProperties
  <2> HIDE DEF part1
  <2>3. Worker!ToSet(part1) \subseteq Worker!ToSet(c)
    BY <1>0, <2>1, <2>2 DEF Worker!ToSet
  <2> QED BY <2>3 DEF part1
<1> QED BY <1>1, <1>2, <1>3, <1>4

\* The worker counts with the same operator.
LEMMA SameCount == \A S : Worker!Cardinality(S) = Cardinality(S)
BY Zenon DEF Worker!Cardinality, Cardinality

\* A finite set as a sequence: of its members, whatever their order.
LEMMA SeqOfSet ==
  ASSUME NEW S, IsFiniteSet(S)
  PROVE  Worker!SetToSeq(S) \in Seq(S)
<1>1. Cardinality(S) \in Nat /\ ExistsBijection(1 .. Cardinality(S), S)
  BY FS_CardinalityType
<1>2. \E f \in [1 .. Cardinality(S) -> S] : Worker!IsInjective(f)
  BY <1>1 DEF ExistsBijection, Bijection, Injection, IsInjective, Worker!IsInjective
<1>3. Worker!SetToSeq(S) \in [1 .. Cardinality(S) -> S]
  BY <1>2, SameCount, Zenon DEF Worker!SetToSeq
<1> QED BY <1>1, <1>3

-----------------------------------------------------------------------------
\* Nothing moves between the places of the client's candidates.
LEMMA SamePlaces ==
  ASSUME LocalWay, UNCHANGED <<gathered, post, posted>>, Worker!Waiting' = Worker!Waiting,
         lost' \cap Local = lost \cap Local
  PROVE  LocalWay'
BY DEF LocalWay

WaitingIs == Worker!Waiting = pending \cup Carried(events)

LEMMA WaitingIsCarried == WaitingIs
BY DEF WaitingIs, Worker!Waiting, Worker!Received, Carried

\* A command the worker may not hear of is the application's to lose; whether the channel
\* is full or not, no candidate is added but the one that is sent.
LEMMA CommandFits ==
  ASSUME WayInv, NEW c \in {"stop", "pointer"}
  PROVE  /\ Worker!SendCommand(c) \in Seq(Remote \cup {"stop", "pointer"})
         /\ Len(Worker!SendCommand(c)) <= MaxCommands
         /\ Worker!ToSet(Worker!SendCommand(c)) \cap Remote = Worker!ToSet(commands) \cap Remote
<1>1. commands \in Seq(Remote \cup {"stop", "pointer"}) /\ Len(commands) <= MaxCommands
  BY DEF WayInv, ChannelsOK
<1>2. CASE Worker!SendCommand(c) = commands
  BY <1>1, <1>2
<1>3. CASE Len(commands) < MaxCommands /\ Worker!SendCommand(c) = Append(commands, c)
  <2>1. /\ Append(commands, c) \in Seq(Remote \cup {"stop", "pointer"})
        /\ Len(Append(commands, c)) = Len(commands) + 1 /\ Len(commands) \in Nat
    BY <1>1, AppendProperties, LenProperties
  <2>2. Worker!ToSet(Append(commands, c)) = Worker!ToSet(commands) \cup {c}
    BY <1>1, SetOfSequences
  <2> QED
    BY <1>3, <2>1, <2>2, CapacitiesAssumption, CandidatesAssumption
<1> QED
  BY <1>2, <1>3, Zenon DEF Worker!SendCommand, Worker!Lossy

\* Negotiating, failing and the end of the thread: an event without candidates, at most.
LEMMA ThreadKeepsWay ==
  ASSUME WayInv, Worker!Negotiate \/ Worker!Fail \/ Worker!Report
  PROVE  WayInv'
<1>0. events \in Seq(EventOver) /\ \A k \in {"note", "closed", "error"} :
         Worker!Event(k, {}) \in EventOver /\ Worker!Event(k, {}).cands = {}
  BY DEF WayInv, ChannelsOK, Worker!Event, EventOver
<1>1. events' \in Seq(EventOver) /\ (app # "left" => Carried(events') = Carried(events))
  <2>1. CASE events' = events
    BY <1>0, <2>1
  <2>2. CASE \E k \in {"note", "closed", "error"} :
               events' = Worker!SendEvent(events, Worker!Event(k, {}))
    BY <1>0, <2>2, SendEventCarries
  <2> QED
    BY <2>1, <2>2 DEF Worker!Negotiate, Worker!Fail, Worker!Report, Worker!Note, WayInv, ChannelsOK
<1>2. /\ UNCHANGED <<gathered, added, app, pending, post, poll, seen, offered, posted, lost>>
      /\ commands' \in {commands, <<>>} /\ (commands' # commands => thread' = "ended")
      /\ thread' \in {"running", "reporting", "ended"}
      /\ ending' \in {"none", "closed", "error"} /\ (thread' = "reporting" => ending' # "none")
      /\ thread' = "running" => thread = "negotiating"
  BY DEF Worker!Negotiate, Worker!Fail, Worker!Report, Worker!jobs, Worker!service, WayInv, ChannelsOK
<1>3. ChannelsOK'
  <2>1. commands' \in Seq(Remote \cup {"stop", "pointer"}) /\ Len(commands') <= MaxCommands
    <3>1. CASE commands' = commands
      BY <3>1 DEF WayInv, ChannelsOK
    <3>2. CASE commands' = <<>>
      BY <3>2, CapacitiesAssumption
    <3> QED BY <1>2, <3>1, <3>2
  <2> QED BY <1>1, <1>2, <2>1 DEF ChannelsOK
<1>4. JobsOK'
  BY <1>2 DEF WayInv, JobsOK
<1>5. ASSUME app' = "streaming"
      PROVE  LocalWay' /\ RemoteWay'
  <2>1. Worker!Waiting' = Worker!Waiting
    BY <1>1, <1>2, <1>5, WaitingIsCarried DEF Worker!Waiting, Worker!Received, Carried
  <2>2. LocalWay'
    BY <1>2, <1>5, <2>1, SamePlaces DEF WayInv
  <2>3. RemoteWay'
    BY <1>2, <1>5 DEF WayInv, RemoteWay
  <2> QED BY <2>2, <2>3
<1> QED BY <1>3, <1>4, <1>5 DEF WayInv

\* A turn takes every command, so what was on the way to the peer is there, and hands
\* on new candidates, or loses them to a full channel.
LEMMA TurnKeepsWay ==
  ASSUME WayInv, Worker!Turn \/ Worker!TurnStops
  PROVE  WayInv'
<1>1. /\ added' = added \cup (Worker!ToSet(commands) \cap Remote) /\ commands' = <<>>
      /\ thread = "running"
      /\ UNCHANGED <<app, pending, post, poll, seen, offered, posted>>
      /\ thread' \in {"running", "reporting", "ended"}
      /\ ending' \in {"none", "closed", "error"} /\ (thread' = "reporting" => ending' # "none")
  <2>1. /\ Worker!TakeCommands /\ thread = "running"
        /\ UNCHANGED <<app, Worker!jobs, Worker!service>>
    BY Zenon DEF Worker!Turn, Worker!TurnGoesOn, Worker!TurnStops
  <2>2. \/ thread' = "ended" /\ UNCHANGED ending
        \/ thread' = "reporting" /\ ending' = "closed"
        \/ UNCHANGED <<thread, ending>>
    BY Zenon DEF Worker!Turn, Worker!TurnGoesOn, Worker!TurnStops
  <2>3. UNCHANGED <<app, pending, post, poll, seen, offered, posted>>
    BY <2>1 DEF Worker!jobs, Worker!service
  <2>4. ending \in {"none", "closed", "error"}
    BY DEF WayInv, ChannelsOK
  <2>5. /\ thread' \in {"running", "reporting", "ended"}
        /\ ending' \in {"none", "closed", "error"} /\ (thread' = "reporting" => ending' # "none")
    BY <2>1, <2>2, <2>4
  <2> QED BY <2>1, <2>3, <2>5 DEF Worker!TakeCommands
<1>2. JobsOK'
  BY <1>1 DEF WayInv, JobsOK
<1>3. Worker!ToSet(<<>>) = {}
  BY DEF Worker!ToSet
<1>4. CASE Worker!TurnStops
  <2>1. thread' = "ended" /\ UNCHANGED <<events, gathered, lost>>
    BY <1>4 DEF Worker!TurnStops
  <2>2. ChannelsOK'
    BY <1>1, <2>1, CapacitiesAssumption DEF WayInv, ChannelsOK
  <2>3. app' = "streaming" => LocalWay'
    BY <1>1, <2>1, SamePlaces DEF WayInv, Worker!Waiting, Worker!Received
  <2> QED BY <1>2, <2>1, <2>2, <2>3 DEF WayInv, RemoteWay
<1>5. CASE Worker!Turn
  <2> PICK cands \in SUBSET (Local \ gathered), note \in BOOLEAN, closed \in BOOLEAN :
         Worker!TurnGoesOn(cands, note, closed)
    BY <1>5 DEF Worker!Turn
  <2> DEFINE first == IF cands = {} THEN events
                      ELSE Worker!SendEvent(events, Worker!Event("local", cands))
             full == cands # {} /\ app # "left" /\ Len(events) >= MaxEvents
  <2>0. /\ app # "left"
        /\ gathered' = gathered \cup cands
        /\ events' = IF note \/ closed THEN Worker!SendEvent(first, Worker!Note) ELSE first
        /\ lost' = IF full THEN lost \cup cands ELSE lost
    BY Zenon DEF Worker!TurnGoesOn, Worker!Commanded
  <2>1. /\ events \in Seq(EventOver) /\ Len(events) \in Nat
        /\ Worker!Event("local", cands) \in EventOver /\ Worker!Event("local", cands).cands = cands
        /\ Worker!Note \in EventOver /\ Worker!Note.cands = {}
    BY LenProperties DEF WayInv, ChannelsOK, Worker!Event, Worker!Note, EventOver
  <2>2. /\ first \in Seq(EventOver)
        /\ Carried(first) = IF cands = {} \/ full THEN Carried(events)
                            ELSE Carried(events) \cup cands
    <3>1. CASE cands = {}
      BY <2>1, <3>1
    <3>2. CASE cands # {}
      <4>1. first = Worker!SendEvent(events, Worker!Event("local", cands))
        BY <3>2
      <4>2. full <=> ~(Len(events) < MaxEvents)
        BY <2>0, <2>1, <3>2, CapacitiesAssumption
      <4> HIDE DEF first, full
      <4> QED BY <2>0, <2>1, <3>2, <4>1, <4>2, SendEventCarries, Zenon
    <3> QED BY <3>1, <3>2
  <2> HIDE DEF first
  <2>3. events' \in Seq(EventOver) /\ Carried(events') = Carried(first)
    <3>1. CASE note \/ closed
      <4>1. Worker!SendEvent(first, Worker!Note) \in Seq(EventOver)
        BY <2>1, <2>2, SendEventCarries
      <4>2. Carried(Worker!SendEvent(first, Worker!Note)) \in
              {Carried(first) \cup Worker!Note.cands, Carried(first)}
        BY <2>0, <2>1, <2>2, SendEventCarries, Zenon
      <4> QED BY <2>0, <2>1, <3>1, <4>1, <4>2
    <3>2. CASE ~(note \/ closed)
      BY <2>0, <2>2, <3>2
    <3> QED BY <3>1, <3>2
  <2>4. ChannelsOK'
    BY <1>1, <2>3, CapacitiesAssumption DEF ChannelsOK
  <2>5. ASSUME app' = "streaming"
        PROVE  LocalWay' /\ RemoteWay'
    <3>1. LocalWay /\ RemoteWay
      BY <1>1, <2>5 DEF WayInv
    <3>2. Worker!Waiting' = IF cands = {} \/ full THEN Worker!Waiting
                           ELSE Worker!Waiting \cup cands
      BY <1>1, <2>2, <2>3, WaitingIsCarried DEF WaitingIs, Worker!Waiting, Worker!Received, Carried
    <3>3. cands \subseteq Local /\ cands \cap gathered = {}
      OBVIOUS
    <3>4. LocalWay'
      <4>1. CASE cands = {} \/ ~full
        <5>1. Worker!Waiting' = Worker!Waiting \cup cands /\ lost' = lost
          BY <2>0, <3>2, <4>1
        <5> HIDE DEF full
        <5> QED BY <1>1, <2>0, <3>1, <3>3, <5>1 DEF LocalWay
      <4>2. CASE full
        <5>1. Worker!Waiting' = Worker!Waiting /\ lost' = lost \cup cands
          BY <2>0, <3>2, <4>2
        <5> HIDE DEF full
        <5> QED BY <1>1, <2>0, <3>1, <3>3, <5>1 DEF LocalWay
      <4> QED BY <4>1, <4>2
    <3>5. lost' \cap Remote = lost \cap Remote
      BY <2>0, <3>3, CandidatesAssumption
    <3>6. RemoteWay'
      BY <1>1, <1>3, <3>1, <3>5 DEF RemoteWay
    <3> QED BY <3>4, <3>6
  <2> QED BY <1>2, <2>4, <2>5 DEF WayInv
<1> QED BY <1>4, <1>5

-----------------------------------------------------------------------------
\* What the answer of a poll brings that was not seen yet, and what of it fits.
LEMMA FreshIsRemote ==
  ASSUME WayInv
  PROVE  /\ Worker!Fresh \in Seq(Remote) /\ Worker!Fitting \in Seq(Remote)
         /\ Worker!ToSet(Worker!Fresh) \subseteq Remote /\ Worker!ToSet(Worker!Fitting) \subseteq Worker!ToSet(Worker!Fresh)
         /\ thread # "ended" => Len(commands) + Len(Worker!Fitting) <= MaxCommands
         /\ thread = "ended" => Worker!Fitting = <<>>
<1>0. /\ poll.cands \subseteq Remote /\ Len(commands) <= MaxCommands /\ Len(commands) \in Nat
      /\ MaxCommands \in Nat
  BY CapacitiesAssumption, LenProperties DEF WayInv, JobsOK, ChannelsOK
<1>1. Worker!Fresh \in Seq(Remote)
  <2>1. IsFiniteSet(poll.cands \ seen)
    BY <1>0, CandidatesAssumption, FS_Subset
  <2>2. Worker!SetToSeq(poll.cands \ seen) \in Seq(poll.cands \ seen)
    BY <2>1, SeqOfSet
  <2>3. Worker!SetToSeq(poll.cands \ seen) \in Seq(Remote)
    BY <1>0, <2>2
  <2>4. /\ poll.at = "done" => Worker!Fresh = Worker!SetToSeq(poll.cands \ seen)
        /\ poll.at # "done" => Worker!Fresh = <<>>
    BY Zenon DEF Worker!Fresh
  <2>5. <<>> \in Seq(Remote)
    OBVIOUS
  <2> QED BY <2>3, <2>4, <2>5
<1>2. /\ Len(Worker!Fresh) \in Nat
      /\ DOMAIN Worker!Fresh = 1 .. Len(Worker!Fresh)
      /\ \A i \in 1 .. Len(Worker!Fresh) : Worker!Fresh[i] \in Remote
  BY <1>1, LenProperties
<1> DEFINE m == IF Worker!Room < Len(Worker!Fresh) THEN Worker!Room ELSE Len(Worker!Fresh)
<1>3. /\ thread = "ended" => Worker!Room = 0
      /\ thread # "ended" => Worker!Room = MaxCommands - Len(commands)
      /\ Worker!Room \in Nat
  BY <1>0 DEF Worker!Room
<1>4. m \in 0 .. Len(Worker!Fresh) /\ m <= Worker!Room
  BY <1>2, <1>3
<1>5. Worker!Fitting = SubSeq(Worker!Fresh, 1, m)
  BY Zenon DEF Worker!Fitting
<1> HIDE DEF m
<1>6. /\ Worker!Fitting \in Seq(Remote) /\ Len(Worker!Fitting) = m
  BY <1>2, <1>4, <1>5, SubSeqProperties
<1>7. Worker!ToSet(Worker!Fitting) \subseteq Worker!ToSet(Worker!Fresh) /\ Worker!ToSet(Worker!Fresh) \subseteq Remote
  BY <1>1, <1>4, <1>5, SetOfSequences
<1>8. thread = "ended" => Worker!Fitting = <<>>
  BY <1>3, <1>4, <1>6
<1>9. thread # "ended" => Len(commands) + Len(Worker!Fitting) <= MaxCommands
  BY <1>0, <1>3, <1>4, <1>6
<1> QED BY <1>1, <1>6, <1>7, <1>8, <1>9

\* A tick takes the events: what they carried is posted at once, or waits for the answer
\* to the last request; the console's candidates become commands as far as they fit.
LEMMA TickKeepsWay ==
  ASSUME WayInv, Worker!Tick
  PROVE  WayInv'
<1>1. CASE Worker!TickLeaves
  <2>1. /\ app' = "stopping" /\ events' = <<>>
        /\ UNCHANGED <<thread, ending, commands, post, poll, offered>>
    BY <1>1 DEF Worker!TickLeaves, Worker!worker, Worker!service
  <2>2. ChannelsOK' /\ JobsOK'
    BY <2>1, CarriedByNone DEF WayInv, ChannelsOK, JobsOK
  <2> QED BY <2>1, <2>2 DEF WayInv
<1>2. ASSUME NEW again \in BOOLEAN, Worker!TickMaintains(again)
      PROVE  WayInv'
  <2>1. /\ app = "streaming" /\ events' = <<>> /\ Worker!PostLocal /\ Worker!PollRemote(again)
        /\ UNCHANGED <<Worker!worker, Worker!service>>
    BY <1>2, Zenon DEF Worker!TickMaintains
  <2>2. UNCHANGED <<thread, ending, gathered, added, offered, posted>>
    BY <2>1 DEF Worker!worker, Worker!service
  <2>3. /\ seen' = seen \cup Worker!ToSet(Worker!Fresh)
        /\ commands' = commands \o Worker!Fitting
        /\ lost' = IF thread = "ended" THEN lost
                   ELSE lost \cup (Worker!ToSet(Worker!Fresh) \ Worker!ToSet(Worker!Fitting))
    BY <2>1, Zenon DEF Worker!PollRemote
  <2>12. \/ poll' = [at |-> "running", cands |-> {}]
         \/ poll' = [at |-> "idle", cands |-> {}]
         \/ poll' = poll
    BY <2>1, Zenon DEF Worker!PollRemote, Worker!NoJob
  <2>4. ChannelsOK'
    <3>1. /\ commands \in Seq(Remote \cup {"stop", "pointer"}) /\ Len(commands) <= MaxCommands
          /\ Worker!Fitting \in Seq(Remote \cup {"stop", "pointer"})
      BY FreshIsRemote DEF WayInv, ChannelsOK
    <3>2. /\ commands \o Worker!Fitting \in Seq(Remote \cup {"stop", "pointer"})
          /\ Len(commands \o Worker!Fitting) = Len(commands) + Len(Worker!Fitting)
      BY <3>1, ConcatProperties
    <3>3. Len(commands \o Worker!Fitting) <= MaxCommands
      <4>1. CASE thread = "ended"
        <5>1. Worker!Fitting = <<>>
          BY <4>1, FreshIsRemote
        <5>2. commands \o <<>> = commands
          BY <3>1, ConcatEmptySeq
        <5> QED BY <3>1, <5>1, <5>2
      <4>2. CASE thread # "ended"
        BY <3>2, <4>2, FreshIsRemote
      <4> QED BY <4>1, <4>2
    <3> QED BY <2>1, <2>2, <2>3, <3>2, <3>3, CarriedByNone DEF WayInv, ChannelsOK
  <2>5. Worker!Waiting \subseteq Local
    BY <2>1 DEF WayInv, LocalWay
  <2>6. \/ /\ post.at = "running" /\ pending' = Worker!Waiting /\ post' = post
        \/ /\ post.at = "idle" /\ pending' = {}
           /\ post' = [at |-> "idle", cands |-> {}] \/ post' = [at |-> "running", cands |-> {}]
           /\ Worker!Waiting = {}
        \/ /\ post.at = "idle" /\ pending' = {}
           /\ post' = [at |-> "running", cands |-> Worker!Waiting]
    BY <2>1 DEF Worker!PostLocal, Worker!NoJob, WayInv, JobsOK
  <2>7. JobsOK'
    BY <2>2, <2>12, <2>5, <2>6 DEF WayInv, JobsOK
  <2>8. Worker!Waiting' = pending'
    <3>1. Worker!Waiting' = pending' \cup UNION {events'[i].cands : i \in DOMAIN events'}
      BY DEF Worker!Waiting, Worker!Received
    <3> QED BY <2>1, <3>1, CarriedByNone DEF Carried
  <2>9. /\ Worker!ToSet(Worker!Fresh) \subseteq Remote /\ Worker!ToSet(Worker!Fitting) \subseteq Worker!ToSet(Worker!Fresh)
        /\ lost' \cap Local = lost \cap Local
    BY <2>3, FreshIsRemote, CandidatesAssumption
  <2>10. LocalWay'
    <3>1. /\ Worker!Waiting' \cup post.cands' = Worker!Waiting \cup post.cands
          /\ Worker!Waiting' \cap post.cands' = {}
      BY <2>1, <2>6, <2>8 DEF WayInv, JobsOK, LocalWay
    <3>2. Worker!Waiting \cup post.cands \subseteq Local
      BY <2>1 DEF WayInv, LocalWay
    <3>3. LocalWay
      BY <2>1 DEF WayInv
    <3> QED BY <2>2, <2>9, <3>1, <3>2, <3>3 DEF LocalWay
  <2>11. RemoteWay'
    <3>1. ASSUME thread \in {"negotiating", "running"}
          PROVE  RemoteWay'
      <4>1. seen = added \cup (Worker!ToSet(commands) \cap Remote) \cup (lost \cap Remote)
        BY <2>1, <3>1 DEF WayInv, RemoteWay
      <4>2. lost' = lost \cup (Worker!ToSet(Worker!Fresh) \ Worker!ToSet(Worker!Fitting))
        BY <2>3, <3>1
      <4>3. Worker!ToSet(commands') = Worker!ToSet(commands) \cup Worker!ToSet(Worker!Fitting)
        <5>1. /\ commands \in Seq(Remote \cup {"stop", "pointer"})
              /\ Worker!Fitting \in Seq(Remote \cup {"stop", "pointer"})
          BY FreshIsRemote DEF WayInv, ChannelsOK
        <5>2. Worker!ToSet(commands \o Worker!Fitting) = Worker!ToSet(commands) \cup Worker!ToSet(Worker!Fitting)
          BY <5>1, SetOfSequences
        <5> QED BY <2>3, <5>2
      <4>4. seen' = added \cup (Worker!ToSet(commands') \cap Remote) \cup (lost' \cap Remote)
        BY <2>3, <2>9, <4>1, <4>2, <4>3
      <4> QED BY <2>2, <4>4 DEF RemoteWay
    <3> QED BY <2>2, <3>1 DEF RemoteWay
  <2> QED BY <2>4, <2>7, <2>10, <2>11 DEF WayInv
<1> QED BY <1>1, <1>2 DEF Worker!Tick

\* The jobs, the timer, the console and the user.
LEMMA RestKeepsWay ==
  ASSUME WayInv,
         \/ Worker!Touch \/ Worker!Exit \/ Worker!Drop \/ Worker!PostEnds \/ Worker!PollEnds
         \/ Worker!KeepaliveEnds \/ Worker!TimerRunsOut \/ Worker!Offer \/ Worker!SessionEnds
         \/ UNCHANGED Worker!vars
  PROVE  WayInv'
<1>1. CASE Worker!Touch
  <2>1. /\ commands' = Worker!SendCommand("pointer")
        /\ UNCHANGED <<Worker!worker, events, app, Worker!jobs, Worker!service, lost>>
    BY <1>1, Zenon DEF Worker!Touch
  <2>2. /\ UNCHANGED <<thread, ending, gathered, added, events, app, pending, post, poll, seen>>
        /\ UNCHANGED <<offered, posted, lost>>
    BY <2>1 DEF Worker!worker, Worker!jobs, Worker!service
  <2>3. ChannelsOK' /\ JobsOK'
    BY <2>1, <2>2, CommandFits DEF WayInv, ChannelsOK, JobsOK
  <2>4. Worker!ToSet(commands') \cap Remote = Worker!ToSet(commands) \cap Remote
    BY <2>1, CommandFits
  <2>5. ASSUME app' = "streaming"
        PROVE  LocalWay' /\ RemoteWay'
    <3>1. LocalWay'
      BY <2>2, <2>5, SamePlaces DEF WayInv, Worker!Waiting, Worker!Received
    <3> QED BY <2>2, <2>4, <2>5, <3>1 DEF WayInv, RemoteWay
  <2> QED BY <2>3, <2>5 DEF WayInv
<1>2. CASE Worker!Drop
  <2>1. /\ app' = "left" /\ commands' = Worker!SendCommand("stop") /\ events' = <<>>
        /\ post' = Worker!NoJob /\ poll' = Worker!NoJob
        /\ UNCHANGED <<Worker!worker, Worker!service>>
    BY <1>2, Zenon DEF Worker!Drop
  <2>2. UNCHANGED <<thread, ending, offered>>
    BY <2>1 DEF Worker!worker, Worker!service
  <2>3. ChannelsOK'
    BY <2>1, <2>2, CommandFits, CarriedByNone DEF WayInv, ChannelsOK
  <2>4. JobsOK'
    BY <2>1, <2>2 DEF WayInv, JobsOK, Worker!NoJob
  <2> QED BY <2>1, <2>3, <2>4 DEF WayInv
<1>3. CASE Worker!PostEnds
  <2>1. /\ app = "streaming" /\ post' = Worker!NoJob
        /\ \/ posted' = posted \cup post.cands /\ UNCHANGED lost
           \/ lost' = lost \cup post.cands /\ UNCHANGED posted
        /\ UNCHANGED <<Worker!worker, commands, events, app, pending, poll, seen, offered>>
    BY <1>3 DEF Worker!PostEnds
  <2>2. UNCHANGED <<thread, ending, gathered, added>>
    BY <2>1 DEF Worker!worker
  <2>3. ChannelsOK' /\ JobsOK'
    BY <2>1, <2>2 DEF WayInv, ChannelsOK, JobsOK, Worker!NoJob
  <2>4. post.cands' = {} /\ post.cands \subseteq Local
    BY <2>1 DEF Worker!NoJob, WayInv, JobsOK
  <2>5. Worker!Waiting' = Worker!Waiting
    BY <2>1 DEF Worker!Waiting, Worker!Received
  <2>6. LocalWay /\ RemoteWay
    BY <2>1 DEF WayInv
  <2>7. LocalWay'
    BY <2>1, <2>2, <2>4, <2>5, <2>6 DEF LocalWay
  <2>8. RemoteWay'
    BY <2>1, <2>2, <2>4, <2>6, CandidatesAssumption DEF RemoteWay
  <2> QED BY <2>3, <2>7, <2>8 DEF WayInv
<1>4. CASE Worker!PollEnds \/ Worker!KeepaliveEnds \/ Worker!TimerRunsOut \/ Worker!Offer
           \/ Worker!SessionEnds \/ Worker!Exit \/ UNCHANGED Worker!vars
  <2>1. /\ UNCHANGED <<Worker!worker, commands, events, pending, post, seen, posted, lost>>
        /\ app' \in {app, "stopping"}
    BY <1>4 DEF Worker!PollEnds, Worker!KeepaliveEnds, Worker!TimerRunsOut, Worker!Offer,
                Worker!SessionEnds, Worker!Exit, Worker!vars, Worker!jobs, Worker!service
  <2>2. UNCHANGED <<thread, ending, gathered, added>>
    BY <2>1 DEF Worker!worker
  <2>3. /\ offered' \subseteq Remote
        /\ poll' \in [at : {"idle", "running", "done"}, cands : SUBSET Remote]
    BY <1>4 DEF Worker!PollEnds, Worker!KeepaliveEnds, Worker!TimerRunsOut, Worker!Offer,
                Worker!SessionEnds, Worker!Exit, Worker!vars, Worker!jobs, Worker!service,
                Worker!NoJob, WayInv, JobsOK
  <2>4. ChannelsOK' /\ JobsOK'
    BY <2>1, <2>2, <2>3 DEF WayInv, ChannelsOK, JobsOK
  <2>5. ASSUME app' = "streaming"
        PROVE  LocalWay' /\ RemoteWay'
    <3>1. LocalWay'
      BY <2>1, <2>2, <2>5, SamePlaces DEF WayInv, Worker!Waiting, Worker!Received
    <3> QED BY <2>1, <2>2, <2>5, <3>1 DEF WayInv, RemoteWay
  <2> QED BY <2>4, <2>5 DEF WayInv
<1> QED BY <1>1, <1>2, <1>3, <1>4

LEMMA WayBegins ==
  ASSUME Worker!Init
  PROVE  WayInv
<1>1. /\ thread = "negotiating" /\ ending = "none" /\ commands = <<>> /\ events = <<>>
      /\ gathered = {} /\ added = {} /\ pending = {} /\ seen = {} /\ posted = {} /\ lost = {}
      /\ offered = {} /\ post = Worker!NoJob /\ poll = Worker!NoJob
  BY DEF Worker!Init
<1>2. Worker!Waiting = {}
  BY <1>1, CarriedByNone, WaitingIsCarried DEF WaitingIs
<1>3. Worker!ToSet(<<>>) = {}
  BY DEF Worker!ToSet
<1>4. ChannelsOK
  BY <1>1, CapacitiesAssumption DEF ChannelsOK
<1>5. JobsOK
  BY <1>1 DEF JobsOK, Worker!NoJob
<1>6. LocalWay
  BY <1>1, <1>2 DEF LocalWay, Worker!NoJob
<1>7. RemoteWay
  BY <1>1, <1>3 DEF RemoteWay
<1> QED BY <1>4, <1>5, <1>6, <1>7 DEF WayInv

LEMMA DisjointSum ==
  ASSUME NEW A, NEW B, IsFiniteSet(A), IsFiniteSet(B), A \cap B = {}
  PROVE  /\ IsFiniteSet(A \cup B) /\ Cardinality(A \cup B) = Cardinality(A) + Cardinality(B)
         /\ Cardinality(A) \in Nat /\ Cardinality(B) \in Nat
<1>1. /\ IsFiniteSet(A \cup B)
      /\ Cardinality(A \cup B) = Cardinality(A) + Cardinality(B) - Cardinality(A \cap B)
  BY FS_Union
<1>2. Cardinality(A \cap B) = 0
  BY FS_EmptySet
<1>3. Cardinality(A) \in Nat /\ Cardinality(B) \in Nat
  BY FS_CardinalityType
<1> QED BY <1>1, <1>2, <1>3

\* Disjoint places count one by one.
LEMMA PlacesCount ==
  ASSUME LocalWay
  PROVE  Cardinality(gathered) =
            Cardinality(Worker!Waiting) + Cardinality(post.cands) + Cardinality(posted)
              + Cardinality(lost \cap Local)
<1> DEFINE W == Worker!Waiting
           P == post.cands
           L == lost \cap Local
<1>1. /\ gathered = ((W \cup P) \cup posted) \cup L /\ gathered \subseteq Local
      /\ W \cap P = {} /\ (W \cup P) \cap posted = {} /\ ((W \cup P) \cup posted) \cap L = {}
  BY DEF LocalWay
<1> HIDE DEF W, P, L
<1>2. IsFiniteSet(W) /\ IsFiniteSet(P) /\ IsFiniteSet(posted) /\ IsFiniteSet(L)
  <2>1. W \subseteq Local /\ P \subseteq Local /\ posted \subseteq Local /\ L \subseteq Local
    BY <1>1
  <2> QED BY <2>1, CandidatesAssumption, FS_Subset
<1>3. IsFiniteSet(W \cup P) /\ Cardinality(W \cup P) = Cardinality(W) + Cardinality(P)
  BY <1>1, <1>2, DisjointSum
<1>4. /\ IsFiniteSet((W \cup P) \cup posted)
      /\ Cardinality((W \cup P) \cup posted) = Cardinality(W \cup P) + Cardinality(posted)
  BY <1>1, <1>2, <1>3, DisjointSum
<1>5. Cardinality(((W \cup P) \cup posted) \cup L)
         = Cardinality((W \cup P) \cup posted) + Cardinality(L)
  BY <1>1, <1>2, <1>4, DisjointSum
<1>6. Cardinality(gathered) = Cardinality(W) + Cardinality(P) + Cardinality(posted) + Cardinality(L)
  BY <1>1, <1>3, <1>4, <1>5
<1> QED BY <1>6 DEF W, P, L

\* While the stream lasts every candidate is in one place of its way, until a full channel
\* or a refused request loses it, for any candidates and channels of any capacity
\* (worker.rs, playback.rs).
THEOREM CandidatesStayOnTheWay == Worker!Spec => []OnTheWay
<1>1. WayInv /\ [Worker!Next]_(Worker!vars) => WayInv'
  BY ThreadKeepsWay, TurnKeepsWay, TickKeepsWay, RestKeepsWay DEF Worker!Next
<1>2. WayInv => OnTheWay
  <2> SUFFICES ASSUME WayInv, app = "streaming"
               PROVE  Worker!OnTheWay
    BY Zenon DEF OnTheWay, Worker!OnTheWay
  <2>1. LocalWay /\ RemoteWay /\ thread \in {"negotiating", "running", "reporting", "ended"}
    BY DEF WayInv, ChannelsOK
  <2>2. gathered = Worker!Waiting \cup post.cands \cup posted \cup (lost \cap Local)
    BY <2>1, Zenon DEF LocalWay
  <2>3. \/ seen = added \cup (Worker!ToSet(commands) \cap Remote) \cup (lost \cap Remote)
        \/ thread \in {"reporting", "ended"}
    BY <2>1 DEF RemoteWay
  <2>4. Cardinality(gathered) =
            Cardinality(Worker!Waiting) + Cardinality(post.cands) + Cardinality(posted)
              + Cardinality(lost \cap Local)
    BY <2>1, PlacesCount
  <2> QED BY <2>2, <2>3, <2>4, SameCount, Zenon DEF Worker!OnTheWay
<1>3. Worker!Spec => []WayInv
  BY <1>1, WayBegins, PTL DEF Worker!Spec
<1> QED BY <1>2, <1>3, PTL

=============================================================================
