----------------------- MODULE GatewayRegistryProofs -----------------------
(***************************************************************************)
(* No driver leaks and nothing is asked through a driver that was let go,   *)
(* for every set of processes, drivers and configurations: RegistryInv is   *)
(* inductive.                                                               *)
(***************************************************************************)
EXTENDS GatewayRegistry, TLAPS

USE GatewayAssumption

-----------------------------------------------------------------------------
(* The inductive invariant. *)

Checks == [stage : {"none", "reading", "pinging"}, gone : BOOLEAN]
Stores == [caps : Answers, first : BOOLEAN]
Interviews == [stage : {"none", "reading", "asking", "storing", "writing", "rereading"},
               gone : BOOLEAN, before : Stores, answer : Answers,
               tries : 0 .. StoreAttempts - 1]
Conns == [stage : Stages, lazy : BOOLEAN, open : BOOLEAN, stale : BOOLEAN,
          config : Configs \cup {None}, first : BOOLEAN, on : Drivers \cup {None},
          passed : BOOLEAN, check : Checks, interview : Interviews]
Rows == [enabled : BOOLEAN, deleted : BOOLEAN, config : Configs,
         first : BOOLEAN, caps : Answers]

(* A slot of a process holds a driver of that process, or none. *)
SlotOK(slot) ==
    /\ slot \in [Procs -> Drivers \cup {None}]
    /\ \A p \in Procs : slot[p] # None => HostOf[slot[p]] = p

Types ==
    /\ row \in Rows
    /\ conn \in [Drivers -> Conns]
    /\ SlotOK(client) /\ SlotOK(connecting) /\ SlotOK(inFlight)
    /\ failures \in [Procs -> 0 .. FailureThreshold]
    /\ disabling \in [Procs -> {"none", "due", "won", "lost"}]
    /\ down \in [Procs -> BOOLEAN]

(* A driver past its ping, not yet cached. *)
Answered == {"lookup", "looked", "interviewing", "interviewed"}

(* What is true of one driver whatever the others do: k is its record, slot  *)
(* the driver that callers would join, cached whether its process caches it, *)
(* and known whether the DataGateway was ever interviewed.                   *)
Sound(d, k, slot, cached, known) ==
    /\ k.on # None => k.stage = "interviewing" /\ HostOf[k.on] = HostOf[d]
    /\ cached <=> k.stage = "cached"
    /\ k.open <=> k.stage \in Answered \cup {"cached"}
    /\ k.stage = "cached" \/ k.first \/ k.passed => known
    /\ k.check.stage # "none" /\ ~k.check.gone => k.stage = "cached"
    /\ k.interview.stage # "none" /\ ~k.interview.gone => k.open /\ slot = d

DriverSound(d) ==
    Sound(d, conn[d], inFlight[HostOf[d]], client[HostOf[d]] = d, row.first)

RegistryInv == Types /\ \A d \in Drivers : DriverSound(d)

-----------------------------------------------------------------------------
(* What the operators on drivers return. *)

(* A driver that was let go, whose questions are abandoned. *)
LetGo(k) ==
    /\ k.stage = "none" /\ k.on = None
    /\ ~k.open /\ ~k.first /\ ~k.passed
    /\ k.check.stage # "none" => k.check.gone
    /\ k.interview.stage # "none" => k.interview.gone

(* No interview, as a record. *)
LEMMA NoInterviewType == NoInterview \in Interviews /\ NoInterview.stage = "none"
  BY DEF NoInterview, NoStore, Interviews, Stores

(* A driver not built is one let go. *)
LEMMA BlankType == Blank \in Conns /\ LetGo(Blank)
  BY DEF Blank, Conns, Checks, Interviews, Stores, NoCheck, NoInterview, NoStore,
         Stages, LetGo

(* A driver let go is sound wherever it is not cached. *)
LEMMA LetGoIsSound ==
  ASSUME NEW d, NEW k, LetGo(k), NEW slot, NEW known
  PROVE  Sound(d, k, slot, FALSE, known)
  BY DEF LetGo, Sound, Answered

(* Abandoning a question ends it or marks it. *)
LEMMA AbandonedType ==
  /\ \A t \in Checks : /\ Abandoned(t) \in Checks
                       /\ Abandoned(t).stage # "none" => Abandoned(t).gone
                       /\ Abandoned(t).stage = t.stage
  /\ \A t \in Interviews : /\ Abandoned(t) \in Interviews
                           /\ Abandoned(t).stage # "none" => Abandoned(t).gone
                           /\ Abandoned(t).stage = t.stage
  BY DEF Abandoned, Checks, Interviews

(* Disposing a driver lets it go and touches no other. *)
LEMMA DisposedType ==
  ASSUME NEW c \in [Drivers -> Conns], NEW d \in Drivers
  PROVE  /\ Disposed(c, d) \in [Drivers -> Conns]
         /\ LetGo(Disposed(c, d)[d])
         /\ \A e \in Drivers : e # d => Disposed(c, d)[e] = c[e]
<1> DEFINE k == [Blank EXCEPT !.check = Abandoned(c[d].check),
                              !.interview = Abandoned(c[d].interview)]
<1>1. c[d].check \in Checks /\ c[d].interview \in Interviews
  BY DEF Conns
<1>2. /\ Abandoned(c[d].check) \in Checks
      /\ Abandoned(c[d].interview) \in Interviews
  BY <1>1, AbandonedType
<1>3. k \in Conns
  BY <1>2, BlankType DEF Conns
<1>4. LetGo(k)
  BY <1>1, AbandonedType, BlankType DEF LetGo, Blank
<1> QED
  BY <1>3, <1>4 DEF Disposed

(* Disconnecting lets go of the cached driver and touches no other. *)
LEMMA DisconnectedType ==
  ASSUME Types, NEW c \in [Drivers -> Conns], NEW p \in Procs
  PROVE  /\ Disconnected(c, p) \in [Drivers -> Conns]
         /\ \A e \in Drivers : IF client[p] = e THEN LetGo(Disconnected(c, p)[e])
                                ELSE Disconnected(c, p)[e] = c[e]
<1>1. CASE client[p] = None
  BY <1>1 DEF Disconnected
<1>2. CASE client[p] # None
  <2>1. client[p] \in Drivers
    BY <1>2 DEF Types, SlotOK
  <2> QED
    BY <1>2, <2>1, DisposedType DEF Disconnected
<1> QED
  BY <1>1, <1>2

(* Bumping the counter of a process abandons its questions and leaves its    *)
(* drivers where they are.                                                   *)
LEMMA BumpedType ==
  ASSUME Types, NEW p \in Procs
  PROVE  /\ Bumped(conn, p) \in [Drivers -> Conns]
         /\ \A e \in Drivers :
                LET k == Bumped(conn, p)[e]
                IN  IF HostOf[e] # p THEN k = conn[e]
                    ELSE /\ k.stage = conn[e].stage /\ k.on = conn[e].on
                         /\ k.open = conn[e].open /\ k.first = conn[e].first
                         /\ k.passed = conn[e].passed
                         /\ k.check.stage # "none" => k.check.gone
                         /\ k.interview.stage # "none" => k.interview.gone
<1> SUFFICES ASSUME NEW e \in Drivers
             PROVE  LET k == Bumped(conn, p)[e]
                    IN  /\ k \in Conns
                        /\ IF HostOf[e] # p THEN k = conn[e]
                           ELSE /\ k.stage = conn[e].stage /\ k.on = conn[e].on
                                /\ k.open = conn[e].open /\ k.first = conn[e].first
                                /\ k.passed = conn[e].passed
                                /\ k.check.stage # "none" => k.check.gone
                                /\ k.interview.stage # "none" => k.interview.gone
  BY DEF Bumped
<1>1. conn[e] \in Conns /\ conn[e].check \in Checks /\ conn[e].interview \in Interviews
  BY DEF Types, Conns
<1>2. CASE HostOf[e] # p
  BY <1>1, <1>2 DEF Bumped
<1>3. CASE HostOf[e] = p
  BY <1>1, <1>3, AbandonedType DEF Bumped, Conns
<1> QED
  BY <1>2, <1>3

-----------------------------------------------------------------------------
(* What they do to the slots of the processes. *)

(* Emptying a slot keeps its type. *)
LEMMA EmptiedSlot ==
  ASSUME NEW slot, SlotOK(slot), NEW p \in Procs
  PROVE  SlotOK([slot EXCEPT ![p] = None])
  BY DEF SlotOK

(* Filling a slot with a driver of the process keeps its type. *)
LEMMA FilledSlot ==
  ASSUME NEW slot, SlotOK(slot), NEW d \in Drivers
  PROVE  SlotOK([slot EXCEPT ![HostOf[d]] = d])
  BY DEF SlotOK

(* Taking a driver out of a slot keeps its type, and who else is there. *)
LEMMA WithoutType ==
  ASSUME NEW slot, SlotOK(slot), NEW p \in Procs, NEW d
  PROVE  /\ SlotOK(Without(slot, p, d))
         /\ \A e \in Drivers : e # d /\ slot[HostOf[e]] = e =>
                Without(slot, p, d)[HostOf[e]] = e
  BY DEF Without, SlotOK

(* The end of a connect leaves the lazy connects typed. *)
LEMMA FinishType ==
  ASSUME Types, NEW d \in Drivers, Finish(d)
  PROVE  SlotOK(connecting')
  BY EmptiedSlot DEF Finish, Types

-----------------------------------------------------------------------------
(* A driver that a step leaves alone. *)
LEMMA LeftAlone ==
  ASSUME NEW e \in Drivers, DriverSound(e), conn'[e] = conn[e],
         inFlight[HostOf[e]] = e => inFlight'[HostOf[e]] = e,
         client'[HostOf[e]] = e <=> client[HostOf[e]] = e,
         row.first => row'.first
  PROVE  DriverSound(e)'
  BY DEF DriverSound, Sound

(* A driver that a step lets go. *)
LEMMA LetGoInStep ==
  ASSUME NEW e \in Drivers, LetGo(conn'[e]), client'[HostOf[e]] # e
  PROVE  DriverSound(e)'
  BY DEF DriverSound, LetGo, Sound, Answered

(* The empty registry satisfies the invariant. *)
LEMMA RegistryInit == Init => RegistryInv
<1> SUFFICES ASSUME Init PROVE RegistryInv
  OBVIOUS
<1>1. Types
  <2>1. row \in Rows
    BY DEF Init, Rows
  <2>2. conn \in [Drivers -> Conns]
    BY BlankType DEF Init
  <2>3. SlotOK(client) /\ SlotOK(connecting) /\ SlotOK(inFlight)
    BY DEF Init, SlotOK
  <2> QED
    BY <2>1, <2>2, <2>3 DEF Init, Types
<1>2. ASSUME NEW d \in Drivers PROVE DriverSound(d)
  BY LetGoIsSound, BlankType DEF Init, DriverSound, Sound, LetGo, Answered
<1> QED
  BY <1>1, <1>2 DEF RegistryInv

-----------------------------------------------------------------------------
(* The shapes a step has. *)

(* The row is written within its type, and an interview is never forgotten. *)
RowGrows == row' \in Rows /\ (row.first => row'.first)

(* The counters of a process keep their types. *)
CountersOK ==
    /\ failures \in [Procs -> 0 .. FailureThreshold]
    /\ disabling \in [Procs -> {"none", "due", "won", "lost"}]
    /\ down \in [Procs -> BOOLEAN]

(* A step that changes one driver. *)
LEMMA OneDriver ==
  ASSUME RegistryInv, NEW d \in Drivers, NEW k \in Conns,
         conn' = [conn EXCEPT ![d] = k], UNCHANGED <<row, client, inFlight>>,
         SlotOK(connecting'), CountersOK',
         Sound(d, k, inFlight[HostOf[d]], client[HostOf[d]] = d, row.first)
  PROVE  RegistryInv'
<1>1. Types'
  BY DEF RegistryInv, Types, SlotOK, CountersOK
<1>2. ASSUME NEW e \in Drivers PROVE DriverSound(e)'
  <2>1. CASE e = d
    <3>1. conn'[d] = k
      BY DEF RegistryInv, Types
    <3> QED
      BY <2>1, <3>1 DEF DriverSound
  <2>2. CASE e # d
    <3>1. conn'[e] = conn[e]
      BY <2>2 DEF RegistryInv, Types
    <3> QED
      BY <3>1, LeftAlone DEF RegistryInv
  <2> QED
    BY <2>1, <2>2
<1> QED
  BY <1>1, <1>2 DEF RegistryInv

(* A step that changes no driver. *)
LEMMA NoDriver ==
  ASSUME RegistryInv, UNCHANGED memory, RowGrows, CountersOK'
  PROVE  RegistryInv'
<1>1. Types'
  BY DEF RegistryInv, Types, SlotOK, CountersOK, RowGrows, memory
<1>2. ASSUME NEW e \in Drivers PROVE DriverSound(e)'
  BY LeftAlone DEF RegistryInv, RowGrows, memory
<1> QED
  BY <1>1, <1>2 DEF RegistryInv

(* A process drops the driver it caches. *)
LEMMA Dropping ==
  ASSUME RegistryInv, NEW p \in Procs, conn' = Disconnected(conn, p),
         client' = [client EXCEPT ![p] = None],
         inFlight' = Without(inFlight, p, client[p]),
         SlotOK(connecting'), RowGrows, CountersOK'
  PROVE  RegistryInv'
<1> USE DEF RegistryInv
<1>1. Types'
  <2>1. conn' \in [Drivers -> Conns]
    BY DisconnectedType DEF Types
  <2>2. SlotOK(client') /\ SlotOK(inFlight')
    BY EmptiedSlot, WithoutType DEF Types
  <2> QED
    BY <2>1, <2>2 DEF Types, SlotOK, CountersOK, RowGrows
<1>2. ASSUME NEW e \in Drivers PROVE DriverSound(e)'
  <2>1. CASE client[p] = e
    <3>1. HostOf[e] = p /\ client'[p] # e
      BY <2>1 DEF Types, SlotOK
    <3>2. LetGo(conn'[e])
      BY <2>1, DisconnectedType DEF Types
    <3> QED
      BY <3>1, <3>2, LetGoInStep
  <2>2. CASE client[p] # e
    <3>1. conn'[e] = conn[e]
      BY <2>2, DisconnectedType DEF Types
    <3>2. inFlight[HostOf[e]] = e => inFlight'[HostOf[e]] = e
      BY <2>2, WithoutType DEF Types
    <3>3. client'[HostOf[e]] = e <=> client[HostOf[e]] = e
      BY <2>2 DEF Types, SlotOK
    <3> QED
      BY <3>1, <3>2, <3>3, LeftAlone DEF RowGrows
  <2> QED
    BY <2>1, <2>2
<1> QED
  BY <1>1, <1>2

(* An interview ends, and the connects that wait for it go on. *)
LEMMA Ending ==
  ASSUME RegistryInv, NEW d \in Drivers, NEW passed \in BOOLEAN, Ends(d, passed),
         UNCHANGED <<client, connecting>>, RowGrows, CountersOK', passed => row'.first
  PROVE  RegistryInv'
<1> USE DEF RegistryInv
<1> DEFINE ended(e) == IF e = d THEN [conn[e] EXCEPT !.interview = NoInterview]
                       ELSE conn[e]
           next(e) == IF conn[e].on = d
                      THEN [ended(e) EXCEPT !.stage = "interviewed", !.on = None,
                                            !.passed = passed]
                      ELSE ended(e)
<1>0. HostOf[d] \in Procs /\ inFlight' = Without(inFlight, HostOf[d], d)
  BY DEF Ends
<1>1. ASSUME NEW e \in Drivers
      PROVE  /\ next(e) \in Conns
             /\ conn'[e] = next(e)
  <2>2. ended(e) \in Conns
    BY NoInterviewType DEF Types, Conns
  <2>3. ASSUME NEW c \in Conns
        PROVE  [c EXCEPT !.stage = "interviewed", !.on = None, !.passed = passed] \in Conns
    <3>1. "interviewed" \in Stages
      BY DEF Stages, Building
    <3> QED
      BY <3>1 DEF Conns
  <2>4. next(e) \in Conns
    BY <2>2, <2>3
  <2> QED
    BY <2>4 DEF Ends
<1>2. Types'
  <2>1. conn' \in [Drivers -> Conns]
    BY <1>1 DEF Ends
  <2>2. SlotOK(inFlight')
    BY <1>0, WithoutType DEF Types
  <2> QED
    BY <2>1, <2>2 DEF Types, SlotOK, CountersOK, RowGrows
<1>3. ASSUME NEW e \in Drivers PROVE DriverSound(e)'
  <2>1. conn[e] \in Conns
    BY DEF Types
  <2>2. e # d /\ inFlight[HostOf[e]] = e => inFlight'[HostOf[e]] = e
    BY <1>0, WithoutType DEF Types
  <2>3. DriverSound(e)
    OBVIOUS
  <2>4. /\ conn[e].on = d => conn[e].stage = "interviewing" /\ conn[e].open
        /\ conn'[e].open = conn[e].open /\ conn'[e].first = conn[e].first
        /\ conn'[e].check = conn[e].check
        /\ e # d => conn'[e].interview = conn[e].interview
        /\ e = d => conn'[e].interview.stage = "none"
        /\ IF conn[e].on = d
           THEN conn'[e].stage = "interviewed" /\ conn'[e].on = None
                /\ conn'[e].passed = passed
           ELSE conn'[e].stage = conn[e].stage /\ conn'[e].on = conn[e].on
                /\ conn'[e].passed = conn[e].passed
    <3>1. conn[e].on = d => conn[e].stage = "interviewing" /\ conn[e].open
      BY <2>3 DEF DriverSound, Sound, Answered
    <3>2. ASSUME NEW c \in Conns
          PROVE  LET n == [c EXCEPT !.stage = "interviewed", !.on = None, !.passed = passed]
                 IN  /\ n.open = c.open /\ n.first = c.first /\ n.check = c.check
                     /\ n.interview = c.interview /\ n.stage = "interviewed"
                     /\ n.on = None /\ n.passed = passed
      BY DEF Conns
    <3>3. /\ ended(e) \in Conns
          /\ ended(e).open = conn[e].open /\ ended(e).first = conn[e].first
          /\ ended(e).check = conn[e].check /\ ended(e).stage = conn[e].stage
          /\ ended(e).on = conn[e].on /\ ended(e).passed = conn[e].passed
          /\ e # d => ended(e).interview = conn[e].interview
          /\ e = d => ended(e).interview.stage = "none"
      BY <2>1, NoInterviewType DEF Conns
    <3>4. CASE conn[e].on = d
      <4>1. conn'[e] = [ended(e) EXCEPT !.stage = "interviewed", !.on = None,
                                        !.passed = passed]
        BY <1>1, <3>4
      <4> HIDE DEF ended
      <4> QED
        BY <4>1, <3>1, <3>2, <3>3, <3>4
    <3>5. CASE conn[e].on # d
      <4>1. conn'[e] = ended(e)
        BY <1>1, <3>5
      <4> HIDE DEF ended
      <4> QED
        BY <4>1, <3>1, <3>3, <3>5
    <3> QED
      BY <3>4, <3>5
  <2> QED
    BY <2>2, <2>3, <2>4 DEF DriverSound, Sound, RowGrows, Answered
<1> QED
  BY <1>2, <1>3

-----------------------------------------------------------------------------
(* The steps of a connect. *)

(* Counting a failure keeps the counters' types. *)
LEMMA ReportFailureType ==
  ASSUME Types, NEW p \in Procs, ReportFailure(p), UNCHANGED down
  PROVE  CountersOK'
  BY DEF Types, ReportFailure, CountersOK

(* An admin's connect takes a free driver. *)
LEMMA ConnectGatewayStep ==
  ASSUME RegistryInv, NEW d \in Drivers, ConnectGateway(d)
  PROVE  RegistryInv'
<1> DEFINE k == [Blank EXCEPT !.stage = "loaded", !.config = row.config]
<1>1. k \in Conns
  BY BlankType DEF Conns, Stages, RegistryInv, Types, Rows
<1>2. Sound(d, k, inFlight[HostOf[d]], client[HostOf[d]] = d, row.first)
  BY BlankType DEF RegistryInv, DriverSound, Sound, ConnectGateway, Free, Blank, Answered,
                   NoCheck, NoInterview
<1> QED
  BY <1>1, <1>2, OneDriver DEF ConnectGateway, RegistryInv, Types, CountersOK

(* A lazy connect takes a free driver. *)
LEMMA EnsureConnectedStep ==
  ASSUME RegistryInv, NEW d \in Drivers, EnsureConnected(d)
  PROVE  RegistryInv'
<1> DEFINE k == [Blank EXCEPT !.stage = "reading", !.lazy = TRUE]
<1>1. k \in Conns
  BY BlankType DEF Conns, Stages
<1>2. Sound(d, k, inFlight[HostOf[d]], client[HostOf[d]] = d, row.first)
  BY DEF RegistryInv, DriverSound, Sound, EnsureConnected, Free, Blank, Answered,
         NoCheck, NoInterview
<1>3. SlotOK(connecting')
  BY FilledSlot DEF EnsureConnected, RegistryInv, Types
<1> QED
  BY <1>1, <1>2, <1>3, OneDriver DEF EnsureConnected, RegistryInv, Types, CountersOK

(* A lazy connect reads its options, or finds nothing to connect to. *)
LEMMA ReadOptionsStep ==
  ASSUME RegistryInv, NEW d \in Drivers, ReadOptions(d)
  PROVE  RegistryInv'
<1> DEFINE k == [conn[d] EXCEPT !.stage = "loaded", !.config = row.config]
<1>1. conn[d] \in Conns /\ DriverSound(d) /\ row \in Rows /\ CountersOK'
  BY DEF RegistryInv, Types, ReadOptions, CountersOK
<1>2. CASE Usable
  <2>1. k \in Conns
    BY <1>1 DEF Conns, Stages, Rows
  <2>2. Sound(d, k, inFlight[HostOf[d]], client[HostOf[d]] = d, row.first)
    BY <1>1 DEF DriverSound, Sound, ReadOptions, Conns, Answered
  <2>3. conn' = [conn EXCEPT ![d] = k] /\ UNCHANGED connecting
    BY <1>2 DEF ReadOptions, RegistryInv, Types
  <2> QED
    BY <1>1, <2>1, <2>2, <2>3, OneDriver DEF ReadOptions, RegistryInv, Types
<1>3. CASE ~Usable
  <2>1. conn' = [conn EXCEPT ![d] = Blank] /\ Finish(d)
    BY <1>3 DEF ReadOptions
  <2>2. client[HostOf[d]] # d
    BY <1>1 DEF DriverSound, Sound, ReadOptions
  <2>3. Sound(d, Blank, inFlight[HostOf[d]], client[HostOf[d]] = d, row.first)
    BY <2>2, BlankType, LetGoIsSound DEF Sound
  <2> QED
    BY <1>1, <2>1, <2>3, BlankType, FinishType, OneDriver DEF ReadOptions, RegistryInv
<1> QED
  BY <1>2, <1>3

(* A ping that fails gives the driver back. *)
LEMMA ConnectFailsStep ==
  ASSUME RegistryInv, NEW d \in Drivers, ConnectFails(d)
  PROVE  RegistryInv'
<1>1. SlotOK(connecting') /\ CountersOK'
  BY FinishType, ReportFailureType DEF ConnectFails, RegistryInv
<1>2. client[HostOf[d]] # d
  BY DEF RegistryInv, DriverSound, Sound, ConnectFails
<1>3. Sound(d, Blank, inFlight[HostOf[d]], client[HostOf[d]] = d, row.first)
  BY <1>2, BlankType, LetGoIsSound DEF Sound
<1> QED
  BY <1>1, <1>3, BlankType, OneDriver DEF ConnectFails

(* A step that disposes a driver that is not cached. *)
LEMMA Disposing ==
  ASSUME RegistryInv, NEW d \in Drivers, conn' = Disposed(conn, d),
         client[HostOf[d]] # d, UNCHANGED <<row, client>>,
         \/ UNCHANGED inFlight
         \/ inFlight' = Without(inFlight, HostOf[d], d),
         SlotOK(connecting'), CountersOK'
  PROVE  RegistryInv'
<1> USE DEF RegistryInv
<1>0. /\ conn' \in [Drivers -> Conns] /\ LetGo(conn'[d])
      /\ \A e \in Drivers : e # d => conn'[e] = conn[e]
  BY DisposedType DEF Types
<1>1. SlotOK(inFlight') /\ \A e \in Drivers : e # d /\ inFlight[HostOf[e]] = e =>
                                                 inFlight'[HostOf[e]] = e
  BY WithoutType DEF Types
<1>2. Types'
  BY <1>0, <1>1 DEF Types, CountersOK
<1>3. ASSUME NEW e \in Drivers PROVE DriverSound(e)'
  <2>1. CASE e = d
    BY <1>0, <2>1, LetGoInStep
  <2>2. CASE e # d
    BY <1>0, <1>1, <2>2, LeftAlone
  <2> QED
    BY <2>1, <2>2
<1> QED
  BY <1>2, <1>3

(* A ping that answers opens the driver, unless it was invalidated. *)
LEMMA ConnectAnswersStep ==
  ASSUME RegistryInv, NEW d \in Drivers, ConnectAnswers(d)
  PROVE  RegistryInv'
<1> DEFINE k == [conn[d] EXCEPT !.stage = "lookup", !.open = TRUE]
<1>1. conn[d] \in Conns /\ DriverSound(d) /\ CountersOK'
  BY DEF RegistryInv, Types, ConnectAnswers, CountersOK
<1>2. client[HostOf[d]] # d
  BY <1>1 DEF DriverSound, Sound, ConnectAnswers
<1>3. CASE Invalidated(d)
  <2>1. conn' = Disposed(conn, d) /\ SlotOK(connecting')
    BY <1>3, FinishType DEF ConnectAnswers, RegistryInv
  <2> QED
    BY <1>1, <1>2, <2>1, Disposing DEF ConnectAnswers
<1>4. CASE ~Invalidated(d)
  <2>1. k \in Conns
    BY <1>1 DEF Conns, Stages, Building
  <2>2. Sound(d, k, inFlight[HostOf[d]], client[HostOf[d]] = d, row.first)
    BY <1>1 DEF DriverSound, Sound, ConnectAnswers, Conns, Answered
  <2>3. conn' = [conn EXCEPT ![d] = k] /\ UNCHANGED connecting
    BY <1>4 DEF ConnectAnswers, RegistryInv, Types
  <2> QED
    BY <1>1, <2>1, <2>2, <2>3, OneDriver DEF ConnectAnswers, RegistryInv, Types
<1> QED
  BY <1>3, <1>4

(* The look at the row before a first interview. *)
LEMMA LookUpStep ==
  ASSUME RegistryInv, NEW d \in Drivers, LookUp(d)
  PROVE  RegistryInv'
<1> DEFINE k == [conn[d] EXCEPT !.stage = "looked", !.first = row.first]
<1>1. conn[d] \in Conns /\ DriverSound(d) /\ row \in Rows /\ CountersOK'
  BY DEF RegistryInv, Types, LookUp, CountersOK
<1>2. k \in Conns
  BY <1>1 DEF Conns, Stages, Building, Rows
<1>3. Sound(d, k, inFlight[HostOf[d]], client[HostOf[d]] = d, row.first)
  BY <1>1 DEF DriverSound, Sound, LookUp, Conns, Answered
<1>4. conn' = [conn EXCEPT ![d] = k]
  BY DEF LookUp, RegistryInv, Types
<1> QED
  BY <1>1, <1>2, <1>3, <1>4, OneDriver DEF LookUp, RegistryInv, Types

(* Asking for an interview starts one through the driver or joins the one    *)
(* under way, and disturbs no other.                                         *)
LEMMA StartedType ==
  ASSUME RegistryInv, NEW d \in Drivers
  PROVE  LET p == HostOf[d]
             k == Started(conn, p, d)[d]
         IN  /\ Started(conn, p, d) \in [Drivers -> Conns]
             /\ \A e \in Drivers : e # d => Started(conn, p, d)[e] = conn[e]
             /\ k.stage = conn[d].stage /\ k.on = conn[d].on /\ k.open = conn[d].open
             /\ k.first = conn[d].first /\ k.passed = conn[d].passed
             /\ k.check = conn[d].check
             /\ SlotOK(Slotted(p, d)) /\ Slotted(p, d)[p] \in Drivers
             /\ HostOf[Slotted(p, d)[p]] = p
             /\ \A e \in Drivers : inFlight[HostOf[e]] = e => Slotted(p, d)[HostOf[e]] = e
             /\ k.interview.stage # "none" /\ ~k.interview.gone => Slotted(p, d)[p] = d
<1> USE DEF RegistryInv
<1> DEFINE p == HostOf[d]
<1>1. /\ conn \in [Drivers -> Conns] /\ DriverSound(d) /\ p \in Procs
      /\ SlotOK(inFlight)
  BY DEF Types
<1>2. CASE inFlight[p] # None
  <2>1. Started(conn, p, d) = conn /\ Slotted(p, d) = inFlight
    BY <1>2 DEF Started, Slotted
  <2>2. inFlight[p] \in Drivers /\ HostOf[inFlight[p]] = p
    BY <1>1, <1>2 DEF SlotOK
  <2> QED
    BY <1>1, <2>1, <2>2 DEF DriverSound, Sound
<1>3. CASE inFlight[p] = None
  <2> DEFINE k == [conn[d] EXCEPT !.interview = [conn[d].interview EXCEPT !.stage = "reading"]]
  <2>1. /\ k \in Conns
        /\ k.stage = conn[d].stage /\ k.on = conn[d].on /\ k.open = conn[d].open
        /\ k.first = conn[d].first /\ k.passed = conn[d].passed
        /\ k.check = conn[d].check
    BY <1>1 DEF Conns, Interviews
  <2>2. Started(conn, p, d) = [conn EXCEPT ![d] = k]
    BY <1>1, <1>3 DEF Started
  <2>3. Slotted(p, d) = [inFlight EXCEPT ![p] = d]
    BY <1>3 DEF Slotted
  <2>4. SlotOK(Slotted(p, d)) /\ Slotted(p, d)[p] = d
    BY <1>1, <2>3, FilledSlot DEF SlotOK
  <2>5. ASSUME NEW e \in Drivers, inFlight[HostOf[e]] = e PROVE Slotted(p, d)[HostOf[e]] = e
    BY <1>1, <1>3, <2>3, <2>5 DEF SlotOK
  <2> HIDE DEF k
  <2> QED
    BY <1>1, <2>1, <2>2, <2>4, <2>5
<1> QED
  BY <1>2, <1>3

(* A first interview starts or is joined, unless the connect was invalidated. *)
LEMMA FirstInterviewStep ==
  ASSUME RegistryInv, NEW d \in Drivers, FirstInterview(d)
  PROVE  RegistryInv'
<1> USE DEF RegistryInv
<1> DEFINE p == HostOf[d]
           c == Started(conn, p, d)
           k == [c[d] EXCEPT !.stage = "interviewing", !.on = Slotted(p, d)[p]]
<1>1. conn[d] \in Conns /\ DriverSound(d) /\ CountersOK' /\ conn[d].stage = "looked"
  BY DEF Types, FirstInterview, CountersOK
<1>2. client[p] # d /\ conn[d].open
  BY <1>1 DEF DriverSound, Sound, Answered
<1>3. CASE conn[d].stale
  <2>1. conn' = Disposed(conn, d) /\ SlotOK(connecting') /\ UNCHANGED inFlight
    BY <1>3, FinishType DEF FirstInterview
  <2> QED
    BY <1>1, <1>2, <2>1, Disposing DEF FirstInterview
<1>4. CASE ~conn[d].stale
  <2>1. /\ conn' = [c EXCEPT ![d].stage = "interviewing", ![d].on = Slotted(p, d)[p]]
        /\ inFlight' = Slotted(p, d) /\ UNCHANGED <<row, client, connecting>>
    BY <1>4 DEF FirstInterview
  <2>2. /\ c \in [Drivers -> Conns]
        /\ \A e \in Drivers : e # d => c[e] = conn[e]
        /\ c[d].open /\ c[d].first = conn[d].first /\ c[d].passed = conn[d].passed
        /\ c[d].check = conn[d].check
        /\ SlotOK(inFlight') /\ inFlight'[p] \in Drivers /\ HostOf[inFlight'[p]] = p
        /\ \A e \in Drivers : inFlight[HostOf[e]] = e => inFlight'[HostOf[e]] = e
        /\ c[d].interview.stage # "none" /\ ~c[d].interview.gone => inFlight'[p] = d
    BY <1>2, <2>1, StartedType
  <2> HIDE DEF c
  <2>3. /\ k \in Conns /\ k.stage = "interviewing" /\ k.on = inFlight'[p]
        /\ k.open = c[d].open /\ k.first = c[d].first /\ k.passed = c[d].passed
        /\ k.check = c[d].check /\ k.interview = c[d].interview
    <3> DEFINE b == c[d]
               o == Slotted(p, d)[p]
    <3>1. b \in Conns /\ o \in Drivers /\ "interviewing" \in Stages
      BY <2>1, <2>2 DEF Stages, Building
    <3> HIDE DEF b, o
    <3> DEFINE w == [b EXCEPT !.stage = "interviewing", !.on = o]
    <3>2. /\ w \in Conns /\ w.stage = "interviewing" /\ w.on = o
          /\ w.open = b.open /\ w.first = b.first /\ w.passed = b.passed
          /\ w.check = b.check /\ w.interview = b.interview
      BY <3>1 DEF Conns
    <3>3. o = inFlight'[p]
      BY <2>1 DEF o
    <3> QED
      BY <3>2, <3>3 DEF b, o
  <2>4. conn' = [c EXCEPT ![d] = k]
    BY <2>1, <2>2
  <2>5. conn' \in [Drivers -> Conns] /\ conn'[d] = k
        /\ \A e \in Drivers : e # d => conn'[e] = conn[e]
    BY <2>2, <2>3, <2>4
  <2>6. Types'
    BY <1>1, <2>1, <2>2, <2>5 DEF Types, CountersOK
  <2>7. ASSUME NEW e \in Drivers PROVE DriverSound(e)'
    <3>1. CASE e = d
      <4> HIDE DEF k
      <4> QED
        BY <1>1, <1>2, <2>1, <2>2, <2>3, <2>5, <3>1 DEF DriverSound, Sound, Answered
    <3>2. CASE e # d
      BY <2>1, <2>2, <2>5, <3>2, LeftAlone
    <3> QED
      BY <3>1, <3>2
  <2> QED
    BY <2>6, <2>7
<1> QED
  BY <1>3, <1>4

(* What a connect ends with. *)
LEMMA DoneFacts ==
  ASSUME RegistryInv, NEW d \in Drivers, conn[d].stage \in {"looked", "interviewed"}
  PROVE  client[HostOf[d]] # d /\ conn[d].open
  BY DEF RegistryInv, DriverSound, Sound, Answered

(* A connect ends without its driver. *)
LEMMA DiscardStep ==
  ASSUME RegistryInv, NEW d \in Drivers, conn[d].stage \in {"looked", "interviewed"},
         Discard(d), Finish(d), UNCHANGED <<row, disabling, down>>
  PROVE  RegistryInv'
<1>1. SlotOK(connecting') /\ CountersOK'
  BY FinishType DEF Discard, RegistryInv, Types, CountersOK
<1> QED
  BY <1>1, DoneFacts, Disposing DEF Discard

(* The driver that loses the cache slot is let go, and no other. *)
LEMMA ReplacedType ==
  ASSUME Types, NEW d \in Drivers
  PROVE  /\ Replaced(conn, d) \in [Drivers -> Conns]
         /\ \A e \in Drivers : IF client[HostOf[d]] = e /\ e # d
                                THEN LetGo(Replaced(conn, d)[e])
                                ELSE Replaced(conn, d)[e] = conn[e]
<1> DEFINE q == client[HostOf[d]]
<1>1. CASE q \in {None, d}
  BY <1>1 DEF Replaced, Types
<1>2. CASE q \notin {None, d}
  <2>1. q \in Drivers /\ conn \in [Drivers -> Conns]
    BY <1>2 DEF Types, SlotOK
  <2> QED
    BY <1>2, <2>1, DisposedType DEF Replaced
<1> QED
  BY <1>1, <1>2

(* A connect ends with its driver cached in the place of another. *)
LEMMA CacheStep ==
  ASSUME RegistryInv, NEW d \in Drivers, Done(d), NEW now, Cache(d, now),
         Finish(d), UNCHANGED <<row, disabling, down>>
  PROVE  RegistryInv'
<1> USE DEF RegistryInv
<1> DEFINE p == HostOf[d]
           check == IF now THEN NoCheck ELSE [NoCheck EXCEPT !.stage = "reading"]
           k == [Blank EXCEPT !.stage = "cached", !.open = TRUE,
                              !.config = conn[d].config, !.check = check,
                              !.interview = conn[d].interview]
<1>1. /\ conn \in [Drivers -> Conns] /\ conn[d] \in Conns /\ DriverSound(d) /\ p \in Procs
      /\ SlotOK(client) /\ SlotOK(inFlight)
  BY DEF Types
<1>2. client[p] # d /\ conn[d].open
  BY DoneFacts DEF Done
<1>3. row.first
  BY <1>1 DEF Done, DriverSound, Sound
<1>4. /\ k \in Conns /\ k.stage = "cached" /\ k.open /\ k.on = None
      /\ k.interview = conn[d].interview
  <2>1. check \in Checks
    BY DEF Checks, NoCheck
  <2>2. "cached" \in Stages
    BY DEF Stages
  <2> DEFINE i == conn[d].interview
             g == conn[d].config
  <2>3. g \in Configs \cup {None} /\ i \in Interviews
    BY <1>1 DEF Conns
  <2> HIDE DEF check, i, g
  <2> DEFINE w == [Blank EXCEPT !.stage = "cached", !.open = TRUE, !.config = g,
                                !.check = check, !.interview = i]
  <2>4. w \in Conns /\ w.stage = "cached" /\ w.open /\ w.on = None /\ w.interview = i
    BY <2>1, <2>2, <2>3, BlankType DEF Conns, LetGo
  <2> QED
    BY <2>4 DEF i, g
<1>5. /\ conn' = [Replaced(conn, d) EXCEPT ![d] = k]
      /\ client' = [client EXCEPT ![p] = d]
      /\ inFlight' = IF client[p] = None THEN inFlight ELSE Without(inFlight, p, client[p])
      /\ failures' = [failures EXCEPT ![p] = 0]
  BY DEF Cache
<1> HIDE DEF k
<1>6. /\ conn' \in [Drivers -> Conns] /\ conn'[d] = k
      /\ \A e \in Drivers \ {d} : IF client[p] = e THEN LetGo(conn'[e])
                                   ELSE conn'[e] = conn[e]
  BY <1>4, <1>5, ReplacedType
<1>7. /\ SlotOK(inFlight')
      /\ \A e \in Drivers : e # client[p] /\ inFlight[HostOf[e]] = e =>
             inFlight'[HostOf[e]] = e
  BY <1>1, <1>5, WithoutType
<1>8. Types'
  <2>1. SlotOK(client') /\ SlotOK(connecting')
    BY <1>1, <1>5, FilledSlot, FinishType
  <2>2. CountersOK'
    BY <1>1, <1>5 DEF CountersOK, Types
  <2> QED
    BY <1>6, <1>7, <2>1, <2>2 DEF Types, CountersOK
<1>9. ASSUME NEW e \in Drivers PROVE DriverSound(e)'
  <2>1. CASE e = d
    <3>1. client'[p] = d /\ row'.first
      BY <1>1, <1>3, <1>5 DEF SlotOK
    <3>2. k.interview.stage # "none" /\ ~k.interview.gone => inFlight'[p] = d
      BY <1>1, <1>2, <1>4, <1>7 DEF DriverSound, Sound
    <3> QED
      BY <1>4, <1>6, <2>1, <3>1, <3>2 DEF DriverSound, Sound, Answered
  <2>2. CASE e # d /\ client[p] = e
    <3>1. HostOf[e] = p /\ client'[p] # e
      BY <1>1, <1>5, <2>2 DEF SlotOK
    <3> QED
      BY <1>6, <2>2, <3>1, LetGoInStep
  <2>3. CASE e # d /\ client[p] # e
    <3>1. client'[HostOf[e]] = e <=> client[HostOf[e]] = e
      BY <1>1, <1>5, <2>3 DEF SlotOK
    <3> QED
      BY <1>6, <1>7, <2>3, <3>1, LeftAlone
  <2> QED
    BY <2>1, <2>2, <2>3
<1> QED
  BY <1>8, <1>9

(* The end of a connect, cached or discarded. *)
LEMMA CacheOrDiscardStep ==
  ASSUME RegistryInv, NEW d \in Drivers, CacheOrDiscard(d)
  PROVE  RegistryInv'
<1>1. conn[d].stage \in {"looked", "interviewed"} /\ Done(d)
  BY DEF CacheOrDiscard, Done
<1>2. CASE Invalidated(d)
  BY <1>1, <1>2, DiscardStep DEF CacheOrDiscard
<1>3. CASE ~Invalidated(d)
  BY <1>1, <1>3, CacheStep DEF CacheOrDiscard
<1> QED
  BY <1>2, <1>3

(* The connect's start drops what is cached. *)
LEMMA ConnectStep ==
  ASSUME RegistryInv, NEW d \in Drivers, Connect(d)
  PROVE  RegistryInv'
<1> USE DEF RegistryInv
<1> DEFINE p == HostOf[d]
           c == Disconnected(conn, p)
           k == [conn[d] EXCEPT !.stage = "pinging"]
<1>1. /\ conn[d] \in Conns /\ DriverSound(d) /\ p \in Procs /\ CountersOK'
      /\ SlotOK(client) /\ SlotOK(inFlight) /\ conn[d].stage = "loaded"
  BY DEF Types, Connect, CountersOK
<1>2. client[p] # d
  BY <1>1 DEF DriverSound, Sound
<1>3. /\ c \in [Drivers -> Conns]
      /\ \A e \in Drivers : IF client[p] = e THEN LetGo(c[e]) ELSE c[e] = conn[e]
  BY <1>1, DisconnectedType DEF Types
<1>4. /\ conn' = [c EXCEPT ![d].stage = "pinging"]
      /\ client' = [client EXCEPT ![p] = None]
      /\ inFlight' = Without(inFlight, p, client[p])
      /\ UNCHANGED <<row, connecting>>
  BY DEF Connect
<1> HIDE DEF c
<1>5. /\ k \in Conns /\ k.stage = "pinging" /\ k.open = conn[d].open /\ k.on = conn[d].on
      /\ k.first = conn[d].first /\ k.passed = conn[d].passed /\ k.check = conn[d].check
      /\ k.interview = conn[d].interview
  <2>1. "pinging" \in Stages
    BY DEF Stages, Building
  <2> QED
    BY <1>1, <2>1 DEF Conns
<1>6. /\ conn' \in [Drivers -> Conns] /\ conn'[d] = k
      /\ \A e \in Drivers \ {d} : conn'[e] = c[e]
  <2>1. conn' = [c EXCEPT ![d] = k]
    BY <1>2, <1>3, <1>4
  <2> QED
    BY <1>3, <1>5, <2>1
<1> HIDE DEF k
<1>7. /\ SlotOK(client') /\ SlotOK(inFlight')
      /\ \A e \in Drivers : e # client[p] /\ inFlight[HostOf[e]] = e =>
             inFlight'[HostOf[e]] = e
  <2>1. SlotOK(client')
    BY <1>1, <1>4, EmptiedSlot
  <2> QED
    BY <1>1, <1>4, <2>1, WithoutType
<1>8. Types'
  BY <1>1, <1>4, <1>6, <1>7 DEF Types, CountersOK
<1>9. ASSUME NEW e \in Drivers PROVE DriverSound(e)'
  <2>1. CASE e = d
    <3>1. client'[p] # d
      BY <1>1, <1>4 DEF SlotOK
    <3>2. k.interview.stage # "none" => k.interview.gone
      BY <1>1, <1>5 DEF DriverSound, Sound, Answered
    <3> QED
      BY <1>1, <1>4, <1>5, <1>6, <2>1, <3>1, <3>2 DEF DriverSound, Sound, Answered
  <2>2. CASE e # d /\ client[p] = e
    <3>1. HostOf[e] = p /\ client'[p] # e
      BY <1>1, <1>4, <2>2 DEF SlotOK
    <3> QED
      BY <1>3, <1>6, <2>2, <3>1, LetGoInStep
  <2>3. CASE e # d /\ client[p] # e
    <3>1. client'[HostOf[e]] = e <=> client[HostOf[e]] = e
      BY <1>1, <1>4, <2>3 DEF SlotOK
    <3> QED
      BY <1>3, <1>4, <1>6, <1>7, <2>3, <3>1, LeftAlone
  <2> QED
    BY <2>1, <2>2, <2>3
<1> QED
  BY <1>8, <1>9

(* A first interview that failed costs the driver. *)
LEMMA InterviewFailedStep ==
  ASSUME RegistryInv, NEW d \in Drivers, InterviewFailed(d)
  PROVE  RegistryInv'
  BY DiscardStep DEF InterviewFailed

-----------------------------------------------------------------------------
(* The steps of an interview and of a stale check. *)

(* An interview goes on, abandoned or not as it was. *)
LEMMA InterviewMoves ==
  ASSUME RegistryInv, NEW d \in Drivers, NEW i \in Interviews,
         conn[d].interview.stage # "none", i.gone = conn[d].interview.gone,
         conn' = [conn EXCEPT ![d] = [conn[d] EXCEPT !.interview = i]],
         UNCHANGED <<row, client, connecting, inFlight, failures, disabling, down>>
  PROVE  RegistryInv'
<1> DEFINE k == [conn[d] EXCEPT !.interview = i]
<1>1. conn[d] \in Conns /\ DriverSound(d)
  BY DEF RegistryInv, Types
<1>2. k \in Conns
  BY <1>1 DEF Conns
<1>3. Sound(d, k, inFlight[HostOf[d]], client[HostOf[d]] = d, row.first)
  BY <1>1 DEF DriverSound, Sound, Conns
<1>4. SlotOK(connecting') /\ CountersOK'
  BY DEF RegistryInv, Types, CountersOK
<1> HIDE DEF k
<1> QED
  BY <1>2, <1>3, <1>4, OneDriver DEF k

(* A stale check of a cached driver goes on, or one ends. *)
LEMMA CheckMoves ==
  ASSUME RegistryInv, NEW d \in Drivers, NEW x \in Checks,
         x.stage # "none" /\ ~x.gone => conn[d].stage = "cached",
         conn' = [conn EXCEPT ![d] = [conn[d] EXCEPT !.check = x]],
         UNCHANGED <<row, client, connecting, inFlight, failures, disabling, down>>
  PROVE  RegistryInv'
<1> DEFINE k == [conn[d] EXCEPT !.check = x]
<1>1. conn[d] \in Conns /\ DriverSound(d)
  BY DEF RegistryInv, Types
<1>2. k \in Conns
  BY <1>1 DEF Conns
<1>3. Sound(d, k, inFlight[HostOf[d]], client[HostOf[d]] = d, row.first)
  BY <1>1 DEF DriverSound, Sound, Conns
<1>4. SlotOK(connecting') /\ CountersOK'
  BY DEF RegistryInv, Types, CountersOK
<1> HIDE DEF k
<1> QED
  BY <1>2, <1>3, <1>4, OneDriver DEF k

(* A step that leaves the row and the counters alone. *)
LEMMA RowStays ==
  ASSUME RegistryInv, UNCHANGED <<row, failures, disabling, down>>
  PROVE  RowGrows /\ CountersOK'
  BY DEF RegistryInv, Types, RowGrows, CountersOK

(* An interview that ends without an answer stored. *)
LEMMA EndsUnanswered ==
  ASSUME RegistryInv, NEW d \in Drivers, Ends(d, FALSE),
         UNCHANGED <<row, client, connecting, failures, disabling, down>>
  PROVE  RegistryInv'
<1>1. FALSE \in BOOLEAN /\ RowGrows /\ CountersOK'
  BY RowStays
<1> QED
  BY <1>1, Ending

(* Every step of an interview keeps the invariant. *)
LEMMA InterviewingStep ==
  ASSUME RegistryInv, NEW d \in Drivers, Interviewing(d)
  PROVE  RegistryInv'
<1> DEFINE t == conn[d].interview
<1>1. /\ conn \in [Drivers -> Conns] /\ conn[d] \in Conns /\ t \in Interviews
      /\ row \in Rows /\ Stored \in Stores
  BY DEF RegistryInv, Types, Conns, Rows, Stored, Stores
<1>2. CASE ReadRow(d)
  <2> DEFINE i == [t EXCEPT !.stage = "asking", !.before = Stored]
  <2>1. CASE Usable
    <3>1. conn' = [conn EXCEPT ![d] = [conn[d] EXCEPT !.interview = i]]
      BY <1>1, <1>2, <2>1 DEF ReadRow, Conns
    <3>2. i \in Interviews /\ i.gone = t.gone /\ t.stage # "none"
      BY <1>1, <1>2 DEF Interviews, ReadRow, At
    <3> HIDE DEF i
    <3> QED
      BY <1>2, <2>1, <3>1, <3>2, InterviewMoves DEF ReadRow
  <2>2. CASE ~Usable
    BY <1>2, <2>2, EndsUnanswered DEF ReadRow
  <2> QED
    BY <2>1, <2>2
<1>3. CASE Ask(d)
  <2>1. ASSUME NEW answer \in Answers,
               conn' = [conn EXCEPT ![d].interview.stage = "storing",
                                    ![d].interview.answer = answer],
               UNCHANGED inFlight
        PROVE  RegistryInv'
    <3> DEFINE i == [t EXCEPT !.stage = "storing", !.answer = answer]
    <3>1. conn' = [conn EXCEPT ![d] = [conn[d] EXCEPT !.interview = i]]
      BY <1>1, <2>1 DEF Conns
    <3>2. i \in Interviews /\ i.gone = t.gone /\ t.stage # "none"
      BY <1>1, <1>3 DEF Interviews, Ask, At
    <3> HIDE DEF i
    <3> QED
      BY <1>3, <2>1, <3>1, <3>2, InterviewMoves DEF Ask
  <2>2. CASE Ends(d, FALSE)
    BY <1>3, <2>2, EndsUnanswered DEF Ask
  <2> QED
    BY <1>3, <2>1, <2>2 DEF Ask
<1>4. CASE SendAnswers(d)
  <2> DEFINE i == [t EXCEPT !.stage = "writing"]
  <2>1. CASE ~t.gone
    <3>1. conn' = [conn EXCEPT ![d] = [conn[d] EXCEPT !.interview = i]]
      BY <1>1, <1>4, <2>1 DEF SendAnswers, Conns
    <3>2. i \in Interviews /\ i.gone = t.gone /\ t.stage # "none"
      BY <1>1, <1>4 DEF Interviews, SendAnswers, At
    <3> HIDE DEF i
    <3> QED
      BY <1>4, <2>1, <3>1, <3>2, InterviewMoves DEF SendAnswers
  <2>2. CASE t.gone
    BY <1>4, <2>2, EndsUnanswered DEF SendAnswers
  <2> QED
    BY <2>1, <2>2
<1>5. CASE StoreOver(d)
  <2>1. RowGrows /\ row'.first
    BY <1>1, <1>5 DEF StoreOver, RowGrows, Rows, Interviews
  <2>2. CountersOK' /\ TRUE \in BOOLEAN
    BY <1>5 DEF StoreOver, RegistryInv, Types, CountersOK
  <2> QED
    BY <1>5, <2>1, <2>2, Ending DEF StoreOver
<1>6. CASE StoreMisses(d)
  <2> DEFINE i == [t EXCEPT !.stage = "rereading"]
  <2>1. conn' = [conn EXCEPT ![d] = [conn[d] EXCEPT !.interview = i]]
    BY <1>1, <1>6 DEF StoreMisses, Conns
  <2>2. i \in Interviews /\ i.gone = t.gone /\ t.stage # "none"
    BY <1>1, <1>6 DEF Interviews, StoreMisses, At
  <2> HIDE DEF i
  <2> QED
    BY <1>6, <2>1, <2>2, InterviewMoves DEF StoreMisses
<1>7. CASE Reread(d)
  <2> DEFINE n == t.tries + 1
             i == [t EXCEPT !.stage = "storing", !.before = Stored, !.tries = n]
  <2>1. CASE Usable /\ TriesLeft(d)
    <3>0. conn' = [conn EXCEPT ![d].interview.stage = "storing",
                               ![d].interview.before = Stored,
                               ![d].interview.tries = n]
      BY <1>7, <2>1 DEF Reread
    <3>2. n \in 0 .. StoreAttempts - 1
      BY <1>1, <2>1 DEF TriesLeft, Interviews
    <3> HIDE DEF n
    <3>1. conn' = [conn EXCEPT ![d] = [conn[d] EXCEPT !.interview = i]]
      BY <1>1, <3>0 DEF Conns
    <3>3. i \in Interviews /\ i.gone = t.gone /\ t.stage # "none"
      BY <1>1, <1>7, <3>2 DEF Interviews, Reread, At
    <3> HIDE DEF i
    <3> QED
      BY <1>7, <2>1, <3>1, <3>3, InterviewMoves DEF Reread
  <2>2. CASE ~(Usable /\ TriesLeft(d))
    BY <1>7, <2>2, EndsUnanswered DEF Reread
  <2> QED
    BY <2>1, <2>2
<1>8. CASE Reinterview(d)
  <2> DEFINE p == HostOf[d]
             c == Started(conn, p, d)
  <2>1. /\ conn' = c /\ inFlight' = Slotted(p, d) /\ client[p] = d
        /\ UNCHANGED <<row, client, connecting, failures, disabling, down>>
    BY <1>8 DEF Reinterview
  <2>2. /\ c \in [Drivers -> Conns]
        /\ \A e \in Drivers : e # d => c[e] = conn[e]
        /\ c[d].stage = conn[d].stage /\ c[d].on = conn[d].on /\ c[d].open = conn[d].open
        /\ c[d].first = conn[d].first /\ c[d].passed = conn[d].passed
        /\ c[d].check = conn[d].check /\ SlotOK(inFlight')
        /\ \A e \in Drivers : inFlight[HostOf[e]] = e => inFlight'[HostOf[e]] = e
        /\ c[d].interview.stage # "none" /\ ~c[d].interview.gone => inFlight'[p] = d
    BY <2>1, StartedType
  <2> HIDE DEF c
  <2>3. Types'
    BY <2>1, <2>2 DEF Types, RegistryInv
  <2>4. ASSUME NEW e \in Drivers PROVE DriverSound(e)'
    <3>1. CASE e = d
      BY <2>1, <2>2, <3>1 DEF RegistryInv, DriverSound, Sound, Answered
    <3>2. CASE e # d
      BY <2>1, <2>2, <3>2, LeftAlone DEF RegistryInv
    <3> QED
      BY <3>1, <3>2
  <2> QED
    BY <2>3, <2>4 DEF RegistryInv
<1> QED
  BY <1>2, <1>3, <1>4, <1>5, <1>6, <1>7, <1>8 DEF Interviewing

(* Every step of a stale check keeps the invariant. *)
LEMMA CheckingStep ==
  ASSUME RegistryInv, NEW d \in Drivers, Checking(d)
  PROVE  RegistryInv'
<1> DEFINE t == conn[d].check
<1>1. /\ conn \in [Drivers -> Conns] /\ conn[d] \in Conns /\ t \in Checks
      /\ DriverSound(d) /\ NoCheck \in Checks /\ NoCheck.stage = "none"
  BY DEF RegistryInv, Types, Conns, NoCheck, Checks
<1>2. CASE RefreshInterview(d)
  <2> DEFINE x == [t EXCEPT !.stage = "reading"]
  <2>1. conn' = [conn EXCEPT ![d] = [conn[d] EXCEPT !.check = x]]
    BY <1>1, <1>2 DEF RefreshInterview, Conns
  <2>2. x \in Checks /\ conn[d].stage = "cached"
    BY <1>1, <1>2 DEF RefreshInterview, Checks, DriverSound, Sound
  <2> HIDE DEF x
  <2> QED
    BY <1>2, <2>1, <2>2, CheckMoves DEF RefreshInterview
<1>3. CASE ReadCheck(d)
  <2> DEFINE x == IF Usable THEN [t EXCEPT !.stage = "pinging"] ELSE NoCheck
  <2>1. conn' = [conn EXCEPT ![d] = [conn[d] EXCEPT !.check = x]]
    BY <1>1, <1>3 DEF ReadCheck, Conns
  <2>2. x \in Checks
    BY <1>1 DEF Checks
  <2>3. x.stage # "none" /\ ~x.gone => conn[d].stage = "cached"
    BY <1>1, <1>3 DEF ReadCheck, Checks, DriverSound, Sound
  <2> HIDE DEF x
  <2> QED
    BY <1>3, <2>1, <2>2, <2>3, CheckMoves DEF ReadCheck
<1>4. CASE CheckPasses(d)
  <2>1. conn' = [conn EXCEPT ![d] = [conn[d] EXCEPT !.check = NoCheck]]
    BY <1>1, <1>4 DEF CheckPasses, Conns
  <2> QED
    BY <1>1, <1>4, <2>1, CheckMoves DEF CheckPasses
<1>5. CASE CheckInterviews(d)
  <2> DEFINE p == HostOf[d]
             c == Started(conn, p, d)
             k == [c[d] EXCEPT !.check = NoCheck]
  <2>1. /\ conn' = [c EXCEPT ![d].check = NoCheck] /\ inFlight' = Slotted(p, d)
        /\ UNCHANGED <<row, client, connecting, failures, disabling, down>>
    BY <1>5 DEF CheckInterviews
  <2>2. /\ c \in [Drivers -> Conns]
        /\ \A e \in Drivers : e # d => c[e] = conn[e]
        /\ c[d].stage = conn[d].stage /\ c[d].on = conn[d].on /\ c[d].open = conn[d].open
        /\ c[d].first = conn[d].first /\ c[d].passed = conn[d].passed
        /\ SlotOK(inFlight')
        /\ \A e \in Drivers : inFlight[HostOf[e]] = e => inFlight'[HostOf[e]] = e
        /\ c[d].interview.stage # "none" /\ ~c[d].interview.gone => inFlight'[p] = d
    BY <2>1, StartedType
  <2> HIDE DEF c
  <2>3. conn[d].open /\ conn[d].stage = "cached"
    BY <1>1, <1>5 DEF CheckInterviews, DriverSound, Sound
  <2>4. /\ k \in Conns /\ k.stage = c[d].stage /\ k.on = c[d].on /\ k.open = c[d].open
        /\ k.first = c[d].first /\ k.passed = c[d].passed /\ k.check.stage = "none"
        /\ k.interview = c[d].interview
    <3> DEFINE b == c[d]
    <3>1. b \in Conns
      BY <2>2
    <3> HIDE DEF b
    <3> DEFINE w == [b EXCEPT !.check = NoCheck]
    <3>2. /\ w \in Conns /\ w.stage = b.stage /\ w.on = b.on /\ w.open = b.open
          /\ w.first = b.first /\ w.passed = b.passed /\ w.check.stage = "none"
          /\ w.interview = b.interview
      BY <1>1, <3>1 DEF Conns
    <3> QED
      BY <3>2 DEF b
  <2>5. /\ conn' \in [Drivers -> Conns] /\ conn'[d] = k
        /\ \A e \in Drivers : e # d => conn'[e] = conn[e]
    <3>1. conn' = [c EXCEPT ![d] = k]
      BY <2>1, <2>2
    <3> QED
      BY <2>2, <2>4, <3>1
  <2> HIDE DEF k
  <2>6. Types'
    BY <2>1, <2>2, <2>5 DEF Types, RegistryInv
  <2>7. ASSUME NEW e \in Drivers PROVE DriverSound(e)'
    <3>1. CASE e = d
      BY <1>1, <2>1, <2>2, <2>3, <2>4, <2>5, <3>1 DEF DriverSound, Sound, Answered
    <3>2. CASE e # d
      BY <2>1, <2>2, <2>5, <3>2, LeftAlone DEF RegistryInv
    <3> QED
      BY <3>1, <3>2
  <2> QED
    BY <2>6, <2>7 DEF RegistryInv
<1> QED
  BY <1>2, <1>3, <1>4, <1>5 DEF Checking

-----------------------------------------------------------------------------
(* The steps of a process. *)

(* A config event invalidates the connects of a process, abandons its        *)
(* questions and drops the driver it caches.                                 *)
LEMMA HandleConfigUpdateStep ==
  ASSUME RegistryInv, NEW p \in Procs, HandleConfigUpdate(p)
  PROVE  RegistryInv'
<1> USE DEF RegistryInv
<1> DEFINE c == Disconnected(Bumped(conn, p), p)
<1>1. CASE UNCHANGED <<memory, failures>>
  <2>1. CountersOK' /\ RowGrows
    BY <1>1, RowStays DEF HandleConfigUpdate
  <2> QED
    BY <1>1, <2>1, NoDriver
<1>2. CASE ~UNCHANGED <<memory, failures>>
  <2>1. /\ conn' = c /\ inFlight' = [inFlight EXCEPT ![p] = None]
        /\ client' = [client EXCEPT ![p] = None]
        /\ failures' \in {failures, [failures EXCEPT ![p] = 0]}
        /\ UNCHANGED <<row, connecting, disabling, down>>
    BY <1>2 DEF HandleConfigUpdate
  <2>2. /\ c \in [Drivers -> Conns]
        /\ \A e \in Drivers : IF client[p] = e THEN LetGo(c[e]) ELSE c[e] = Bumped(conn, p)[e]
    BY BumpedType, DisconnectedType
  <2>3. SlotOK(client) /\ SlotOK(inFlight) /\ SlotOK(client') /\ SlotOK(inFlight')
    BY <2>1, EmptiedSlot DEF Types
  <2> HIDE DEF c
  <2>4. Types'
    BY <2>1, <2>2, <2>3 DEF Types
  <2>5. ASSUME NEW e \in Drivers PROVE DriverSound(e)'
    <3>1. CASE client[p] = e
      <4>1. HostOf[e] = p /\ client'[p] # e
        BY <2>1, <2>3, <3>1 DEF SlotOK
      <4> QED
        BY <2>1, <2>2, <3>1, <4>1, LetGoInStep
    <3>2. CASE client[p] # e /\ HostOf[e] # p
      <4>1. conn'[e] = conn[e]
        BY <2>1, <2>2, <3>2, BumpedType
      <4>2. client'[HostOf[e]] = client[HostOf[e]] /\ inFlight'[HostOf[e]] = inFlight[HostOf[e]]
        BY <2>1, <2>3, <3>2 DEF SlotOK
      <4> QED
        BY <2>1, <4>1, <4>2, LeftAlone
    <3>3. CASE client[p] # e /\ HostOf[e] = p
      <4> DEFINE k == conn'[e]
      <4>1. /\ k.stage = conn[e].stage /\ k.on = conn[e].on
            /\ k.open = conn[e].open /\ k.first = conn[e].first
            /\ k.passed = conn[e].passed
            /\ k.check.stage # "none" => k.check.gone
            /\ k.interview.stage # "none" => k.interview.gone
        BY <2>1, <2>2, <3>3, BumpedType
      <4>2. client'[p] # e /\ client[p] # e /\ row' = row
        BY <2>1, <2>3, <3>3 DEF SlotOK
      <4> QED
        BY <3>3, <4>1, <4>2 DEF DriverSound, Sound
    <3> QED
      BY <3>1, <3>2, <3>3
  <2> QED
    BY <2>4, <2>5
<1> QED
  BY <1>1, <1>2

(* A process that restarts has no driver but the one its bootstrap connects. *)
LEMMA RestartStep ==
  ASSUME RegistryInv, NEW p \in Procs, Restart(p)
  PROVE  RegistryInv'
<1> USE DEF RegistryInv
<1> DEFINE k == [Blank EXCEPT !.stage = "loaded", !.config = row.config]
<1>1. PICK ds : /\ ds \in {{}} \cup {{d} : d \in Mine(p)}
                /\ conn' = [d \in Drivers |-> IF d \in ds THEN k
                                              ELSE IF d \in Mine(p) THEN Blank ELSE conn[d]]
  BY DEF Restart
<1>2. ds \subseteq Mine(p)
  BY <1>1 DEF Mine
<1>3. k \in Conns /\ k.stage = "loaded"
  BY BlankType DEF Conns, Stages, Types, Rows
<1>4. /\ client' = [client EXCEPT ![p] = None] /\ inFlight' = [inFlight EXCEPT ![p] = None]
      /\ connecting' = [connecting EXCEPT ![p] = None] /\ UNCHANGED row
      /\ SlotOK(client) /\ SlotOK(inFlight) /\ SlotOK(client') /\ SlotOK(inFlight')
      /\ SlotOK(connecting')
  BY EmptiedSlot DEF Restart, Types
<1>5. CountersOK'
  BY DEF Restart, Types, CountersOK
<1>6. Types'
  <2>1. conn' \in [Drivers -> Conns]
    BY <1>1, <1>3, BlankType DEF Types
  <2> QED
    BY <1>4, <1>5, <2>1 DEF Types, CountersOK
<1>7. ASSUME NEW e \in Drivers PROVE DriverSound(e)'
  <2>1. CASE HostOf[e] = p
    <3>1. client'[HostOf[e]] # e
      BY <1>4, <2>1 DEF SlotOK
    <3>2. conn'[e] \in {k, Blank}
      BY <1>1, <2>1 DEF Mine
    <3>3. Sound(e, k, inFlight'[p], FALSE, row'.first)
      BY BlankType DEF Sound, Blank, NoCheck, NoInterview, Answered
    <3>4. Sound(e, Blank, inFlight'[p], FALSE, row'.first)
      BY BlankType, LetGoIsSound
    <3> HIDE DEF k
    <3> QED
      BY <2>1, <3>1, <3>2, <3>3, <3>4 DEF DriverSound, Sound
  <2>2. CASE HostOf[e] # p
    <3>1. conn'[e] = conn[e]
      BY <1>1, <1>2, <2>2 DEF Mine
    <3>2. client'[HostOf[e]] = client[HostOf[e]] /\ inFlight'[HostOf[e]] = inFlight[HostOf[e]]
      BY <1>4, <2>2 DEF SlotOK
    <3> QED
      BY <1>4, <3>1, <3>2, LeftAlone
  <2> QED
    BY <2>1, <2>2
<1> QED
  BY <1>6, <1>7

(* Every step of a process keeps the invariant. *)
LEMMA ProcessStep ==
  ASSUME RegistryInv, NEW p \in Procs, Process(p)
  PROVE  RegistryInv'
<1>0. Types
  BY DEF RegistryInv
<1>1. CASE CallFails(p)
  <2>1. CountersOK' /\ RowGrows
    BY <1>0, <1>1, ReportFailureType DEF CallFails, RowGrows, Types
  <2> QED
    BY <1>1, <2>1, NoDriver DEF CallFails
<1>2. CASE CallSucceeds(p)
  <2>1. CountersOK' /\ RowGrows
    BY <1>0, <1>2 DEF CallSucceeds, CountersOK, RowGrows, Types
  <2> QED
    BY <1>2, <2>1, NoDriver DEF CallSucceeds
<1>3. CASE DisableGateway(p)
  <2>1. CountersOK'
    BY <1>0, <1>3 DEF DisableGateway, CountersOK, Types
  <2>2. RowGrows
    BY <1>0, <1>3 DEF DisableGateway, RowGrows, Types, Rows
  <2> QED
    BY <1>3, <2>1, <2>2, NoDriver DEF DisableGateway
<1>4. CASE DisableEnds(p)
  <2>1. CountersOK' /\ RowGrows /\ SlotOK(connecting')
    BY <1>0, <1>4 DEF DisableEnds, CountersOK, RowGrows, Types
  <2> QED
    BY <1>4, <2>1, Dropping DEF DisableEnds
<1>5. CASE HandleConfigUpdate(p)
  BY <1>5, HandleConfigUpdateStep
<1>6. CASE Shutdown(p)
  <2>1. CountersOK' /\ RowGrows
    BY <1>0, <1>6 DEF Shutdown, CountersOK, RowGrows, Types
  <2>2. SlotOK(connecting')
    BY <1>0, <1>6, EmptiedSlot DEF Shutdown, Types
  <2> QED
    BY <1>6, <2>1, <2>2, Dropping DEF Shutdown
<1>7. CASE Restart(p)
  BY <1>7, RestartStep
<1> QED
  BY <1>1, <1>2, <1>3, <1>4, <1>5, <1>6, <1>7 DEF Process

-----------------------------------------------------------------------------
(* The results. *)

(* Every step keeps the invariant. *)
LEMMA RegistryStep == RegistryInv /\ [Next]_vars => RegistryInv'
<1> SUFFICES ASSUME RegistryInv, [Next]_vars PROVE RegistryInv'
  OBVIOUS
<1>0. Types
  BY DEF RegistryInv
<1>1. ASSUME NEW d \in Drivers, Connecting(d) PROVE RegistryInv'
  BY <1>1, ConnectGatewayStep, EnsureConnectedStep, ReadOptionsStep, ConnectStep,
     ConnectFailsStep, ConnectAnswersStep, LookUpStep, FirstInterviewStep,
     CacheOrDiscardStep, InterviewFailedStep DEF Connecting
<1>2. ASSUME NEW config \in Configs, NEW enabled \in BOOLEAN, Update(config, enabled)
      PROVE  RegistryInv'
  <2>1. RowGrows
    BY <1>0, <1>2 DEF Update, RowGrows, Rows, Types
  <2>2. CountersOK'
    BY <1>0, <1>2 DEF Update, CountersOK, Types
  <2> QED
    BY <1>2, <2>1, <2>2, NoDriver DEF Update
<1>3. CASE Delete
  <2>1. RowGrows
    BY <1>0, <1>3 DEF Delete, RowGrows, Rows, Types
  <2>2. CountersOK'
    BY <1>0, <1>3 DEF Delete, CountersOK, Types
  <2> QED
    BY <1>3, <2>1, <2>2, NoDriver DEF Delete
<1>4. ASSUME NEW e \in outbox, Publish(e) PROVE RegistryInv'
  <2>1. RowGrows /\ CountersOK'
    BY <1>4, RowStays DEF Publish
  <2> QED
    BY <1>4, <2>1, NoDriver DEF Publish
<1>5. CASE DisconnectGateway
  <2>1. RowGrows /\ CountersOK' /\ SlotOK(connecting')
    BY <1>0, <1>5, RowStays DEF DisconnectGateway, Types
  <2> QED
    BY <1>5, <2>1, Dropping DEF DisconnectGateway
<1>6. CASE UNCHANGED vars
  <2>1. RowGrows /\ CountersOK' /\ UNCHANGED memory
    BY <1>6, RowStays DEF vars
  <2> QED
    BY <2>1, NoDriver
<1> QED
  BY <1>1, <1>2, <1>3, <1>4, <1>5, <1>6, InterviewingStep, CheckingStep, ProcessStep
  DEF Next

(* RegistryInv holds in every reachable state. *)
THEOREM RegistryInvariance == Spec => []RegistryInv
  BY RegistryInit, RegistryStep, PTL DEF Spec

(* The registry, the drivers and the interviews are well typed: no interview *)
(* tries to store its answers more often than STORE_ATTEMPTS, and no slot of *)
(* a process holds another process's driver.                                 *)
THEOREM RegistryTypeCorrect == Spec => []TypeOK
<1>1. RegistryInv => TypeOK
  <2> SUFFICES ASSUME RegistryInv PROVE TypeOK
    OBVIOUS
  <2>1. ASSUME NEW d \in Drivers
        PROVE  /\ conn[d].stage \in Stages
               /\ conn[d].config \in Configs \cup {None}
               /\ conn[d].on \in {None} \cup Mine(HostOf[d])
               /\ conn[d].check.stage \in {"none", "reading", "pinging"}
               /\ conn[d].interview.tries \in 0 .. StoreAttempts - 1
    <3>1. conn[d] \in Conns /\ DriverSound(d)
      BY DEF RegistryInv, Types
    <3>2. conn[d].check \in Checks /\ conn[d].interview \in Interviews
      BY <3>1 DEF Conns
    <3>3. conn[d].on \in {None} \cup Mine(HostOf[d])
      BY <3>1 DEF Conns, DriverSound, Sound, Mine
    <3> QED
      BY <3>1, <3>2, <3>3 DEF Conns, Checks, Interviews
  <2>2. ASSUME NEW p \in Procs
        PROVE  {client[p], connecting[p], inFlight[p]} \subseteq {None} \cup Mine(p)
    BY DEF RegistryInv, Types, SlotOK, Mine
  <2> QED
    BY <2>1, <2>2 DEF RegistryInv, Types, Rows, TypeOK
<1> QED
  BY <1>1, RegistryInvariance, PTL

(* No channel leaks and no closed driver is served, whichever of racing      *)
(* connects, config events, disables and shutdowns of any number of          *)
(* processes comes last.                                                     *)
THEOREM NoDriverLeaks == Spec => []DriversAccountedFor
<1>1. RegistryInv => DriversAccountedFor
  <2> SUFFICES ASSUME RegistryInv PROVE DriversAccountedFor
    OBVIOUS
  <2>1. ASSUME NEW d \in Drivers, conn[d].open
        PROVE  client[HostOf[d]] = d \/ conn[d].stage \in Building
    BY <2>1 DEF RegistryInv, DriverSound, Sound, Answered, Building
  <2>2. ASSUME NEW p \in Procs, client[p] # None
        PROVE  conn[client[p]].open /\ row.first
    <3>1. client[p] \in Drivers /\ HostOf[client[p]] = p
      BY <2>2 DEF RegistryInv, Types, SlotOK
    <3> QED
      BY <3>1 DEF RegistryInv, DriverSound, Sound, Answered
  <2> QED
    BY <2>1, <2>2 DEF DriversAccountedFor
<1> QED
  BY <1>1, RegistryInvariance, PTL

(* A question that was not abandoned goes through an open driver, and a      *)
(* process has at most one interview that callers could still join.          *)
THEOREM AsksAreOpen == Spec => []AsksThroughOpenDrivers
<1>1. RegistryInv => AsksThroughOpenDrivers
  BY DEF RegistryInv, AsksThroughOpenDrivers, DriverSound, Sound, Answered
<1> QED
  BY <1>1, RegistryInvariance, PTL

(* Nothing but an interview's write changes the capabilities on the row. *)
LEMMA OnlyStoreOverWrites ==
  ASSUME RegistryInv, Next, row'.caps # row.caps
  PROVE  \E d \in Drivers : StoreOver(d)
<1>0. row \in Rows
  BY DEF RegistryInv, Types
<1>1. ASSUME NEW d \in Drivers, Connecting(d) PROVE UNCHANGED row
  BY <1>1 DEF Connecting, ConnectGateway, EnsureConnected, ReadOptions, Connect,
              ConnectFails, ConnectAnswers, LookUp, FirstInterview, CacheOrDiscard,
              InterviewFailed
<1>2. ASSUME NEW d \in Drivers, Interviewing(d), ~StoreOver(d) PROVE UNCHANGED row
  BY <1>2 DEF Interviewing, ReadRow, Ask, SendAnswers, StoreMisses, Reread, Reinterview
<1>3. ASSUME NEW d \in Drivers, Checking(d) PROVE UNCHANGED row
  BY <1>3 DEF Checking, RefreshInterview, ReadCheck, CheckPasses, CheckInterviews
<1>4. ASSUME NEW p \in Procs, Process(p) PROVE row'.caps = row.caps
  <2>1. CASE DisableGateway(p)
    BY <1>0, <2>1 DEF DisableGateway, Rows
  <2>2. CASE ~DisableGateway(p)
    BY <1>4, <2>2 DEF Process, CallFails, CallSucceeds, DisableEnds, HandleConfigUpdate,
                      Shutdown, Restart
  <2> QED
    BY <2>1, <2>2
<1>5. ASSUME NEW config \in Configs, NEW enabled \in BOOLEAN, Update(config, enabled)
      PROVE  row'.caps = row.caps
  BY <1>0, <1>5 DEF Update, Rows
<1>6. Delete => row'.caps = row.caps
  BY <1>0 DEF Delete, Rows
<1>7. DisconnectGateway => UNCHANGED row
  BY DEF DisconnectGateway
<1>8. \A e \in outbox : Publish(e) => UNCHANGED row
  BY DEF Publish
<1> QED
  BY <1>1, <1>2, <1>3, <1>4, <1>5, <1>6, <1>7, <1>8 DEF Next

(* Every change of the capabilities is the change its interview announces,   *)
(* however many processes interview at once, and nothing is written over a   *)
(* disabled or deleted row.                                                  *)
THEOREM AnnouncementsAreTrue == Spec => ChangesAreAnnounced
<1> DEFINE Announced ==
        row'.caps # row.caps =>
           /\ Usable
           /\ \E d \in Drivers : /\ At(d, "writing")
                                 /\ conn[d].interview.before.caps = row.caps
                                 /\ conn[d].interview.answer = row'.caps
<1>1. RegistryInv /\ [Next]_vars => [Announced]_vars
  <2> SUFFICES ASSUME RegistryInv, Next, row'.caps # row.caps
               PROVE  /\ Usable
                      /\ \E d \in Drivers : /\ At(d, "writing")
                                            /\ conn[d].interview.before.caps = row.caps
                                            /\ conn[d].interview.answer = row'.caps
    OBVIOUS
  <2>1. PICK d \in Drivers : StoreOver(d)
    BY OnlyStoreOverWrites
  <2>2. Usable /\ conn[d].interview.before.caps = row.caps /\ At(d, "writing")
    BY <2>1 DEF StoreOver, StillHolds
  <2>3. conn[d].interview.answer = row'.caps
    BY <2>1 DEF StoreOver, RegistryInv, Types, Rows
  <2> QED
    BY <2>2, <2>3
<1> QED
  BY <1>1, RegistryInvariance, PTL DEF Spec, ChangesAreAnnounced
=============================================================================
