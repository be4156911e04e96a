---------------------------- MODULE DataPathProofs ----------------------------
(***************************************************************************)
(* Proofs about DataPath, for any number of sensors, threads and lists and  *)
(* any configurations.  What holds between the steps: the set-up has passed *)
(* the sensors the library calls back for (SetUp), whose publishers are     *)
(* there (HasPublishers); a busy thread has published the topics of its     *)
(* list up to the one it is at, and no other thread works on that list      *)
(* (ThreadsInv, PublishedInv); what is left of a list once the context is   *)
(* invalid was under way at the signal (InterruptedInv); and every list of  *)
(* the sensors passed is heard (HeardInv).                                  *)
(***************************************************************************)
EXTENDS DataPath, SequenceTheorems, TLAPS

Names == [model : Models, list : Lists, id : SensorIds]

\* The set-up is done with the publishers of sensor i.
SetUp(i) == i < current \/ (i = current /\ setup \notin {"validate", "threw"})

HasPublishers(i, list) ==
    \/ TopicSet(m_sensors[i].link_type, list) \subseteq publishers[i]
    \/ m_sensors[i].link_type = "can" /\ ~KnownPubType(m_sensors[i])

\* The topics of the n-th list received, if sensor i sent it.
Full(i, n) == TopicsOf(m_sensors[i].link_type, received[n].list)

\* The n-th list received came from sensor i (or one with its model and id).
From(i, n) == received[n] = Source(i, received[n].list)

TypeInv ==
    /\ m_sensors \in [Index -> SensorConfig]
    /\ setup \in {"validate", "register", "running", "threw", "destroyed"}
    /\ current \in Index
    /\ todo \in Seq(Lists)
    /\ publishers \in [Index -> SUBSET Topics]
    /\ refused \subseteq Entry
    /\ context \in {"valid", "invalid"}
    /\ interrupted \subseteq 1..Len(received)
    /\ m_shutdown_requested \in BOOLEAN
    /\ services \in {"up", "reset"}
    /\ received \in Seq(Names)
    /\ Len(received) <= MaxLists
    /\ fault \in {"none", "null publisher", "destroyed node"}

SubscriptionsInv ==
    \A s \in subscriptions :
        /\ s \in Entry
        /\ SetUp(s.sensor)
        /\ s.source = Source(s.sensor, s.source.list)
        /\ TopicsOf(m_sensors[s.sensor].link_type, s.source.list) # <<>>
        /\ HasPublishers(s.sensor, s.source.list)

TodoInv ==
    setup = "register" =>
        \A k \in 1..Len(todo) :
            /\ TopicsOf(m_sensors[current].link_type, todo[k]) # <<>>
            /\ HasPublishers(current, todo[k])

\* A thread at the k-th topic of its list has published those before, unless the signal
\* came between.
BusyInv(t) ==
    LET c == thread[t]
    IN  /\ c = Busy(c.sensor, c.topics, c.list)
        /\ c.sensor \in Index
        /\ SetUp(c.sensor)
        /\ c.list \in 1..Len(received)
        /\ From(c.sensor, c.list)
        /\ HasPublishers(c.sensor, received[c.list].list)
        /\ \E k \in 1..Len(Full(c.sensor, c.list)) :
              /\ c.topics = SubSeq(Full(c.sensor, c.list), k, Len(Full(c.sensor, c.list)))
              /\ context = "valid" =>
                    \A j \in 1..(k - 1) : <<c.sensor, Full(c.sensor, c.list)[j], c.list>> \in published

ThreadsInv ==
    /\ DOMAIN thread = Threads
    /\ \A t \in Threads : thread[t] = Idle \/ BusyInv(t)
    /\ \A t, u \in Threads : t # u /\ thread[t] # Idle /\ thread[u] # Idle =>
          thread[t].list # thread[u].list

PublishedFact(p) ==
    /\ p \in Index \X Topics \X (1..Len(received))
    /\ From(p[1], p[3])
    /\ p[2] \in TopicSet(m_sensors[p[1]].link_type, received[p[3]].list)
    /\ \A t \in Threads : thread[t] # Idle /\ thread[t].list = p[3] => thread[t].sensor = p[1]

PublishedInv == \A p \in published : PublishedFact(p)

\* A topic of the n-th list's is published, or is the next of the thread that works on it.
Followed(p, topics) ==
    \A k \in 1..Len(topics) :
        \/ <<p[1], topics[k], p[3]>> \in published
        \/ /\ k > 1
           /\ \/ fault # "none"
              \/ p[3] \in interrupted
              \/ \E t \in Threads : /\ thread[t].busy
                                    /\ thread[t].list = p[3]
                                    /\ thread[t].topics = SubSeq(topics, k, Len(topics))

HeadersInv == \A p \in published : Followed(p, Full(p[1], p[3]))

\* What a thread published of the list it is still at, it published before the signal.
InterruptedInv ==
    context = "invalid" =>
        \A p \in published : \A t \in Threads :
            thread[t] # Idle /\ thread[t].list = p[3] => p[3] \in interrupted

ShutdownInv ==
    /\ services = "reset" => m_shutdown_requested
    /\ m_shutdown_requested => context = "invalid" /\ setup \in {"running", "destroyed"}
    /\ setup = "destroyed" => context = "invalid"
    /\ context = "valid" => interrupted = {}

\* The list of sensor i was registered, refused, or taken by a later sensor.
Heard(i, list) ==
    \/ [source |-> Source(i, list), sensor |-> i] \in subscriptions \cup refused
    \/ \E j \in Index : /\ j > i
                        /\ Source(j, list) = Source(i, list)
                        /\ [source |-> Source(i, list), sensor |-> j] \in subscriptions

HeardInv ==
    /\ \A i \in Index : i < current \/ (i = current /\ setup \in {"running", "destroyed"}) =>
          \A k \in 1..Len(Callbacks(m_sensors[i])) : Heard(i, Callbacks(m_sensors[i])[k])
    /\ setup = "register" =>
          \A k \in 1..Len(Callbacks(m_sensors[current])) :
              \/ Heard(current, Callbacks(m_sensors[current])[k])
              \/ \E j \in 1..Len(todo) : todo[j] = Callbacks(m_sensors[current])[k]
    /\ setup = "running" => current = NumberOfSensors - 1

IInv ==
    /\ TypeInv
    /\ SubscriptionsInv
    /\ TodoInv
    /\ ThreadsInv
    /\ PublishedInv
    /\ HeadersInv
    /\ InterruptedInv
    /\ FaultHasCause
    /\ ShutdownInv
    /\ SilentAfterReset
    /\ HeardInv

-----------------------------------------------------------------------------
(* Sequences of topics and lists.                                           *)

LEMMA TopicsOfType ==
    \A link, list : /\ TopicsOf(link, list) \in Seq(Topics)
                    /\ Len(TopicsOf(link, list)) <= 2
<1>. TAKE link, list
<1>. DEFINE T == TopicsOf(link, list)
<1>. SUFFICES T \in Seq(Topics) /\ Len(T) <= 2
  OBVIOUS
<1>1. (\E a, b \in Topics : T = <<a, b>>) \/ (\E a \in Topics : T = <<a>>) \/ T = <<>>
  <2>1. /\ "port_objects" \in Topics /\ "port_objectheader" \in Topics
        /\ "port_targets" \in Topics /\ "port_targetheader" \in Topics
        /\ "port_faultreport" \in Topics
        /\ "can_objects" \in Topics /\ "can_objectheader" \in Topics
        /\ "can_targets" \in Topics /\ "can_targetheader" \in Topics
    BY DEF Topics
  <2>2. \/ T = <<"port_objects", "port_objectheader">>
        \/ T = <<"port_targets", "port_targetheader">>
        \/ T = <<"port_faultreport">>
        \/ T = <<"can_objects", "can_objectheader">>
        \/ T = <<"can_targets", "can_targetheader">>
        \/ T = <<>>
    BY DEF TopicsOf
  <2>. HIDE DEF T
  <2>. QED
    BY <2>1, <2>2, Zenon
<1>2. \A a, b \in Topics : <<a, b>> \in Seq(Topics) /\ Len(<<a, b>>) <= 2
  OBVIOUS
<1>3. \A a \in Topics : <<a>> \in Seq(Topics) /\ Len(<<a>>) <= 2
  OBVIOUS
<1>4. <<>> \in Seq(Topics) /\ Len(<<>>) <= 2
  OBVIOUS
<1>. HIDE DEF T
<1>. QED
  BY <1>1, <1>2, <1>3, <1>4, Zenon

LEMMA Suffixes ==
    ASSUME NEW S, NEW s \in Seq(S), NEW k \in 1..Len(s)
    PROVE  LET r == SubSeq(s, k, Len(s))
           IN  /\ r \in Seq(S) \ {<<>>}
               /\ Head(r) = s[k]
               /\ Len(r) = Len(s) - k + 1
               /\ k < Len(s) => Tail(r) = SubSeq(s, k + 1, Len(s))
<1>1. Len(s) \in k..Len(s) /\ \A i \in k..Len(s) : s[i] \in S
  OBVIOUS
<1>2. /\ SubSeq(s, k, Len(s)) \in Seq(S)
      /\ Len(SubSeq(s, k, Len(s))) = Len(s) - k + 1
  BY <1>1, SubSeqProperties
<1>3. /\ Head(SubSeq(s, k, Len(s))) = s[k]
      /\ Tail(SubSeq(s, k, Len(s))) = SubSeq(s, k + 1, Len(s))
  BY <1>1, HeadTailOfSubSeq
<1>4. Len(s) - k + 1 > 0 /\ Len(<<>>) = 0
  OBVIOUS
<1>. QED
  BY <1>2, <1>3, <1>4

LEMMA WholeSuffix ==
    ASSUME NEW S, NEW s \in Seq(S)
    PROVE  SubSeq(s, 1, Len(s)) = s
BY SubSeqFull

LEMMA IdleOrBusy ==
    \A i, topics, n : /\ ~Idle.busy
                      /\ Busy(i, topics, n).busy
                      /\ Busy(i, topics, n) # Idle
                      /\ Busy(i, topics, n).sensor = i
                      /\ Busy(i, topics, n).topics = topics
                      /\ Busy(i, topics, n).list = n
BY DEF Idle, Busy

LEMMA Concatenations ==
    /\ <<"objects", "targets">> \o <<>> = <<"objects", "targets">>
    /\ <<"targets">> \o <<>> = <<"targets">>
    /\ <<"objects", "targets">> \o <<"faults">> = <<"objects", "targets", "faults">>
    /\ <<"targets">> \o <<"faults">> = <<"targets", "faults">>
<1>1. /\ <<"objects", "targets">> \in Seq(Lists)
      /\ <<"targets">> \in Seq(Lists)
      /\ <<"faults">> \in Seq(Lists)
      /\ <<"objects", "targets", "faults">> \in Seq(Lists)
      /\ <<"targets", "faults">> \in Seq(Lists)
  BY DEF Lists
<1>2. ASSUME NEW s \in Seq(Lists) PROVE s \o <<>> = s
  BY ConcatEmptySeq
<1>3. <<"objects", "targets">> \o <<"faults">> = <<"objects", "targets", "faults">>
  <2>. DEFINE s == <<"objects", "targets">> \o <<"faults">>
              t == <<"objects", "targets", "faults">>
  <2>1. s \in Seq(Lists) /\ Len(s) = 3
    BY <1>1, ConcatProperties
  <2>2. s[1] = "objects" /\ s[2] = "targets" /\ s[3] = "faults"
    BY <1>1, ConcatProperties
  <2>3. t \in Seq(Lists) /\ Len(t) = 3
        /\ t[1] = "objects" /\ t[2] = "targets" /\ t[3] = "faults"
    BY <1>1
  <2>. HIDE DEF s, t
  <2>4. \A i \in 1..3 : s[i] = t[i]
    BY <2>2, <2>3
  <2>. QED
    BY <2>1, <2>3, <2>4, SeqEqual DEF s, t
<1>4. <<"targets">> \o <<"faults">> = <<"targets", "faults">>
  <2>. DEFINE s == <<"targets">> \o <<"faults">>
              t == <<"targets", "faults">>
  <2>1. s \in Seq(Lists) /\ Len(s) = 2
    BY <1>1, ConcatProperties
  <2>2. s[1] = "targets" /\ s[2] = "faults"
    BY <1>1, ConcatProperties
  <2>3. t \in Seq(Lists) /\ Len(t) = 2 /\ t[1] = "targets" /\ t[2] = "faults"
    BY <1>1
  <2>. HIDE DEF s, t
  <2>4. \A i \in 1..2 : s[i] = t[i]
    BY <2>2, <2>3
  <2>. QED
    BY <2>1, <2>3, <2>4, SeqEqual DEF s, t
<1>. QED
  BY <1>1, <1>2, <1>3, <1>4

\* The callbacks of a model are of the kinds its publishers are created for.
LEMMA CallbackLists ==
    ASSUME NEW sensor
    PROVE  /\ Callbacks(sensor) \in Seq(Lists)
           /\ \A k \in 1..Len(Callbacks(sensor)) :
                 LET list == Callbacks(sensor)[k]
                 IN  \/ /\ sensor.link_type = "eth"
                        /\ list \in Lists
                        /\ list = "objects" => sensor.model \in PortMse
                        /\ list = "faults" => sensor.model \in FaultCallbacks
                     \/ /\ sensor.link_type = "can"
                        /\ list \in {"objects", "targets"}
                        /\ list = "objects" => sensor.model \in CanMse
           /\ sensor.link_type \notin {"eth", "can"} => Callbacks(sensor) = <<>>
<1>. DEFINE model == sensor.model
            C == Callbacks(sensor)
<1>. SUFFICES /\ C \in Seq(Lists)
              /\ \A k \in 1..Len(C) :
                    \/ /\ sensor.link_type = "eth"
                       /\ C[k] \in Lists
                       /\ C[k] = "objects" => model \in PortMse
                       /\ C[k] = "faults" => model \in FaultCallbacks
                    \/ /\ sensor.link_type = "can"
                       /\ C[k] \in {"objects", "targets"}
                       /\ C[k] = "objects" => model \in CanMse
              /\ sensor.link_type \notin {"eth", "can"} => C = <<>>
  OBVIOUS
<1>1. \/ C = <<>>
      \/ /\ C \in {<<"objects", "targets">>, <<"targets">>}
         /\ sensor.link_type = "can"
         /\ C = <<"objects", "targets">> => model \in CanMse
      \/ /\ C \in {<<"objects", "targets">>, <<"targets">>, <<"objects", "targets", "faults">>,
                   <<"targets", "faults">>}
         /\ sensor.link_type = "eth"
         /\ C \in {<<"objects", "targets">>, <<"objects", "targets", "faults">>} =>
               model \in PortMse
         /\ C \in {<<"targets", "faults">>, <<"objects", "targets", "faults">>} =>
               model \in FaultCallbacks
  <2>1. CASE sensor.link_type = "can"
    <3>1. C = CanCallbacks(model)
      BY <2>1 DEF Callbacks
    <3>. HIDE DEF C
    <3>. QED
      BY <2>1, <3>1 DEF CanCallbacks
  <2>2. CASE sensor.link_type = "eth"
    <3>1. C = PortCallbacks(model)
      BY <2>2 DEF Callbacks
    <3>2. /\ <<"objects", "targets">> \o <<>> = <<"objects", "targets">>
          /\ <<"targets">> \o <<>> = <<"targets">>
          /\ <<"objects", "targets">> \o <<"faults">> = <<"objects", "targets", "faults">>
          /\ <<"targets">> \o <<"faults">> = <<"targets", "faults">>
      BY Concatenations
    <3>. HIDE DEF C
    <3>3. CASE model \notin PortModels
      BY <3>1, <3>3 DEF PortCallbacks
    <3>4. CASE model \in PortModels /\ model \in PortMse /\ model \in FaultCallbacks
      BY <2>2, <3>1, <3>2, <3>4, Zenon DEF PortCallbacks
    <3>5. CASE model \in PortModels /\ model \in PortMse /\ model \notin FaultCallbacks
      <4>1. C = <<"objects", "targets">>
        BY <3>1, <3>2, <3>5, Zenon DEF PortCallbacks
      <4>2. <<"objects", "targets">> \notin {<<"targets", "faults">>,
                                            <<"objects", "targets", "faults">>}
        OBVIOUS
      <4>. QED
        BY <2>2, <3>5, <4>1, <4>2, Zenon
    <3>6. CASE model \in PortModels /\ model \notin PortMse /\ model \in FaultCallbacks
      <4>1. C = <<"targets", "faults">>
        BY <3>1, <3>2, <3>6, Zenon DEF PortCallbacks
      <4>2. <<"targets", "faults">> \notin {<<"objects", "targets">>,
                                           <<"objects", "targets", "faults">>}
        OBVIOUS
      <4>. QED
        BY <2>2, <3>6, <4>1, <4>2, Zenon
    <3>7. CASE model \in PortModels /\ model \notin PortMse /\ model \notin FaultCallbacks
      <4>1. C = <<"targets">>
        BY <3>1, <3>2, <3>7, Zenon DEF PortCallbacks
      <4>2. <<"targets">> \notin {<<"targets", "faults">>, <<"objects", "targets">>,
                                 <<"objects", "targets", "faults">>}
        OBVIOUS
      <4>. QED
        BY <2>2, <3>7, <4>1, <4>2, Zenon
    <3>. QED
      BY <3>3, <3>4, <3>5, <3>6, <3>7
  <2>3. CASE sensor.link_type \notin {"eth", "can"}
    BY <2>3 DEF Callbacks
  <2>. QED
    BY <2>1, <2>2, <2>3
<1>2. sensor.link_type \notin {"eth", "can"} => C = <<>>
  BY DEF Callbacks
<1>. HIDE DEF C
<1>. DEFINE L1 == <<"targets">>
            L2 == <<"objects", "targets">>
            L3 == <<"targets", "faults">>
            L4 == <<"objects", "targets", "faults">>
<1>3. CASE C = <<>>
  BY <1>2, <1>3
<1>4. CASE C = L1
  BY <1>1, <1>2, <1>4 DEF Lists
<1>5. CASE C = L2
  <2>1. /\ Len(C) = 2 /\ C[1] = "objects" /\ C[2] = "targets" /\ C \in Seq(Lists)
    BY <1>5 DEF Lists
  <2>. QED
    BY <1>1, <1>2, <1>5, <2>1 DEF Lists
<1>6. CASE C = L3
  <2>1. /\ Len(C) = 2 /\ C[1] = "targets" /\ C[2] = "faults" /\ C \in Seq(Lists)
    BY <1>6 DEF Lists
  <2>. QED
    BY <1>1, <1>2, <1>6, <2>1 DEF Lists
<1>7. CASE C = L4
  <2>1. /\ Len(C) = 3 /\ C[1] = "objects" /\ C[2] = "targets" /\ C[3] = "faults"
        /\ C \in Seq(Lists)
    BY <1>7 DEF Lists
  <2>. QED
    BY <1>1, <1>2, <1>7, <2>1 DEF Lists
<1>. QED
  BY <1>1, <1>3, <1>4, <1>5, <1>6, <1>7, Zenon

-----------------------------------------------------------------------------
(* What a step leaves of the invariant that it does not touch.              *)

\* The set-up moves on, and the publishers of the sensors it has passed stay.
Onward ==
    /\ m_sensors' = m_sensors
    /\ \A i \in Index : SetUp(i) => SetUp(i)' /\ publishers'[i] = publishers[i]

LEMMA CallbackFrame ==
    ASSUME ThreadsInv, PublishedInv, HeadersInv, InterruptedInv, Onward, UNCHANGED callbackVars,
           UNCHANGED <<context, interrupted>>
    PROVE  (ThreadsInv /\ PublishedInv /\ HeadersInv /\ InterruptedInv)'
<1>1. UNCHANGED <<m_sensors, thread, received, published, fault>>
  BY DEF Onward, callbackVars
<1>2. ASSUME NEW t \in Threads, BusyInv(t) PROVE BusyInv(t)'
  <2>1. \A i \in Index : \A list : SetUp(i) /\ HasPublishers(i, list) => HasPublishers(i, list)'
    BY <1>1 DEF Onward, HasPublishers
  <2>. QED
    BY <1>1, <1>2, <2>1 DEF Onward, BusyInv, From, Source, Full
<1>3. ThreadsInv'
  BY <1>1, <1>2 DEF ThreadsInv
<1>4. PublishedInv'
  BY <1>1 DEF PublishedInv, PublishedFact, From, Source
<1>5. HeadersInv'
  BY <1>1 DEF HeadersInv, Followed, Full
<1>6. InterruptedInv'
  BY <1>1 DEF InterruptedInv
<1>. QED
  BY <1>3, <1>4, <1>5, <1>6

LEMMA SubscriptionFrame ==
    ASSUME SubscriptionsInv, Onward, NEW s \in subscriptions
    PROVE  /\ s \in Entry
           /\ SetUp(s.sensor)'
           /\ s.source = Source(s.sensor, s.source.list)'
           /\ TopicsOf(m_sensors[s.sensor].link_type, s.source.list)' # <<>>
           /\ HasPublishers(s.sensor, s.source.list)'
<1>1. s.sensor \in Index
  BY DEF SubscriptionsInv, Entry
<1>. QED
  BY <1>1 DEF SubscriptionsInv, Onward, HasPublishers, Source

\* A list that is heard stays heard while registrations are only added, or replaced by
\* those of later sensors.
LEMMA HeardFrame ==
    ASSUME m_sensors' = m_sensors, UNCHANGED <<subscriptions, refused>>, NEW i, NEW list,
           Heard(i, list)
    PROVE  Heard(i, list)'
BY DEF Heard, Source

-----------------------------------------------------------------------------
(* The invariant is inductive.                                              *)

LEMMA IndexFacts ==
    /\ NumberOfSensors \in Nat \ {0}
    /\ Index = 0..(NumberOfSensors - 1)
    /\ 0 \in Index
BY DataPathAssumption DEF Index

LEMMA InitIInv == Init => IInv
<1>. SUFFICES ASSUME Init PROVE IInv
  OBVIOUS
<1>. USE IndexFacts
<1>1. TypeInv
  <2>1. <<>> \in Seq(Lists) /\ <<>> \in Seq(Names) /\ Len(<<>>) = 0
    OBVIOUS
  <2>2. m_sensors \in [Index -> SensorConfig] /\ MaxLists \in Nat
    BY DataPathAssumption DEF Init
  <2>3. publishers \in [Index -> SUBSET Topics]
    BY DEF Init
  <2>4. interrupted \subseteq 1..Len(received)
    BY DEF Init
  <2>5. current \in Index /\ todo \in Seq(Lists) /\ refused \subseteq Entry
    BY <2>1 DEF Init
  <2>6. received \in Seq(Names) /\ Len(received) <= MaxLists
    BY <2>1, <2>2 DEF Init
  <2>7. /\ setup = "validate" /\ context = "valid" /\ services = "up" /\ fault = "none"
        /\ m_shutdown_requested = FALSE
    BY DEF Init
  <2>. QED
    BY <2>2, <2>3, <2>4, <2>5, <2>6, <2>7 DEF TypeInv
<1>2. SubscriptionsInv /\ TodoInv
  BY DEF Init, SubscriptionsInv, TodoInv
<1>3. ThreadsInv
  BY DEF Init, ThreadsInv
<1>4. PublishedInv /\ HeadersInv /\ InterruptedInv
  BY DEF Init, PublishedInv, HeadersInv, InterruptedInv
<1>5. HeardInv
  BY DEF Init, HeardInv
<1>6. SilentAfterReset
  BY DEF Init, SilentAfterReset
<1>. QED
  BY <1>1, <1>2, <1>3, <1>4, <1>5, <1>6 DEF Init, IInv, FaultHasCause, ShutdownInv

\* The loop leaves a sensor whose lists are all heard.
LEMMA NextSensorIInv ==
    ASSUME IInv, NextSensor(current), setup \in {"validate", "register"},
           UNCHANGED <<m_sensors, todo, publishers, subscriptions, refused, shutdownVars,
                       callbackVars>>,
           \A k \in 1..Len(Callbacks(m_sensors[current])) :
              Heard(current, Callbacks(m_sensors[current])[k])
    PROVE  IInv'
<1>1. UNCHANGED <<m_sensors, todo, publishers, subscriptions, refused, m_shutdown_requested,
                  services, context, interrupted>> /\ UNCHANGED callbackVars
  BY DEF shutdownVars, contextVars
<1>2. current \in Nat /\ current < NumberOfSensors /\ NumberOfSensors \in Nat
  <2>1. current \in Index
    BY DEF IInv, TypeInv
  <2>. QED
    BY <2>1, IndexFacts
<1>3. \/ current' = current + 1 /\ setup' = "validate" /\ current' < NumberOfSensors
      \/ current' = current /\ setup' = "running" /\ current = NumberOfSensors - 1
  BY <1>2 DEF NextSensor
<1>4. Onward
  BY <1>1, <1>2, <1>3, IndexFacts DEF Onward, SetUp
<1>5. (ThreadsInv /\ PublishedInv /\ HeadersInv /\ InterruptedInv)'
  BY <1>1, <1>4, CallbackFrame DEF IInv
<1>6. SubscriptionsInv'
  BY <1>1, <1>4, SubscriptionFrame DEF IInv, SubscriptionsInv
<1>7. HeardInv'
  <2>1. \A i, list : Heard(i, list) => Heard(i, list)'
    BY <1>1, HeardFrame
  <2>2. \A i \in Index : i < current \/ i = current =>
           \A k \in 1..Len(Callbacks(m_sensors[i])) : Heard(i, Callbacks(m_sensors[i])[k])
    BY DEF IInv, HeardInv
  <2>3. \A i \in Index : i < current' \/ (i = current' /\ setup' \in {"running", "destroyed"}) =>
           i < current \/ i = current
    BY <1>2, <1>3, IndexFacts
  <2>. QED
    BY <1>1, <1>3, <2>1, <2>2, <2>3 DEF HeardInv
<1>8. TypeInv' /\ TodoInv'
  <2>1. current' \in Index /\ setup' \in {"validate", "running"}
    BY <1>2, <1>3, IndexFacts
  <2>. QED
    BY <1>1, <2>1 DEF IInv, TypeInv, TodoInv, callbackVars
<1>9. (FaultHasCause /\ ShutdownInv /\ SilentAfterReset)'
  BY <1>1, <1>3 DEF IInv, FaultHasCause, ShutdownInv, SilentAfterReset, callbackVars
<1>. QED
  BY <1>5, <1>6, <1>7, <1>8, <1>9 DEF IInv

LEMMA SkipSensorIInv == IInv /\ SkipSensor => IInv'
<1>. SUFFICES ASSUME IInv, SkipSensor PROVE IInv'
  OBVIOUS
<1>1. Callbacks(m_sensors[current]) = <<>>
  BY CallbackLists DEF SkipSensor
<1>2. Len(<<>>) = 0
  OBVIOUS
<1>. QED
  BY <1>1, <1>2, NextSensorIInv DEF SkipSensor

LEMMA RegisteredIInv == IInv /\ Registered => IInv'
<1>. SUFFICES ASSUME IInv, Registered PROVE IInv'
  OBVIOUS
<1>1. setup = "register" /\ todo = <<>>
  BY DEF Registered
<1>2. \A j \in 1..Len(todo) : FALSE
  BY <1>1
<1>3. \A k \in 1..Len(Callbacks(m_sensors[current])) :
         Heard(current, Callbacks(m_sensors[current])[k])
  BY <1>1, <1>2, Zenon DEF IInv, HeardInv
<1>. QED
  BY <1>1, <1>3, NextSensorIInv DEF Registered

\* A constructor that throws leaves behind what the library holds.
LEMMA ThrowIInv ==
    ASSUME IInv, setup = "validate", setup' = "threw",
           UNCHANGED <<m_sensors, current, todo, publishers, subscriptions, refused, shutdownVars,
                       callbackVars>>
    PROVE  IInv'
<1>1. /\ UNCHANGED <<m_sensors, current, todo, publishers, subscriptions, refused,
                     m_shutdown_requested, services, context, interrupted>>
      /\ UNCHANGED callbackVars
  BY DEF shutdownVars, contextVars
<1>2. Onward
  BY <1>1 DEF Onward, SetUp
<1>3. (ThreadsInv /\ PublishedInv /\ HeadersInv /\ InterruptedInv)'
  BY <1>1, <1>2, CallbackFrame DEF IInv
<1>4. SubscriptionsInv'
  BY <1>1, <1>2, SubscriptionFrame DEF IInv, SubscriptionsInv
<1>5. HeardInv'
  <2>1. \A i, list : Heard(i, list) => Heard(i, list)'
    BY <1>1, HeardFrame
  <2>. QED
    BY <1>1, <2>1 DEF IInv, HeardInv
<1>6. TypeInv' /\ TodoInv'
  BY <1>1 DEF IInv, TypeInv, TodoInv, callbackVars
<1>7. (FaultHasCause /\ ShutdownInv /\ SilentAfterReset)'
  BY <1>1 DEF IInv, FaultHasCause, ShutdownInv, SilentAfterReset, callbackVars
<1>. QED
  BY <1>3, <1>4, <1>5, <1>6, <1>7 DEF IInv

LEMMA RejectSensorIInv == IInv /\ RejectSensor => IInv'
BY ThrowIInv DEF RejectSensor

\* The publishers of a sensor are created before any callback of it is there.
LEMMA CreatePublishersIInv ==
    ASSUME IInv, NEW topics \in SUBSET Topics, setup = "validate",
           CreatePublishers(topics, Callbacks(m_sensors[current])),
           \A k \in 1..Len(Callbacks(m_sensors[current])) :
              LET sensor == m_sensors[current]
                  list == Callbacks(sensor)[k]
              IN  /\ TopicsOf(sensor.link_type, list) # <<>>
                  /\ \/ TopicSet(sensor.link_type, list) \subseteq topics
                     \/ sensor.link_type = "can" /\ ~KnownPubType(sensor)
    PROVE  IInv'
<1>1. ASSUME context = "invalid" /\ topics # {} PROVE IInv'
  BY <1>1, ThrowIInv DEF CreatePublishers
<1>. SUFFICES ASSUME ~(context = "invalid" /\ topics # {}) PROVE IInv'
  BY <1>1
<1>2. /\ UNCHANGED <<m_sensors, current, subscriptions, refused, m_shutdown_requested, services, context, interrupted>>
      /\ UNCHANGED callbackVars
      /\ todo' = Callbacks(m_sensors[current])
      /\ setup' = "register"
      /\ publishers' = [publishers EXCEPT ![current] = topics]
  BY DEF CreatePublishers, shutdownVars, contextVars
<1>3. current \in Index /\ publishers \in [Index -> SUBSET Topics]
  BY DEF IInv, TypeInv
<1>4. publishers' \in [Index -> SUBSET Topics] /\ publishers'[current] = topics
  BY <1>2, <1>3
<1>5. Onward
  BY <1>2, <1>3, IndexFacts DEF Onward, SetUp
<1>6. (ThreadsInv /\ PublishedInv /\ HeadersInv /\ InterruptedInv)'
  BY <1>2, <1>5, CallbackFrame DEF IInv
<1>7. SubscriptionsInv'
  BY <1>2, <1>5, SubscriptionFrame DEF IInv, SubscriptionsInv
<1>8. HeardInv'
  <2>1. \A i, list : Heard(i, list) => Heard(i, list)'
    BY <1>2, HeardFrame
  <2>. QED
    BY <1>2, <2>1 DEF IInv, HeardInv
<1>9. TypeInv'
  <2>1. todo' \in Seq(Lists)
    BY <1>2, CallbackLists
  <2>. QED
    BY <1>2, <1>4, <2>1 DEF IInv, TypeInv, callbackVars
<1>10. TodoInv'
  BY <1>2, <1>4 DEF TodoInv, HasPublishers
<1>11. (FaultHasCause /\ ShutdownInv /\ SilentAfterReset)'
  BY <1>2 DEF IInv, FaultHasCause, ShutdownInv, SilentAfterReset, callbackVars
<1>. QED
  BY <1>6, <1>7, <1>8, <1>9, <1>10, <1>11 DEF IInv

LEMMA TopicSetIsTyped == \A link, list : TopicSet(link, list) \subseteq Topics
BY TopicsOfType DEF TopicSet

LEMMA PortPublishersIInv == IInv /\ PortPublishers => IInv'
<1>. SUFFICES ASSUME IInv, PortPublishers PROVE IInv'
  OBVIOUS
<1>. DEFINE sensor == m_sensors[current]
            topics == (IF sensor.pub_type = "mse" THEN TopicSet("eth", "objects") ELSE {})
                      \cup TopicSet("eth", "targets")
                      \cup (IF SupportsFaultReports(sensor.model) THEN {"port_faultreport"} ELSE {})
<1>1. /\ setup = "validate" /\ Valid(sensor) /\ sensor.link_type = "eth"
      /\ CreatePublishers(topics, PortCallbacks(sensor.model))
  BY DEF PortPublishers
<1>2. Callbacks(sensor) = PortCallbacks(sensor.model)
  BY <1>1 DEF Callbacks
<1>3. topics \in SUBSET Topics
  BY TopicSetIsTyped DEF Topics
<1>4. ASSUME NEW k \in 1..Len(Callbacks(sensor))
      PROVE  /\ TopicsOf("eth", Callbacks(sensor)[k]) # <<>>
             /\ TopicSet("eth", Callbacks(sensor)[k]) \subseteq topics
  <2>. DEFINE list == Callbacks(sensor)[k]
  <2>1. /\ list \in {"objects", "targets", "faults"}
        /\ list = "objects" => sensor.model \in PortMse
        /\ list = "faults" => sensor.model \in FaultCallbacks
    BY <1>1, <1>4, CallbackLists DEF Lists
  <2>. HIDE DEF list
  <2>2. CASE list = "objects"
    <3>1. sensor.pub_type = "mse"
      BY <1>1, <2>1, <2>2 DEF Valid, NamedMse
    <3>. QED
      BY <2>2, <3>1 DEF TopicsOf, list
  <2>3. CASE list = "targets"
    BY <2>3 DEF TopicsOf, list
  <2>4. CASE list = "faults"
    <3>1. SupportsFaultReports(sensor.model)
      BY <2>1, <2>4 DEF FaultCallbacks, SupportsFaultReports
    <3>2. TopicsOf("eth", "faults") = <<"port_faultreport">>
      BY DEF TopicsOf
    <3>3. TopicSet("eth", "faults") \subseteq {"port_faultreport"}
      BY <3>2 DEF TopicSet
    <3>. QED
      BY <2>4, <3>1, <3>2, <3>3 DEF list
  <2>. QED
    BY <2>1, <2>2, <2>3, <2>4 DEF list
<1>. HIDE DEF topics
<1>. QED
  BY <1>1, <1>2, <1>3, <1>4, CreatePublishersIInv

LEMMA CanPublishersIInv == IInv /\ CanPublishers => IInv'
<1>. SUFFICES ASSUME IInv, CanPublishers PROVE IInv'
  OBVIOUS
<1>. DEFINE sensor == m_sensors[current]
            topics == (IF sensor.pub_type = "mse" THEN TopicSet("can", "objects") ELSE {})
                      \cup (IF KnownPubType(sensor) THEN TopicSet("can", "targets") ELSE {})
<1>1. /\ setup = "validate" /\ Valid(sensor) /\ sensor.link_type = "can"
      /\ CreatePublishers(topics, CanCallbacks(sensor.model))
  BY DEF CanPublishers
<1>2. Callbacks(sensor) = CanCallbacks(sensor.model)
  BY <1>1 DEF Callbacks
<1>3. topics \in SUBSET Topics
  BY TopicSetIsTyped
<1>4. ASSUME NEW k \in 1..Len(Callbacks(sensor))
      PROVE  /\ TopicsOf("can", Callbacks(sensor)[k]) # <<>>
             /\ \/ TopicSet("can", Callbacks(sensor)[k]) \subseteq topics
                \/ ~KnownPubType(sensor)
  <2>. DEFINE list == Callbacks(sensor)[k]
  <2>1. /\ list \in {"objects", "targets"}
        /\ list = "objects" => sensor.model \in CanMse
    BY <1>1, <1>4, CallbackLists
  <2>. HIDE DEF list
  <2>2. CASE list = "objects"
    <3>1. sensor.pub_type = "mse"
      BY <1>1, <2>1, <2>2 DEF Valid, NamedMse
    <3>. QED
      BY <2>2, <3>1 DEF TopicsOf, list
  <2>3. CASE list = "targets"
    BY <2>3 DEF TopicsOf, list
  <2>. QED
    BY <2>1, <2>2, <2>3 DEF list
<1>. HIDE DEF topics
<1>. QED
  BY <1>1, <1>2, <1>3, <1>4, CreatePublishersIInv

LEMMA RegisterIInv == IInv /\ Register => IInv'
<1>. SUFFICES ASSUME IInv, Register PROVE IInv'
  OBVIOUS
<1>a. PICK list : list = todo[1]
  OBVIOUS
<1>b. PICK source : source = Source(current, list)
  OBVIOUS
<1>c. PICK entry : entry = [source |-> source, sensor |-> current]
  OBVIOUS
<1>1. /\ UNCHANGED <<m_sensors, setup, current, publishers, m_shutdown_requested, services, context, interrupted>>
      /\ UNCHANGED callbackVars
      /\ setup = "register"
  BY DEF Register, shutdownVars, contextVars
<1>2. todo \in Seq(Lists) /\ todo # <<>> /\ current \in Index
      /\ m_sensors \in [Index -> SensorConfig] /\ refused \subseteq Entry
  BY DEF IInv, TypeInv, Register
<1>3. /\ Len(todo) > 0 /\ Head(todo) = list /\ list \in Lists
      /\ todo' \in Seq(Lists)
      /\ Len(todo') = Len(todo) - 1
      /\ \A j \in 1..Len(todo') : todo'[j] = todo[j + 1]
  BY <1>2, <1>a, HeadTailProperties DEF Register
<1>4. \/ /\ subscriptions' = {s \in subscriptions : s.source # source} \cup {entry}
         /\ refused' = refused
      \/ /\ subscriptions' = subscriptions
         /\ refused' = refused \cup {entry}
  BY <1>3, <1>b, <1>c DEF Register
<1>5. entry \in Entry /\ entry.source = source /\ entry.sensor = current
  BY <1>2, <1>3, <1>b, <1>c DEF Entry, Source, SensorConfig
<1>6. source.list = list
  BY <1>b DEF Source
<1>7. Onward
  BY <1>1 DEF Onward, SetUp
<1>8. (ThreadsInv /\ PublishedInv /\ HeadersInv /\ InterruptedInv)'
  BY <1>1, <1>7, CallbackFrame DEF IInv
<1>9. SubscriptionsInv'
  <2>1. /\ SetUp(entry.sensor)'
        /\ entry.source = Source(entry.sensor, entry.source.list)'
        /\ TopicsOf(m_sensors[entry.sensor].link_type, entry.source.list)' # <<>>
        /\ HasPublishers(entry.sensor, entry.source.list)'
    <3>1. /\ TopicsOf(m_sensors[current].link_type, list) # <<>>
          /\ HasPublishers(current, list)
      BY <1>1, <1>3, <1>a DEF IInv, TodoInv
    <3>2. SetUp(current)
      BY <1>1 DEF SetUp
    <3>. QED
      BY <1>1, <1>5, <1>6, <1>b, <3>1, <3>2 DEF SetUp, HasPublishers, Source
  <2>2. \A s \in subscriptions' : s \in subscriptions \/ s = entry
    BY <1>4
  <2>. QED
    BY <1>5, <1>7, <2>1, <2>2, SubscriptionFrame DEF IInv, SubscriptionsInv
<1>10. TodoInv'
  <2>1. \A j \in 1..Len(todo') : j + 1 \in 1..Len(todo)
    BY <1>3
  <2>. QED
    BY <1>1, <1>3, <2>1 DEF IInv, TodoInv, HasPublishers
<1>11. HeardInv'
  <2>1. Heard(current, list)'
    BY <1>1, <1>4, <1>2, <1>b, <1>c DEF Heard, Source
  <2>2. ASSUME NEW i \in Index, NEW l, i <= current, Heard(i, l) PROVE Heard(i, l)'
    <3>1. \A j : Source(j, l)' = Source(j, l)
      BY <1>1 DEF Source
    <3>2. ASSUME NEW j \in Index, j >= i, Source(j, l) = Source(i, l),
                 [source |-> Source(i, l), sensor |-> j] \in subscriptions
          PROVE  Heard(i, l)'
      <4>. DEFINE e == [source |-> Source(i, l), sensor |-> j]
      <4>1. CASE e \in subscriptions'
        <5>1. j = i \/ j > i
          BY <3>2, IndexFacts
        <5>. QED
          BY <3>1, <3>2, <4>1, <5>1 DEF Heard
      <4>2. CASE e \notin subscriptions'
        <5>1. e.source = source /\ entry \in subscriptions'
          BY <1>4, <3>2, <4>2
        <5>2. Source(i, l) = source /\ l = list
          BY <5>1, <1>b DEF Source
        <5>3. entry = [source |-> Source(i, l), sensor |-> current]
          BY <5>2, <1>c
        <5>4. current = i \/ current > i
          BY <1>2, <2>2, IndexFacts
        <5>5. Source(current, l) = Source(i, l)
          BY <1>b, <5>2
        <5>. QED
          BY <1>2, <3>1, <5>1, <5>3, <5>4, <5>5 DEF Heard
      <4>. QED
        BY <4>1, <4>2
    <3>3. ASSUME [source |-> Source(i, l), sensor |-> i] \in refused PROVE Heard(i, l)'
      BY <1>4, <3>1, <3>3 DEF Heard
    <3>4. i >= i /\ \A j \in Index : j > i => j >= i
      BY IndexFacts
    <3>. QED
      BY <2>2, <3>2, <3>3, <3>4 DEF Heard
  <2>3. \A i \in Index : i < current => i <= current
    BY <1>2, IndexFacts
  <2>4. current <= current
    BY <1>2, IndexFacts
  <2>5. \A i \in Index : i < current =>
           \A k \in 1..Len(Callbacks(m_sensors[i])) : Heard(i, Callbacks(m_sensors[i])[k])'
    BY <1>1, <2>2, <2>3 DEF IInv, HeardInv
  <2>6. ASSUME NEW k \in 1..Len(Callbacks(m_sensors[current]))
        PROVE  \/ Heard(current, Callbacks(m_sensors[current])[k])'
               \/ \E j \in 1..Len(todo') : todo'[j] = Callbacks(m_sensors[current])[k]
    <3>1. CASE Heard(current, Callbacks(m_sensors[current])[k])
      BY <1>1, <1>2, <2>2, <2>4, <3>1
    <3>2. ASSUME NEW j \in 1..Len(todo), todo[j] = Callbacks(m_sensors[current])[k]
          PROVE  <2>6!2
      <4>1. CASE j = 1
        BY <1>1, <1>a, <2>1, <3>2, <4>1
      <4>2. CASE j # 1
        <5>1. j - 1 \in 1..Len(todo') /\ todo'[j - 1] = todo[j]
          BY <1>3, <4>2
        <5>. QED
          BY <3>2, <5>1
      <4>. QED
        BY <4>1, <4>2
    <3>. QED
      BY <1>1, <3>1, <3>2 DEF IInv, HeardInv
  <2>. QED
    BY <1>1, <2>5, <2>6 DEF HeardInv
<1>12. TypeInv'
  BY <1>1, <1>3, <1>4, <1>5 DEF IInv, TypeInv, callbackVars
<1>13. (FaultHasCause /\ ShutdownInv /\ SilentAfterReset)'
  BY <1>1 DEF IInv, FaultHasCause, ShutdownInv, SilentAfterReset, callbackVars
<1>. QED
  BY <1>8, <1>9, <1>10, <1>11, <1>12, <1>13 DEF IInv

\* The steps of the threads leave the set-up and the table of the library alone.
LEMMA Upto == \A m, n \in Nat : (m <= n => 1..m \subseteq 1..n) /\ m <= m
OBVIOUS

\* Lists are only ever appended to those received.
LEMMA LenReceived ==
    IInv => /\ received \in Seq(Names)
            /\ Len(received) \in Nat
            /\ Len(received) <= Len(received)
            /\ Len(received) <= MaxLists
<1>. SUFFICES ASSUME IInv
     PROVE  /\ received \in Seq(Names)
            /\ Len(received) \in Nat
            /\ Len(received) <= Len(received)
            /\ Len(received) <= MaxLists
  OBVIOUS
<1>1. received \in Seq(Names) /\ Len(received) <= MaxLists
  BY DEF IInv, TypeInv
<1>2. Len(received) \in Nat
  BY <1>1, LenProperties
<1>. QED
  BY <1>1, <1>2, Upto, Zenon

LEMMA SetupFrame ==
    ASSUME IInv, UNCHANGED <<setupVars, subscriptions, refused, shutdownVars>>,
           received' \in Seq(Names), Len(received) <= Len(received'), Len(received') <= MaxLists,
           fault' \in {"none", "null publisher", "destroyed node"}
    PROVE  (TypeInv /\ SubscriptionsInv /\ TodoInv /\ ShutdownInv /\ HeardInv)'
<1>1. UNCHANGED <<m_sensors, setup, current, todo, publishers, subscriptions, refused,
                  m_shutdown_requested, services, context, interrupted>>
  BY DEF setupVars, shutdownVars, contextVars
<1>2. TypeInv'
  <2>1. Len(received) \in Nat /\ Len(received') \in Nat
    BY LenReceived, LenProperties
  <2>2. 1..Len(received) \subseteq 1..Len(received')
    BY <2>1, Upto, Zenon
  <2>. QED
    BY <1>1, <2>2 DEF IInv, TypeInv
<1>3. SubscriptionsInv'
  BY <1>1 DEF IInv, SubscriptionsInv, SetUp, Source, HasPublishers
<1>4. TodoInv' /\ ShutdownInv'
  BY <1>1 DEF IInv, TodoInv, HasPublishers, ShutdownInv
<1>5. HeardInv'
  <2>1. \A i, list : Heard(i, list) => Heard(i, list)'
    BY <1>1, HeardFrame
  <2>. QED
    BY <1>1, <2>1 DEF IInv, HeardInv
<1>. QED
  BY <1>2, <1>3, <1>4, <1>5

\* A thread that is not idle is in the state Busy describes.
LEMMA BusyShape ==
    ASSUME IInv, NEW t \in Threads
    PROVE  /\ thread[t].busy => thread[t] # Idle /\ BusyInv(t)
           /\ ~thread[t].busy => thread[t] = Idle
           /\ thread[t] = Idle \/ BusyInv(t)
<1>1. thread[t] = Idle \/ BusyInv(t)
  BY DEF IInv, ThreadsInv
<1>2. BusyInv(t) => thread[t] = Busy(thread[t].sensor, thread[t].topics, thread[t].list)
  BY DEF BusyInv
<1>3. BusyInv(t) => thread[t].busy /\ thread[t] # Idle
  BY <1>2, IdleOrBusy
<1>4. thread[t] = Idle => ~thread[t].busy
  BY IdleOrBusy
<1>. QED
  BY <1>1, <1>3, <1>4

LEMMA CallbackIInv ==
    ASSUME IInv, NEW t \in Threads, NEW s \in subscriptions, Callback(t, s)
    PROVE  IInv'
<1>1. /\ fault = "none" /\ ~thread[t].busy
      /\ UNCHANGED <<m_sensors, setup, current, todo, publishers, subscriptions, refused,
                     m_shutdown_requested, services, context, interrupted, published>>
  BY DEF Callback, setupVars, shutdownVars, contextVars
<1>2. PICK n : n = Len(received')
  OBVIOUS
<1>3. received \in Seq(Names) /\ s.source \in Names /\ MaxLists \in Nat /\ Len(received) < MaxLists
  BY DataPathAssumption DEF IInv, TypeInv, SubscriptionsInv, Entry, Names, Callback
<1>4. /\ received' \in Seq(Names) /\ n = Len(received) + 1 /\ n \in 1..MaxLists
      /\ received'[n] = s.source
      /\ \A k \in 1..Len(received) : k \in 1..n /\ k # n /\ received'[k] = received[k]
  <2>1. received' = Append(received, s.source)
    BY DEF Callback
  <2>2. /\ received' \in Seq(Names) /\ Len(received') = Len(received) + 1
        /\ received'[Len(received) + 1] = s.source
        /\ \A k \in 1..Len(received) : received'[k] = received[k]
    BY <1>3, <2>1, AppendProperties
  <2>. QED
    BY <1>2, <1>3, <2>2
<1>5. /\ s \in Entry /\ SetUp(s.sensor)
      /\ s.source = Source(s.sensor, s.source.list)
      /\ TopicsOf(m_sensors[s.sensor].link_type, s.source.list) # <<>>
      /\ HasPublishers(s.sensor, s.source.list)
  BY DEF IInv, SubscriptionsInv
<1>6. \A i \in Index, k \in 1..Len(received) :
         Full(i, k)' = Full(i, k) /\ (From(i, k) => From(i, k)')
  BY <1>1, <1>4 DEF Full, From, Source
<1>7. (TypeInv /\ SubscriptionsInv /\ TodoInv /\ ShutdownInv /\ HeardInv)'
  <2>1. Len(received') <= MaxLists
    BY <1>2, <1>4, <1>3
  <2>2. fault' \in {"none", "destroyed node"}
    BY <1>1 DEF Callback
  <2>3. UNCHANGED <<setupVars, subscriptions, refused, shutdownVars>>
    BY DEF Callback
  <2>. QED
    <3>1. received' \in Seq(Names) /\ Len(received) <= Len(received')
      BY <1>2, <1>4, LenReceived
    <3>. QED
      BY <2>1, <2>2, <2>3, <3>1, SetupFrame
<1>8. ASSUME NEW u \in Threads, BusyInv(u), thread'[u] = thread[u] PROVE BusyInv(u)'
  <2>1. thread[u].list \in 1..Len(received) /\ thread[u].sensor \in Index
    BY <1>8 DEF BusyInv
  <2>2. thread[u].list \in 1..Len(received')
    BY <2>1, <1>2, <1>4
  <2>. QED
    BY <1>1, <1>4, <1>6, <1>8, <2>1, <2>2 DEF BusyInv, SetUp, HasPublishers
<1>9. ASSUME thread' = thread PROVE ThreadsInv'
  BY <1>8, <1>9 DEF IInv, ThreadsInv
<1>10. ASSUME thread' = [thread EXCEPT ![t] =
                 Busy(s.sensor, TopicsOf(m_sensors[s.sensor].link_type, s.source.list), n)]
       PROVE  ThreadsInv'
  <2>. DEFINE F == TopicsOf(m_sensors[s.sensor].link_type, s.source.list)
  <2>1. DOMAIN thread' = Threads /\ thread'[t] = Busy(s.sensor, F, n)
        /\ \A u \in Threads \ {t} : thread'[u] = thread[u]
    BY <1>10 DEF IInv, ThreadsInv
  <2>2. thread'[t].sensor = s.sensor /\ thread'[t].topics = F /\ thread'[t].list = n
    BY <2>1, IdleOrBusy
  <2>3. BusyInv(t)'
    <3>1. Full(s.sensor, n)' = F
      BY <1>1, <1>4 DEF Full
    <3>2. F \in Seq(Topics) /\ F # <<>>
      BY <1>5, TopicsOfType
    <3>3. SubSeq(F, 1, Len(F)) = F /\ 1 \in 1..Len(F)
      BY <3>2, WholeSuffix
    <3>4. \A j \in 1..(1 - 1) : FALSE
      OBVIOUS
    <3>5. From(s.sensor, n)'
      BY <1>1, <1>4, <1>5 DEF From, Source
    <3>6. /\ SetUp(s.sensor)' /\ HasPublishers(s.sensor, s.source.list)'
          /\ received'[n].list = s.source.list
      BY <1>1, <1>4, <1>5 DEF SetUp, HasPublishers
    <3>7. s.sensor \in Index /\ n \in 1..Len(received')
      BY <1>2, <1>4, <1>5 DEF Entry
    <3>. HIDE DEF F
    <3>. QED
      BY <1>4, <2>1, <2>2, <3>1, <3>3, <3>4, <3>5, <3>6, <3>7 DEF BusyInv
  <2>4. \A u \in Threads \ {t} : thread[u] # Idle => thread[u].list # n
    BY <1>4 DEF IInv, ThreadsInv, BusyInv
  <2>. HIDE DEF F
  <2>. QED
    BY <2>1, <2>2, <2>3, <2>4, <1>8 DEF IInv, ThreadsInv
<1>11. /\ \/ thread' = thread
          \/ /\ thread' = [thread EXCEPT ![t] =
                   Busy(s.sensor, TopicsOf(m_sensors[s.sensor].link_type, s.source.list), n)]
             /\ ~m_shutdown_requested
       /\ ThreadsInv'
  BY <1>2, <1>9, <1>10 DEF Callback
<1>12. \A u \in Threads : thread'[u] = thread[u] \/ (thread[u] = Idle /\ thread'[u].list = n)
  <2>1. thread[t] = Idle
    BY <1>1, BusyShape
  <2>2. CASE thread' = thread
    BY <2>2
  <2>3. CASE thread' = [thread EXCEPT ![t] =
                 Busy(s.sensor, TopicsOf(m_sensors[s.sensor].link_type, s.source.list), n)]
    <3>1. /\ thread'[t] = Busy(s.sensor, TopicsOf(m_sensors[s.sensor].link_type, s.source.list), n)
          /\ \A u \in Threads \ {t} : thread'[u] = thread[u]
      BY <2>3 DEF IInv, ThreadsInv
    <3>2. thread'[t].list = n
      BY <3>1, IdleOrBusy
    <3>. QED
      BY <2>1, <3>1, <3>2
  <2>. QED
    BY <1>11, <2>2, <2>3
<1>13. PublishedInv'
  <2>1. ASSUME NEW p \in published
        PROVE  /\ p \in Index \X Topics \X (1..Len(received))
               /\ p[3] \in 1..Len(received) /\ p[1] \in Index
               /\ From(p[1], p[3])
               /\ p[2] \in TopicSet(m_sensors[p[1]].link_type, received[p[3]].list)
               /\ \A u \in Threads : thread[u] # Idle /\ thread[u].list = p[3] =>
                                         thread[u].sensor = p[1]
    BY DEF IInv, PublishedInv, PublishedFact
  <2>2. ASSUME NEW p \in published
        PROVE  /\ p \in Index \X Topics \X (1..Len(received'))
               /\ From(p[1], p[3])'
               /\ p[2] \in TopicSet(m_sensors[p[1]].link_type, received[p[3]].list)'
               /\ \A u \in Threads : thread'[u] # Idle /\ thread'[u].list = p[3] =>
                                         thread'[u].sensor = p[1]
    BY <1>1, <1>2, <1>4, <1>6, <1>12, <2>1
  <2>. QED
    BY <1>1, <2>2 DEF PublishedInv, PublishedFact
<1>14. HeadersInv'
  <2>1. \A p \in published : p[3] \in 1..Len(received) /\ received'[p[3]] = received[p[3]]
    BY <1>4 DEF IInv, PublishedInv, PublishedFact
  <2>2. \A u \in Threads : thread[u].busy => thread'[u] = thread[u]
    BY <1>1, <1>12, BusyShape, IdleOrBusy
  <2>3. fault = "none"
    BY <1>1
  <2>4. \A p \in published : Full(p[1], p[3])' = Full(p[1], p[3])
    BY <1>1, <2>1 DEF Full
  <2>5. \A p \in published : \A topics : Followed(p, topics) => Followed(p, topics)'
    BY <1>1, <2>2, <2>3 DEF Followed
  <2>. QED
    BY <1>1, <2>4, <2>5 DEF IInv, HeadersInv
<1>15. FaultHasCause'
  <2>1. ASSUME fault' # "none"
        PROVE  fault' = "destroyed node" /\ setup \in {"threw", "destroyed"}
    BY <1>1, <2>1 DEF Callback, NodeIsGone
  <2>2. setup = "threw" => current > 0
    <3>1. s.sensor \in Index /\ current \in Index
      BY <1>5 DEF Entry, IInv, TypeInv
    <3>2. setup = "threw" => s.sensor < current
      BY <1>5 DEF SetUp
    <3>. QED
      BY <3>1, <3>2, IndexFacts
  <2>. QED
    BY <1>1, <2>1, <2>2 DEF IInv, FaultHasCause, ShutdownInv
<1>16. SilentAfterReset'
  BY <1>1, <1>11 DEF IInv, SilentAfterReset, ShutdownInv
<1>17. InterruptedInv'
  <2>1. \A p \in published : p[3] \in 1..Len(received)
    BY DEF IInv, PublishedInv, PublishedFact
  <2>2. \A p \in published : p[3] # n
    BY <1>4, <2>1
  <2>3. \A p \in published : \A u \in Threads :
           thread'[u] # Idle /\ thread'[u].list = p[3] => thread'[u] = thread[u]
    BY <1>12, <2>2
  <2>. QED
    BY <1>1, <2>3 DEF IInv, InterruptedInv
<1>. QED
  BY <1>7, <1>11, <1>13, <1>14, <1>15, <1>16, <1>17 DEF IInv

\* A list's topics up to the k-th are published, so the cloud of a list is never alone for
\* longer than its thread takes: no list has more than two.
LEMMA PublishIInv == ASSUME IInv, NEW t \in Threads, Publish(t) PROVE IInv'
<1>1. /\ fault = "none" /\ thread[t].busy
      /\ UNCHANGED <<m_sensors, setup, current, todo, publishers, subscriptions, refused,
                     m_shutdown_requested, services, context, interrupted, received>>
  BY DEF Publish, setupVars, shutdownVars, contextVars
<1>2. PICK i, n, topics : i = thread[t].sensor /\ n = thread[t].list /\ topics = thread[t].topics
  OBVIOUS
<1>3. PICK full, rest : full = Full(i, n) /\ rest = Tail(topics)
  OBVIOUS
<1>4. /\ thread[t] = Busy(i, topics, n) /\ i \in Index /\ SetUp(i) /\ n \in 1..Len(received)
      /\ From(i, n) /\ HasPublishers(i, received[n].list)
      /\ \E k \in 1..Len(full) : /\ topics = SubSeq(full, k, Len(full))
                                 /\ context = "valid" =>
                                       \A j \in 1..(k - 1) : <<i, full[j], n>> \in published
  BY <1>1, <1>2, <1>3, BusyShape DEF BusyInv
<1>5. PICK k : /\ k \in 1..Len(full)
               /\ topics = SubSeq(full, k, Len(full))
               /\ context = "valid" => \A j \in 1..(k - 1) : <<i, full[j], n>> \in published
  BY <1>4
<1>6. full \in Seq(Topics) /\ Len(full) <= 2 /\ Len(full) \in Nat
  BY <1>3, TopicsOfType DEF Full
<1>7. /\ Head(topics) = full[k] /\ Len(topics) = Len(full) - k + 1
      /\ k < Len(full) => rest = SubSeq(full, k + 1, Len(full))
      /\ full[k] \in Topics
  BY <1>3, <1>5, <1>6, Suffixes
<1>8. full[k] \in TopicSet(m_sensors[i].link_type, received[n].list)
  BY <1>3, <1>5 DEF Full, TopicSet
<1>9. thread[t] # Idle
  BY <1>1, BusyShape
<1>10. \/ /\ fault' # "none" /\ UNCHANGED <<thread, published>>
       \/ /\ fault' = fault
          /\ published' = IF context = "valid" THEN published \cup {<<i, full[k], n>>}
                          ELSE published
          /\ thread' = [thread EXCEPT ![t] =
                           IF Len(topics) = 1 THEN Idle ELSE Busy(i, rest, n)]
  BY <1>1, <1>2, <1>3, <1>7 DEF Publish
<1>11. /\ fault' \in {"none", "null publisher", "destroyed node"}
       /\ fault' = "null publisher" => full[k] \notin publishers[i]
       /\ fault' = "destroyed node" => setup \in {"threw", "destroyed"}
  BY <1>1, <1>2, <1>7 DEF Publish, NodeIsGone
<1>12. (TypeInv /\ SubscriptionsInv /\ TodoInv /\ ShutdownInv /\ HeardInv)'
  <2>1. /\ received' \in Seq(Names) /\ Len(received) <= Len(received')
        /\ Len(received') <= MaxLists
    BY <1>1, LenReceived
  <2>2. UNCHANGED <<setupVars, subscriptions, refused, shutdownVars>>
    BY DEF Publish
  <2>. QED
    BY <1>11, <2>1, <2>2, SetupFrame
<1>13. FaultHasCause'
  <2>1. fault' = "null publisher" => m_sensors[i].link_type = "can" /\ ~KnownPubType(m_sensors[i])
    BY <1>4, <1>8, <1>11 DEF HasPublishers
  <2>2. setup = "threw" => current > 0
    <3>1. current \in Index /\ i \in Index
      BY <1>4 DEF IInv, TypeInv
    <3>2. setup = "threw" => i < current
      BY <1>4 DEF SetUp
    <3>. QED
      <4>1. current \in Int /\ i >= 0 /\ i \in Int
        BY <3>1, IndexFacts
      <4>. QED
        BY <3>2, <4>1
  <2>. QED
    BY <1>1, <1>4, <1>11, <2>1, <2>2 DEF IInv, FaultHasCause, ShutdownInv
<1>14. CASE fault' # "none" /\ UNCHANGED <<thread, published>>
  <2>1. ThreadsInv'
    BY <1>1, <1>14 DEF IInv, ThreadsInv, BusyInv, SetUp, From, Source, HasPublishers, Full
  <2>2. PublishedInv'
    BY <1>1, <1>14 DEF IInv, PublishedInv, PublishedFact, From, Source
  <2>3. HeadersInv'
    BY <1>1, <1>14 DEF IInv, HeadersInv, Followed, Full
  <2>4. SilentAfterReset' /\ InterruptedInv'
    BY <1>1, <1>14 DEF IInv, SilentAfterReset, InterruptedInv
  <2>. QED
    BY <1>12, <1>13, <2>1, <2>2, <2>3, <2>4 DEF IInv
<1>15. CASE /\ fault' = fault
            /\ context = "valid"
            /\ published' = published \cup {<<i, full[k], n>>}
            /\ thread' = [thread EXCEPT ![t] =
                             IF Len(topics) = 1 THEN Idle ELSE Busy(i, rest, n)]
  <2>. DEFINE new == <<i, full[k], n>>
  <2>1. /\ DOMAIN thread' = Threads
        /\ thread'[t] = IF Len(topics) = 1 THEN Idle ELSE Busy(i, rest, n)
        /\ \A u \in Threads \ {t} : thread'[u] = thread[u]
    BY <1>15 DEF IInv, ThreadsInv
  <2>2. thread'[t] # Idle =>
           /\ Len(topics) # 1 /\ k < Len(full)
           /\ thread'[t] = Busy(i, rest, n)
           /\ thread'[t].sensor = i /\ thread'[t].topics = rest /\ thread'[t].list = n
    <3>1. Len(topics) # 1 => k < Len(full)
      BY <1>5, <1>6, <1>7
    <3>2. /\ Busy(i, rest, n).sensor = i
          /\ Busy(i, rest, n).topics = rest
          /\ Busy(i, rest, n).list = n
      BY DEF Busy
    <3>3. CASE Len(topics) = 1
      BY <2>1, <3>3
    <3>4. CASE Len(topics) # 1
      BY <2>1, <3>1, <3>2, <3>4
    <3>. QED
      BY <3>3, <3>4
  <2>3. ASSUME thread'[t] # Idle PROVE BusyInv(t)'
    <3>1. Full(i, n)' = full /\ From(i, n)' /\ SetUp(i)' /\ HasPublishers(i, received[n].list)'
      BY <1>1, <1>3, <1>4 DEF Full, From, Source, SetUp, HasPublishers
    <3>2. k + 1 \in 1..Len(full) /\ rest = SubSeq(full, k + 1, Len(full))
      BY <1>5, <1>6, <1>7, <2>2, <2>3
    <3>3. \A j \in 1..((k + 1) - 1) : <<i, full[j], n>> \in published'
      <4>1. \A j \in 1..((k + 1) - 1) : j \in 1..(k - 1) \/ j = k
        BY <1>5
      <4>. QED
        BY <1>5, <1>15, <4>1
    <3>4. \E m \in 1..Len(full) : /\ rest = SubSeq(full, m, Len(full))
                                  /\ \A j \in 1..(m - 1) : <<i, full[j], n>> \in published'
      <4>. USE <3>2
      <4>. WITNESS k + 1 \in 1..Len(full)
      <4>. QED
        BY <3>3, Zenon
    <3>. QED
      BY <1>1, <1>4, <2>2, <2>3, <3>1, <3>4 DEF BusyInv
  <2>4. ASSUME NEW u \in Threads \ {t}, BusyInv(u) PROVE BusyInv(u)'
    <3>1. published \subseteq published'
      BY <1>15
    <3>2. thread'[u] = thread[u]
      BY <2>1
    <3> DEFINE c == thread[u]
               whole == Full(c.sensor, c.list)
    <3>3. Full(c.sensor, c.list)' = whole
      BY <1>1, <3>2 DEF Full
    <3>4. SetUp(c.sensor)' /\ From(c.sensor, c.list)' /\ HasPublishers(c.sensor, received[c.list].list)'
      BY <1>1, <2>4, <3>2 DEF BusyInv, From, Source, SetUp, HasPublishers
    <3>5. PICK m \in 1..Len(whole) :
              /\ c.topics = SubSeq(whole, m, Len(whole))
              /\ context = "valid" =>
                    \A j \in 1..(m - 1) : <<c.sensor, whole[j], c.list>> \in published
      BY <2>4 DEF BusyInv
    <3>6. context' = context
      BY <1>1
    <3>7. context' = "valid" =>
              \A j \in 1..(m - 1) : <<c.sensor, whole[j], c.list>> \in published'
      BY <3>1, <3>5, <3>6
    <3>. HIDE DEF whole
    <3>8. /\ c = Busy(c.sensor, c.topics, c.list)
          /\ c.sensor \in Index
          /\ c.list \in 1..Len(received)
          /\ received' = received
      BY <1>1, <2>4 DEF BusyInv
    <3>. QED
      BY <3>2, <3>3, <3>4, <3>5, <3>7, <3>8 DEF BusyInv
  <2>5. ThreadsInv'
    <3>1. \A u \in Threads \ {t} : thread[u] # Idle => thread[u].list # n
      BY <1>2, <1>9 DEF IInv, ThreadsInv
    <3>. QED
      BY <2>1, <2>2, <2>3, <2>4, <3>1 DEF IInv, ThreadsInv
  <2>6. \A u \in Threads : thread'[u] # Idle =>
           /\ thread[u] # Idle
           /\ thread[u].list = thread'[u].list /\ thread[u].sensor = thread'[u].sensor
    BY <1>2, <1>9, <2>1, <2>2
  <2>7. \A u \in Threads : thread[u] # Idle /\ thread[u].list = n => u = t
    BY <1>2, <1>9 DEF IInv, ThreadsInv
  <2>8. /\ new[1] = i /\ new[2] = full[k] /\ new[3] = n
        /\ new \in Index \X Topics \X (1..Len(received))
    BY <1>4, <1>7
  <2>9. PublishedInv'
    <3>1. \A p \in published : PublishedFact(p)'
      <4>1. \A p \in published : PublishedFact(p)
        BY DEF IInv, PublishedInv, PublishedFact
      <4>. QED
        BY <1>1, <2>6, <4>1 DEF PublishedFact, From, Source
    <3>2. PublishedFact(new)'
      BY <1>1, <1>2, <1>4, <1>8, <2>6, <2>7, <2>8 DEF PublishedFact, From, Source
    <3>. QED
      BY <1>15, <3>1, <3>2 DEF PublishedInv
  <2>10. HeadersInv'
    <3>1. \A p \in published' : Full(p[1], p[3])' = Full(p[1], p[3])
      BY <1>1 DEF Full
    <3>2. ASSUME NEW p \in published, NEW j \in 1..Len(Full(p[1], p[3]))
          PROVE  \/ <<p[1], Full(p[1], p[3])[j], p[3]>> \in published'
                 \/ /\ j > 1
                    /\ \/ p[3] \in interrupted
                       \/ \E u \in Threads :
                             /\ thread'[u].busy
                             /\ thread'[u].list = p[3]
                             /\ thread'[u].topics
                                   = SubSeq(Full(p[1], p[3]), j, Len(Full(p[1], p[3])))
      <4>1. CASE <<p[1], Full(p[1], p[3])[j], p[3]>> \in published
        BY <1>15, <4>1
      <4>2. ASSUME j > 1, NEW u \in Threads, thread[u].busy, thread[u].list = p[3],
                   thread[u].topics = SubSeq(Full(p[1], p[3]), j, Len(Full(p[1], p[3])))
            PROVE  \/ <<p[1], Full(p[1], p[3])[j], p[3]>> \in published'
                   \/ /\ thread'[u].busy
                      /\ thread'[u].list = p[3]
                      /\ thread'[u].topics
                            = SubSeq(Full(p[1], p[3]), j, Len(Full(p[1], p[3])))
        <5>1. CASE u # t
          BY <2>1, <4>2, <5>1
        <5>2. CASE u = t
          <6>1. p[3] = n /\ p[1] = i
            BY <1>2, <1>9, <4>2, <5>2 DEF IInv, PublishedInv, PublishedFact
          <6>2. Full(p[1], p[3]) = full /\ topics = SubSeq(full, j, Len(full))
            BY <1>2, <1>3, <4>2, <5>2, <6>1
          <6>3. Head(topics) = full[j]
            BY <1>6, <3>2, <6>2, Suffixes
          <6>. QED
            BY <1>7, <1>15, <6>1, <6>2, <6>3
        <5>. QED
          BY <5>1, <5>2
      <4>3. \/ <<p[1], Full(p[1], p[3])[j], p[3]>> \in published
            \/ /\ j > 1
               /\ \/ p[3] \in interrupted
                  \/ \E u \in Threads :
                        /\ thread[u].busy
                        /\ thread[u].list = p[3]
                        /\ thread[u].topics
                              = SubSeq(Full(p[1], p[3]), j, Len(Full(p[1], p[3])))
        BY <1>1, <3>2 DEF IInv, HeadersInv, Followed
      <4>. QED
        BY <4>1, <4>2, <4>3
    <3>3. ASSUME NEW j \in 1..Len(full)
          PROVE  \/ <<i, full[j], n>> \in published'
                 \/ /\ j > 1
                    /\ \E u \in Threads : /\ thread'[u].busy
                                          /\ thread'[u].list = n
                                          /\ thread'[u].topics = SubSeq(full, j, Len(full))
      <4>1. CASE j <= k
        <5>1. j \in 1..(k - 1) \/ j = k
          BY <1>5, <4>1
        <5>. QED
          BY <1>5, <1>15, <5>1
      <4>2. CASE j > k
        <5>1. j = k + 1 /\ k < Len(full) /\ Len(topics) # 1 /\ j > 1
          BY <1>5, <1>6, <1>7, <3>3, <4>2
        <5>2. thread'[t] = Busy(i, rest, n)
          BY <2>1, <5>1
        <5>3. /\ thread'[t].busy /\ thread'[t].list = n
              /\ thread'[t].topics = SubSeq(full, j, Len(full))
          <6>1. /\ Busy(i, rest, n).busy
                /\ Busy(i, rest, n).topics = rest
                /\ Busy(i, rest, n).list = n
            BY DEF Busy
          <6>. QED
            BY <1>7, <5>1, <5>2, <6>1
        <5>. QED
          BY <5>1, <5>3
      <4>. QED
        BY <1>5, <3>3, <4>1, <4>2
    <3>4. \A p \in published : Followed(p, Full(p[1], p[3]))'
      BY <1>1, <3>1, <3>2, <1>15 DEF Followed
    <3>5. Followed(new, full)' /\ Full(new[1], new[3])' = full
      BY <1>1, <1>3, <2>8, <3>3 DEF Followed, Full
    <3>. QED
      BY <1>15, <3>4, <3>5 DEF HeadersInv
  <2>11. SilentAfterReset'
    <3>1. ASSUME services = "reset", RestOutlasts PROVE FALSE
      BY <1>1, <3>1 DEF IInv, SilentAfterReset
    <3>. QED
      BY <1>1, <3>1 DEF SilentAfterReset
  <2>12. InterruptedInv'
    BY <1>1, <1>15 DEF InterruptedInv
  <2>. QED
    BY <1>12, <1>13, <2>5, <2>9, <2>10, <2>11, <2>12 DEF IInv
<1>16. CASE /\ fault' = fault
            /\ context = "invalid"
            /\ published' = published
            /\ thread' = [thread EXCEPT ![t] =
                             IF Len(topics) = 1 THEN Idle ELSE Busy(i, rest, n)]
  <2>1. /\ DOMAIN thread' = Threads
        /\ thread'[t] = IF Len(topics) = 1 THEN Idle ELSE Busy(i, rest, n)
        /\ \A u \in Threads \ {t} : thread'[u] = thread[u]
    BY <1>16 DEF IInv, ThreadsInv
  <2>2. thread'[t] # Idle =>
           /\ k < Len(full)
           /\ thread'[t] = Busy(i, rest, n)
           /\ thread'[t].sensor = i /\ thread'[t].topics = rest /\ thread'[t].list = n
    <3>1. Len(topics) # 1 => k < Len(full)
      BY <1>5, <1>6, <1>7
    <3>. QED
      BY <2>1, <3>1, IdleOrBusy
  <2>3. ASSUME thread'[t] # Idle PROVE BusyInv(t)'
    <3>1. Full(i, n)' = full /\ From(i, n)' /\ SetUp(i)' /\ HasPublishers(i, received[n].list)'
      BY <1>1, <1>3, <1>4 DEF Full, From, Source, SetUp, HasPublishers
    <3>2. k + 1 \in 1..Len(full) /\ rest = SubSeq(full, k + 1, Len(full)) /\ context' # "valid"
      BY <1>1, <1>5, <1>6, <1>7, <1>16, <2>2, <2>3
    <3>. QED
      BY <1>1, <1>4, <2>2, <2>3, <3>1, <3>2 DEF BusyInv
  <2>4. ASSUME NEW u \in Threads \ {t}, BusyInv(u) PROVE BusyInv(u)'
    BY <1>1, <1>16, <2>1, <2>4 DEF BusyInv, Full, From, Source, SetUp, HasPublishers
  <2>5. ThreadsInv'
    <3>1. \A u \in Threads \ {t} : thread[u] # Idle => thread[u].list # n
      BY <1>2, <1>9 DEF IInv, ThreadsInv
    <3>. QED
      BY <2>1, <2>2, <2>3, <2>4, <3>1 DEF IInv, ThreadsInv
  <2>6. \A u \in Threads : thread'[u] # Idle =>
           /\ thread[u] # Idle
           /\ thread[u].list = thread'[u].list /\ thread[u].sensor = thread'[u].sensor
    BY <1>2, <1>9, <2>1, <2>2
  <2>7. PublishedInv'
    BY <1>1, <1>16, <2>6 DEF IInv, PublishedInv, PublishedFact, From, Source
  <2>8. InterruptedInv'
    BY <1>1, <1>16, <2>6 DEF IInv, InterruptedInv
  <2>9. HeadersInv'
    <3>1. ASSUME NEW p \in published PROVE Followed(p, Full(p[1], p[3]))'
      <4>1. Followed(p, Full(p[1], p[3])) /\ Full(p[1], p[3])' = Full(p[1], p[3])
        BY <1>1 DEF IInv, HeadersInv, Full
      <4>2. p[3] \in interrupted \/ thread[t].list # p[3]
        BY <1>9, <1>16 DEF IInv, InterruptedInv
      <4>. DEFINE topics_p == Full(p[1], p[3])
      <4>3. ASSUME NEW j \in 1..Len(topics_p)
            PROVE  \/ <<p[1], topics_p[j], p[3]>> \in published
                   \/ j > 1 /\ p[3] \in interrupted
                   \/ j > 1 /\ \E u \in Threads : /\ thread'[u].busy
                                                 /\ thread'[u].list = p[3]
                                                 /\ thread'[u].topics = SubSeq(topics_p, j, Len(topics_p))
        <5>1. ASSUME NEW u \in Threads, thread[u].list = p[3], p[3] \notin interrupted
              PROVE  thread'[u] = thread[u]
          BY <2>1, <4>2, <5>1
        <5>2. \/ <<p[1], topics_p[j], p[3]>> \in published
              \/ /\ j > 1
                 /\ \/ p[3] \in interrupted
                    \/ \E u \in Threads : /\ thread[u].busy
                                          /\ thread[u].list = p[3]
                                          /\ thread[u].topics = SubSeq(topics_p, j, Len(topics_p))
          BY <1>1, <4>1, <4>3 DEF Followed
        <5>. QED
          BY <5>1, <5>2
      <4>. QED
        BY <1>1, <1>16, <4>1, <4>3 DEF Followed
    <3>. QED
      BY <1>16, <3>1 DEF HeadersInv
  <2>10. SilentAfterReset'
    <3>1. ASSUME services = "reset", RestOutlasts PROVE FALSE
      BY <1>1, <3>1 DEF IInv, SilentAfterReset
    <3>. QED
      BY <1>1, <3>1 DEF SilentAfterReset
  <2>. QED
    BY <1>12, <1>13, <2>5, <2>7, <2>8, <2>9, <2>10 DEF IInv
<1>17. context \in {"valid", "invalid"}
  BY DEF IInv, TypeInv
<1>. QED
  BY <1>10, <1>14, <1>15, <1>16, <1>17

\* The signal: the lists under way are those interrupted.
LEMMA SignalIInv == IInv /\ Signal => IInv'
<1>. SUFFICES ASSUME IInv, Signal PROVE IInv'
  OBVIOUS
<1>1. /\ UNCHANGED <<m_sensors, setup, current, todo, publishers, subscriptions, refused,
                     m_shutdown_requested, services, thread, received, published, fault>>
      /\ context = "valid" /\ context' = "invalid"
      /\ interrupted' = InCallback
  BY DEF Signal, setupVars, callbackVars
<1>2. \A t \in Threads : thread[t] # Idle => thread[t].busy /\ BusyInv(t)
  BY BusyShape
<1>3. InCallback \subseteq 1..Len(received)
  BY <1>2, BusyShape DEF InCallback, BusyInv
<1>4. TypeInv' /\ TodoInv' /\ SubscriptionsInv'
  BY <1>1, <1>3
  DEF IInv, TypeInv, TodoInv, SubscriptionsInv, HasPublishers, SetUp, Source
<1>5. ThreadsInv'
  <2>1. ASSUME NEW t \in Threads, BusyInv(t) PROVE BusyInv(t)'
    BY <1>1, <2>1 DEF BusyInv, SetUp, From, Source, HasPublishers, Full
  <2>. QED
    BY <1>1, <2>1 DEF IInv, ThreadsInv
<1>6. PublishedInv'
  BY <1>1 DEF IInv, PublishedInv, PublishedFact, From, Source
<1>7. InterruptedInv'
  BY <1>1, <1>2 DEF InterruptedInv, InCallback
<1>8. HeadersInv'
  <2>1. ASSUME NEW p \in published PROVE Followed(p, Full(p[1], p[3]))'
    <3>1. Followed(p, Full(p[1], p[3])) /\ Full(p[1], p[3])' = Full(p[1], p[3])
      BY <1>1 DEF IInv, HeadersInv, Full
    <3>2. \A t \in Threads : thread[t].busy /\ thread[t].list = p[3] => p[3] \in interrupted'
      BY <1>1 DEF InCallback
    <3>. DEFINE topics == Full(p[1], p[3])
    <3>3. interrupted = {}
      BY <1>1 DEF IInv, ShutdownInv
    <3>4. \A j \in 1..Len(topics) :
             \/ <<p[1], topics[j], p[3]>> \in published
             \/ j > 1 /\ fault # "none"
             \/ j > 1 /\ p[3] \in interrupted'
      BY <3>1, <3>2, <3>3 DEF Followed
    <3>. QED
      BY <1>1, <3>1, <3>3, <3>4 DEF Followed
  <2>. QED
    BY <1>1, <2>1 DEF HeadersInv
<1>9. HeardInv'
  BY <1>1, HeardFrame DEF IInv, HeardInv
<1>10. FaultHasCause' /\ ShutdownInv' /\ SilentAfterReset'
  BY <1>1 DEF IInv, FaultHasCause, ShutdownInv, SilentAfterReset
<1>. QED
  BY <1>4, <1>5, <1>6, <1>7, <1>8, <1>9, <1>10 DEF IInv

\* A destroyed node is used: nothing but the fault changes.
LEMMA FaultIInv ==
    ASSUME IInv, fault = "none", fault' = "destroyed node", setup = "destroyed",
           UNCHANGED <<setupVars, subscriptions, refused, shutdownVars, thread, received, published>>
    PROVE  IInv'
<1>1. UNCHANGED <<m_sensors, setup, current, todo, publishers, subscriptions, refused,
                  m_shutdown_requested, services, context, interrupted, thread, received,
                  published>>
  BY DEF setupVars, shutdownVars, contextVars
<1>2. (TypeInv /\ SubscriptionsInv /\ TodoInv /\ ShutdownInv /\ HeardInv)'
  <2>1. received' = received
    BY <1>1
  <2>2. received' \in Seq(Names) /\ Len(received) <= Len(received') /\ Len(received') <= MaxLists
    BY <2>1, LenReceived, Zenon
  <2>3. fault' \in {"none", "null publisher", "destroyed node"}
    OBVIOUS
  <2>4. UNCHANGED <<setupVars, subscriptions, refused, shutdownVars>>
    OBVIOUS
  <2>. QED
    BY <2>2, <2>3, <2>4, SetupFrame, Zenon
<1>3. ThreadsInv'
  <2>1. ASSUME NEW t \in Threads, BusyInv(t) PROVE BusyInv(t)'
    BY <1>1, <2>1 DEF BusyInv, SetUp, From, Source, HasPublishers, Full
  <2>2. \A t \in Threads : thread[t] = Idle \/ BusyInv(t)'
    BY <2>1 DEF IInv, ThreadsInv
  <2>3. /\ DOMAIN thread = Threads
        /\ \A t, u \in Threads : t # u /\ thread[t] # Idle /\ thread[u] # Idle =>
              thread[t].list # thread[u].list
    BY DEF IInv, ThreadsInv
  <2>4. /\ DOMAIN thread' = DOMAIN thread
        /\ \A t \in Threads : thread'[t] = thread[t]
    BY <1>1
  <2>5. ASSUME NEW t \in Threads, NEW u \in Threads, t # u, thread'[t] # Idle, thread'[u] # Idle
        PROVE  thread'[t].list # thread'[u].list
    BY <2>3, <2>4, <2>5, Zenon
  <2>6. \A t \in Threads : thread'[t] = Idle \/ BusyInv(t)'
    BY <2>2, <2>4, Zenon
  <2>. QED
    BY <2>3, <2>4, <2>5, <2>6, Zenon DEF ThreadsInv
<1>6. PublishedInv' /\ InterruptedInv'
  BY <1>1 DEF IInv, PublishedInv, PublishedFact, From, Source, InterruptedInv
<1>4. HeadersInv'
  BY <1>1 DEF IInv, HeadersInv, Followed, Full
<1>5. FaultHasCause' /\ SilentAfterReset'
  BY <1>1 DEF IInv, FaultHasCause, SilentAfterReset, ShutdownInv
<1>. QED
  BY <1>2, <1>3, <1>4, <1>5, <1>6 DEF IInv

\* The steps of the shutdown, which leave what the library holds alone.
LEMMA ShutdownStepIInv ==
    ASSUME IInv, Onward, TypeInv', TodoInv', FaultHasCause', ShutdownInv', SilentAfterReset',
           UNCHANGED <<m_sensors, current, subscriptions, refused, context, interrupted, callbackVars>>,
           setup' = setup \/ (setup = "running" /\ setup' = "destroyed"),
           UNCHANGED todo
    PROVE  IInv'
<1>1. (ThreadsInv /\ PublishedInv /\ HeadersInv /\ InterruptedInv)'
  BY CallbackFrame DEF IInv
<1>2. SubscriptionsInv'
  BY SubscriptionFrame DEF IInv, SubscriptionsInv
<1>3. HeardInv'
  BY HeardFrame DEF IInv, HeardInv
<1>. QED
  BY <1>1, <1>2, <1>3 DEF IInv

LEMMA RequestShutdownIInv == IInv /\ RequestShutdown => IInv'
<1>. SUFFICES ASSUME IInv, RequestShutdown PROVE IInv'
  OBVIOUS
<1>1. CASE NodeIsGone
  BY <1>1, FaultIInv DEF RequestShutdown, NodeIsGone, shutdownVars
<1>2. CASE ~NodeIsGone
  <2>1. /\ UNCHANGED <<m_sensors, setup, current, todo, publishers, subscriptions, refused,
                       services, context, interrupted, thread, received, published, fault>>
        /\ UNCHANGED callbackVars
        /\ m_shutdown_requested' = TRUE
        /\ context = "invalid" /\ setup = "running"
    BY <1>2 DEF RequestShutdown, NodeIsGone, setupVars, contextVars, callbackVars
  <2>2. Onward
    BY <2>1 DEF Onward, SetUp
  <2>3. TypeInv' /\ TodoInv'
    BY <2>1 DEF IInv, TypeInv, TodoInv, HasPublishers
  <2>4. FaultHasCause' /\ ShutdownInv' /\ SilentAfterReset'
    BY <2>1 DEF IInv, FaultHasCause, ShutdownInv, SilentAfterReset
  <2>. QED
    BY <2>1, <2>2, <2>3, <2>4, ShutdownStepIInv
<1>. QED
  BY <1>1, <1>2

LEMMA ResetServicesIInv == IInv /\ ResetServices => IInv'
<1>. SUFFICES ASSUME IInv, ResetServices PROVE IInv'
  OBVIOUS
<1>1. CASE NodeIsGone
  <2>1. setup = "destroyed"
    BY <1>1 DEF IInv, ShutdownInv, ResetServices, NodeIsGone
  <2>. QED
    BY <1>1, <2>1, FaultIInv DEF ResetServices, shutdownVars
<1>2. CASE ~NodeIsGone
  <2>1. /\ UNCHANGED <<m_sensors, setup, current, todo, publishers, subscriptions, refused,
                       m_shutdown_requested, context, interrupted, thread, received, published,
                       fault>>
        /\ UNCHANGED callbackVars
        /\ services' = "reset" /\ m_shutdown_requested
        /\ RestOutlasts => \A t \in Threads : ~thread[t].busy
    BY <1>2 DEF ResetServices, setupVars, contextVars, callbackVars
  <2>2. Onward
    BY <2>1 DEF Onward, SetUp
  <2>3. TypeInv' /\ TodoInv'
    BY <2>1 DEF IInv, TypeInv, TodoInv, HasPublishers
  <2>4. FaultHasCause' /\ ShutdownInv' /\ SilentAfterReset'
    BY <2>1 DEF IInv, FaultHasCause, ShutdownInv, SilentAfterReset
  <2>. QED
    BY <2>1, <2>2, <2>3, <2>4, ShutdownStepIInv
<1>. QED
  BY <1>1, <1>2

LEMMA DestroyNodeIInv == IInv /\ DestroyNode => IInv'
<1>. SUFFICES ASSUME IInv, DestroyNode PROVE IInv'
  OBVIOUS
<1>1. /\ UNCHANGED <<m_sensors, current, todo, publishers, subscriptions, refused,
                     m_shutdown_requested, services, context, interrupted, thread, received,
                     published, fault>>
      /\ UNCHANGED callbackVars
      /\ setup = "running" /\ setup' = "destroyed" /\ context = "invalid"
  BY DEF DestroyNode, shutdownVars, contextVars, callbackVars
<1>2. Onward
  BY <1>1 DEF Onward, SetUp
<1>3. TypeInv' /\ TodoInv'
  BY <1>1 DEF IInv, TypeInv, TodoInv
<1>4. FaultHasCause' /\ ShutdownInv' /\ SilentAfterReset'
  BY <1>1 DEF IInv, FaultHasCause, ShutdownInv, SilentAfterReset
<1>. QED
  BY <1>1, <1>2, <1>3, <1>4, ShutdownStepIInv

LEMMA StutterIInv == ASSUME IInv, UNCHANGED vars PROVE IInv'
<1>1. /\ UNCHANGED <<m_sensors, setup, current, todo, publishers, subscriptions, refused,
                     m_shutdown_requested, services, context, interrupted, thread, received,
                     published, fault>>
      /\ UNCHANGED <<setupVars, subscriptions, refused, shutdownVars>>
      /\ UNCHANGED callbackVars
  BY DEF vars, setupVars, shutdownVars, contextVars, callbackVars
<1>2. (TypeInv /\ SubscriptionsInv /\ TodoInv /\ ShutdownInv /\ HeardInv)'
  <2>1. /\ received' \in Seq(Names) /\ Len(received) <= Len(received')
        /\ Len(received') <= MaxLists
    <3>1. received' = received
      BY <1>1
    <3>. QED
      BY <3>1, LenReceived, Zenon
  <2>2. fault' \in {"none", "null publisher", "destroyed node"}
    BY <1>1 DEF IInv, TypeInv
  <2>. QED
    BY <1>1, <2>1, <2>2, SetupFrame
<1>3. Onward
  BY <1>1 DEF Onward, SetUp
<1>4. (ThreadsInv /\ PublishedInv /\ HeadersInv /\ InterruptedInv)'
  BY <1>1, <1>3, CallbackFrame DEF IInv
<1>5. FaultHasCause' /\ SilentAfterReset'
  BY <1>1 DEF IInv, FaultHasCause, SilentAfterReset
<1>. QED
  BY <1>2, <1>4, <1>5 DEF IInv

LEMMA StepIInv == IInv /\ [Next]_vars => IInv'
<1>. SUFFICES ASSUME IInv, [Next]_vars PROVE IInv'
  OBVIOUS
<1>1. CASE SetupPublishers
  BY <1>1, RejectSensorIInv, SkipSensorIInv, PortPublishersIInv, CanPublishersIInv, RegisterIInv,
     RegisteredIInv DEF SetupPublishers
<1>2. CASE DataCallbacks
  BY <1>2, PublishIInv, CallbackIInv DEF DataCallbacks
<1>3. CASE Signal \/ OnShutdownCallback
  BY <1>3, SignalIInv, RequestShutdownIInv, ResetServicesIInv DEF OnShutdownCallback
<1>4. CASE DestroyNode
  BY <1>4, DestroyNodeIInv
<1>5. CASE UNCHANGED vars
  BY <1>5, StutterIInv
<1>. QED
  BY <1>1, <1>2, <1>3, <1>4, <1>5 DEF Next

\* The invariant holds in every state the node, the library's threads and the signal
\* handler can reach together.
THEOREM DataPathInvariance == Spec => []IInv
BY InitIInv, StepIInv, PTL DEF Spec

-----------------------------------------------------------------------------
(* What follows from it.                                                    *)

LEMMA IInvTypeOK == IInv => TypeOK
<1>. SUFFICES ASSUME IInv PROVE TypeOK
  OBVIOUS
<1>1. subscriptions \subseteq Entry
  BY DEF IInv, SubscriptionsInv
<1>2. ASSUME NEW t \in Threads, thread[t] # Idle
      PROVE  /\ thread[t].busy
             /\ thread[t].sensor \in Index
             /\ thread[t].topics \in Seq(Topics) \ {<<>>}
             /\ thread[t].list \in 1..Len(received)
  <2>1. BusyInv(t) /\ thread[t].busy
    BY <1>2, BusyShape
  <2>2. PICK full, k : /\ full = Full(thread[t].sensor, thread[t].list)
                       /\ k \in 1..Len(full)
                       /\ thread[t].topics = SubSeq(full, k, Len(full))
    BY <2>1 DEF BusyInv
  <2>3. full \in Seq(Topics)
    BY <2>2, TopicsOfType DEF Full
  <2>4. thread[t].topics \in Seq(Topics) \ {<<>>}
    BY <2>2, <2>3, Suffixes
  <2>. QED
    BY <2>1, <2>4 DEF BusyInv
<1>3. published \subseteq Index \X Topics \X (1..MaxLists)
  <2>1. Len(received) \in Nat /\ Len(received) <= MaxLists /\ MaxLists \in Nat
    <3>1. received \in Seq(Names) /\ Len(received) <= MaxLists
      BY DEF IInv, TypeInv
    <3>. QED
      BY <3>1, DataPathAssumption
  <2>2. \A n \in 1..Len(received) : n \in 1..MaxLists
    BY <2>1
  <2>3. \A p \in published : p \in Index \X Topics \X (1..Len(received))
    BY DEF IInv, PublishedInv, PublishedFact
  <2>. QED
    BY <2>2, <2>3
<1>4. DOMAIN thread = Threads
  BY DEF IInv, ThreadsInv
<1>5. received \in Seq([model : Models, list : Lists, id : SensorIds])
  BY DEF IInv, TypeInv, Names
<1>6. TypeInv
  BY DEF IInv
<1>7. \A t \in Threads :
         \/ thread[t] = Idle
         \/ /\ thread[t].busy
            /\ thread[t].sensor \in Index
            /\ thread[t].topics \in Seq(Topics) \ {<<>>}
            /\ thread[t].list \in 1..Len(received)
  BY <1>2, Zenon
<1>. QED
  BY <1>1, <1>3, <1>4, <1>5, <1>6, <1>7, Zenon DEF TypeInv, TypeOK

\* The members of the node, the library's table and the threads keep their types.
THEOREM DataPathTypeCorrect == Spec => []TypeOK
BY DataPathInvariance, IInvTypeOK, PTL

\* No callback of the library's finds a publisher that was never created, but on a CAN
\* sensor with an unknown publish type.
THEOREM PublishersAreThere == Spec => []CallbacksHavePublishers
<1>1. IInv => CallbacksHavePublishers
  BY DEF IInv, SubscriptionsInv, HasPublishers, CallbacksHavePublishers
<1>. QED
  BY <1>1, DataPathInvariance, PTL

\* Undefined behaviour comes from an unknown publish type on CAN, a constructor that threw
\* after a registration, or the node's destruction while the signal handler rests.
THEOREM FaultsHaveCauses == Spec => []FaultHasCause
<1>1. IInv => FaultHasCause
  BY DEF IInv
<1>. QED
  BY <1>1, DataPathInvariance, PTL

\* What is published under a sensor's index came from that sensor.
THEOREM PublishedRightly == Spec => []PublishedWhereConfigured
<1>1. IInv => PublishedWhereConfigured
  <2>. SUFFICES ASSUME IInv, NEW p \in published
                PROVE  /\ received[p[3]].id = m_sensors[p[1]].id
                       /\ received[p[3]].model = m_sensors[p[1]].model
                       /\ p[2] \in TopicSet(m_sensors[p[1]].link_type, received[p[3]].list)
    BY DEF PublishedWhereConfigured
  <2>1. received[p[3]] = Source(p[1], received[p[3]].list)
        /\ p[2] \in TopicSet(m_sensors[p[1]].link_type, received[p[3]].list)
    BY DEF IInv, PublishedInv, PublishedFact, From
  <2>. QED
    BY <2>1 DEF Source
<1>. QED
  BY <1>1, DataPathInvariance, PTL

\* A cloud and its header go together, whatever the other threads do.
THEOREM CloudsHaveHeaders == Spec => []HeadersFollowClouds
<1>1. IInv => HeadersFollowClouds
  BY DEF IInv, HeadersInv, Followed, Full, HeadersFollowClouds
<1>. QED
  BY <1>1, DataPathInvariance, PTL

\* Once the services were reset no thread publishes, if callbacks return within the rest.
THEOREM NothingAfterReset == Spec => []SilentAfterReset
<1>1. IInv => SilentAfterReset
  BY DEF IInv
<1>. QED
  BY <1>1, DataPathInvariance, PTL

\* Every list a configured sensor can send is heard, refused with a line in the log, or
\* heard by a later sensor with the same model and id.
THEOREM ListsAreHeard == Spec => []EveryListIsHeard
<1>1. IInv => EveryListIsHeard
  <2>. SUFFICES ASSUME IInv, setup = "running", NEW i \in Index,
                       NEW k \in 1..Len(Callbacks(m_sensors[i]))
                PROVE  Heard(i, Callbacks(m_sensors[i])[k])
    BY DEF EveryListIsHeard, Heard
  <2>1. current = NumberOfSensors - 1
    BY DEF IInv, HeardInv
  <2>2. i < current \/ i = current
    BY <2>1, IndexFacts
  <2>. QED
    BY <2>2 DEF IInv, HeardInv
<1>. QED
  BY <1>1, DataPathInvariance, PTL
=============================================================================
