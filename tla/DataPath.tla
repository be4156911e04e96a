------------------------------- MODULE DataPath -------------------------------
(***************************************************************************)
(* From the sensors to the topics (smartmicro_radar_node.cpp):              *)
(* setup_publishers goes through the configured sensors, creates the        *)
(* publishers of each and registers a callback of the node with the Smart   *)
(* Access library for each list the sensor sends.  The library calls them   *)
(* on threads of its own, from the moment they are registered, so also      *)
(* while later sensors are still being set up, after the constructor threw, *)
(* and while on_shutdown_callback runs on the thread of the signal handler. *)
(* That thread first makes the context of rclcpp invalid, from when on      *)
(* publish() does nothing and says nothing, and then calls the node.        *)
(*                                                                         *)
(*   setup:  validate -> register -> validate ... -> running -> destroyed    *)
(*   thread: idle -> publish (the list's topics, one after the other) -> idle*)
(*                                                                         *)
(* A definition whose comment says "Variant" is not part of the             *)
(* specification: it is the operator that follows it with a mistake in it,  *)
(* kept to show which property notices the mistake.                         *)
(***************************************************************************)
EXTENDS SensorModels, Naturals, Sequences

CONSTANTS NumberOfSensors,   \* m_number_of_sensors
          SensorIds,         \* the ids a sensor may have in the parameters
          LinkTypes,         \* the link types: "eth", "can" or another word
          Models,            \* the models: known ones, or another word
          PubTypes,          \* the publish types: "mse", "target" or another word
          Configurations,    \* the parameters the node may be launched with
          Threads,           \* the threads the library calls back on
          MaxLists,          \* bound of the model: lists the library receives
          RestOutlasts       \* do callbacks return within the 100 ms of the shutdown?

Index == 0..(NumberOfSensors - 1)

SensorConfig == [id : SensorIds, link_type : LinkTypes, model : Models, pub_type : PubTypes]

ASSUME DataPathAssumption ==
    /\ NumberOfSensors \in Nat \ {0}
    /\ SensorIds \subseteq Nat \ {0}
    /\ \A configuration \in Configurations : configuration \in [Index -> SensorConfig]
    /\ MaxLists \in Nat
    /\ RestOutlasts \in BOOLEAN

VARIABLES m_sensors,             \* the parameters of each sensor
          setup,                 \* where setup_publishers is
          current,               \* the sensor it is at
          todo,                  \* the lists of that sensor not yet registered
          publishers,            \* the topics each sensor has a publisher for
          subscriptions,         \* the callbacks the library holds
          context,               \* the context of rclcpp: "valid" or "invalid"
          m_shutdown_requested,
          services,              \* m_services: "up" or "reset"
          thread,                \* what each thread of the library is doing
          received,              \* history: the lists received, each with its source
          published,             \* history: what was published where
          refused,               \* history: registrations the library refused (logged)
          interrupted,           \* history: the lists in a callback at the signal
          fault                  \* "none", or the undefined behaviour that happened

setupVars == <<m_sensors, setup, current, todo, publishers>>
contextVars == <<context, interrupted>>
shutdownVars == <<contextVars, m_shutdown_requested, services>>
callbackVars == <<thread, received, published, fault>>
vars == <<setupVars, subscriptions, refused, shutdownVars, callbackVars>>

Lists == {"objects", "targets", "faults"}

Topics == {"port_objects", "port_objectheader", "port_targets", "port_targetheader",
           "port_faultreport", "can_objects", "can_objectheader", "can_targets",
           "can_targetheader"}

\* The topics a data callback publishes to, in order: the cloud, then its header.
TopicsOf(link, list) ==
    CASE link = "eth" /\ list = "objects" -> <<"port_objects", "port_objectheader">>
      [] link = "eth" /\ list = "targets" -> <<"port_targets", "port_targetheader">>
      [] link = "eth" /\ list = "faults"  -> <<"port_faultreport">>
      [] link = "can" /\ list = "objects" -> <<"can_objects", "can_objectheader">>
      [] link = "can" /\ list = "targets" -> <<"can_targets", "can_targetheader">>
      [] OTHER                            -> <<>>

TopicSet(link, list) == {TopicsOf(link, list)[k] : k \in 1..Len(TopicsOf(link, list))}

\* The callbacks port_publishers registers for a model; none for a model it does not know.
PortCallbacks(model) ==
    IF model \notin PortModels THEN <<>>
    ELSE (IF model \in PortMse THEN <<"objects", "targets">> ELSE <<"targets">>)
         \o (IF model \in FaultCallbacks THEN <<"faults">> ELSE <<>>)

\* The callbacks can_publishers registers.
CanCallbacks(model) ==
    IF model \notin CanModels THEN <<>>
    ELSE IF model \in CanMse THEN <<"objects", "targets">> ELSE <<"targets">>

Callbacks(sensor) ==
    CASE sensor.link_type = "eth" -> PortCallbacks(sensor.model)
      [] sensor.link_type = "can" -> CanCallbacks(sensor.model)
      [] OTHER                    -> <<>>

Idle == [busy |-> FALSE]

\* A callback past its check of m_shutdown_requested, with the topics it has yet to publish to.
Busy(i, topics, n) == [busy |-> TRUE, sensor |-> i, topics |-> topics, list |-> n]

-----------------------------------------------------------------------------

Init ==
    /\ m_sensors \in Configurations
    /\ setup = "validate"
    /\ current = 0
    /\ todo = <<>>
    /\ publishers = [i \in Index |-> {}]
    /\ subscriptions = {}
    /\ context = "valid"
    /\ interrupted = {}
    /\ m_shutdown_requested = FALSE
    /\ services = "up"
    /\ thread = [t \in Threads |-> Idle]
    /\ received = <<>>
    /\ published = {}
    /\ refused = {}
    /\ fault = "none"

\* Variant: only one direction is checked.
ValidOneWay(sensor) == sensor.pub_type = "mse" => NamedMse(sensor.model)

\* validate_sensor: the publish type "mse" goes with the models named so.
Valid(sensor) == (sensor.pub_type = "mse") = NamedMse(sensor.model)

KnownPubType(sensor) == sensor.pub_type \in {"mse", "target"}

\* The constructor throws.  What was registered stays registered.
RejectSensor ==
    /\ setup = "validate"
    /\ \/ ~Valid(m_sensors[current])
       \/ m_sensors[current].link_type = "eth" /\ ~KnownPubType(m_sensors[current])
    /\ setup' = "threw"
    /\ UNCHANGED <<m_sensors, current, todo, publishers, subscriptions, refused, shutdownVars,
                   callbackVars>>

\* The loop goes on with the next sensor, or the constructor returns.
NextSensor(i) ==
    /\ current' = IF i + 1 < NumberOfSensors THEN i + 1 ELSE i
    /\ setup' = IF i + 1 < NumberOfSensors THEN "validate" ELSE "running"

\* The link type is unknown: a warning, nothing else.
SkipSensor ==
    /\ setup = "validate"
    /\ Valid(m_sensors[current])
    /\ m_sensors[current].link_type \notin {"eth", "can"}
    /\ NextSensor(current)
    /\ UNCHANGED <<m_sensors, todo, publishers, subscriptions, refused, shutdownVars, callbackVars>>

\* The publishers of the sensor are created, its callbacks come next.  With the context
\* invalid create_publisher throws, and so does the constructor.
CreatePublishers(topics, callbacks) ==
    /\ IF context = "invalid" /\ topics # {}
       THEN /\ setup' = "threw"
            /\ UNCHANGED <<publishers, todo>>
       ELSE /\ publishers' = [publishers EXCEPT ![current] = topics]
            /\ todo' = callbacks
            /\ setup' = "register"
    /\ UNCHANGED <<m_sensors, current, subscriptions, refused, shutdownVars, callbackVars>>

\* The first part of port_publishers.
PortPublishers ==
    LET sensor == m_sensors[current]
    IN  /\ setup = "validate"
        /\ Valid(sensor) /\ KnownPubType(sensor)
        /\ sensor.link_type = "eth"
        /\ CreatePublishers(
              (IF sensor.pub_type = "mse" THEN TopicSet("eth", "objects") ELSE {})
              \cup TopicSet("eth", "targets")
              \cup (IF SupportsFaultReports(sensor.model) THEN {"port_faultreport"} ELSE {}),
              PortCallbacks(sensor.model))

\* The first part of can_publishers: an unknown publish type is logged, no more.
CanPublishers ==
    LET sensor == m_sensors[current]
    IN  /\ setup = "validate"
        /\ Valid(sensor)
        /\ sensor.link_type = "can"
        /\ CreatePublishers(
              (IF sensor.pub_type = "mse" THEN TopicSet("can", "objects") ELSE {})
              \cup (IF KnownPubType(sensor) THEN TopicSet("can", "targets") ELSE {}),
              CanCallbacks(sensor.model))

\* What the library tells data apart by: the service of the model, the list, the client id.
Source(i, list) == [model |-> m_sensors[i].model, list |-> list, id |-> m_sensors[i].id]

\* Variant: the callback is bound to the wrong index.
RegisterFirst ==
    /\ setup = "register"
    /\ todo # <<>>
    /\ todo' = Tail(todo)
    /\ subscriptions' = {s \in subscriptions : s.source # Source(current, Head(todo))}
                           \cup {[source |-> Source(current, Head(todo)), sensor |-> 0]}
    /\ UNCHANGED <<m_sensors, setup, current, publishers, refused, shutdownVars, callbackVars>>

\* Variant: a refused callback ends the registration of the sensor.
RegisterUntilRefused ==
    /\ setup = "register"
    /\ todo # <<>>
    /\ LET source == Source(current, Head(todo))
       IN  \/ /\ subscriptions' = {s \in subscriptions : s.source # source}
                                     \cup {[source |-> source, sensor |-> current]}
              /\ todo' = Tail(todo)
              /\ UNCHANGED refused
           \/ /\ refused' = refused \cup {[source |-> source, sensor |-> current]}
              /\ todo' = <<>>
              /\ UNCHANGED subscriptions
    /\ UNCHANGED <<m_sensors, setup, current, publishers, shutdownVars, callbackVars>>

\* The second part of port_publishers and can_publishers: one Register...ReceiveCallback
\* after the other.  The library takes the callback (in place of one it may hold for the
\* same source) or refuses it, which is logged.
Register ==
    /\ setup = "register"
    /\ todo # <<>>
    /\ todo' = Tail(todo)
    /\ LET source == Source(current, Head(todo))
       IN  \/ /\ subscriptions' = {s \in subscriptions : s.source # source}
                                     \cup {[source |-> source, sensor |-> current]}
              /\ UNCHANGED refused
           \/ /\ refused' = refused \cup {[source |-> source, sensor |-> current]}
              /\ UNCHANGED subscriptions
    /\ UNCHANGED <<m_sensors, setup, current, publishers, shutdownVars, callbackVars>>

Registered ==
    /\ setup = "register"
    /\ todo = <<>>
    /\ NextSensor(current)
    /\ UNCHANGED <<m_sensors, todo, publishers, subscriptions, refused, shutdownVars, callbackVars>>

SetupPublishers ==
    \/ RejectSensor
    \/ SkipSensor
    \/ PortPublishers
    \/ CanPublishers
    \/ Register
    \/ Registered

-----------------------------------------------------------------------------
(* The threads of the library.                                              *)

\* Variant: the callback does not look at the flag.
CallbackIgnoresShutdown(t, s) ==
    /\ fault = "none"
    /\ ~thread[t].busy
    /\ Len(received) < MaxLists
    /\ received' = Append(received, s.source)
    /\ thread' = [thread EXCEPT ![t] =
          Busy(s.sensor, TopicsOf(m_sensors[s.sensor].link_type, s.source.list), Len(received'))]
    /\ UNCHANGED <<setupVars, subscriptions, refused, shutdownVars, published, fault>>

\* The node the callbacks are bound to no longer exists.
NodeIsGone == setup \in {"threw", "destroyed"}

\* A list arrives and the callback is called: unless the shutdown was requested it goes
\* on.
Callback(t, s) ==
    /\ fault = "none"
    /\ ~thread[t].busy
    /\ Len(received) < MaxLists
    /\ received' = Append(received, s.source)
    /\ IF NodeIsGone
       THEN fault' = "destroyed node" /\ UNCHANGED thread
       ELSE /\ thread' = IF m_shutdown_requested THEN thread
                         ELSE [thread EXCEPT ![t] =
                                 Busy(s.sensor,
                                      TopicsOf(m_sensors[s.sensor].link_type, s.source.list),
                                      Len(received'))]
            /\ UNCHANGED fault
    /\ UNCHANGED <<setupVars, subscriptions, refused, shutdownVars, published>>

\* Variant: the header goes first.
PublishHeaderFirst(t) ==
    /\ fault = "none"
    /\ thread[t].busy
    /\ ~NodeIsGone
    /\ LET c == thread[t]
           topic == c.topics[Len(c.topics)]
       IN  /\ topic \in publishers[c.sensor]
           /\ published' = IF context = "valid"
                           THEN published \cup {<<c.sensor, topic, c.list>>}
                           ELSE published
           /\ thread' = [thread EXCEPT ![t] =
                            IF Len(c.topics) = 1 THEN Idle
                            ELSE Busy(c.sensor, SubSeq(c.topics, 1, Len(c.topics) - 1), c.list)]
    /\ UNCHANGED <<setupVars, subscriptions, refused, shutdownVars, received, fault>>

\* The callback publishes to its next topic: without effect if the context is invalid.
Publish(t) ==
    /\ fault = "none"
    /\ thread[t].busy
    /\ LET c == thread[t]
       IN  IF NodeIsGone
           THEN fault' = "destroyed node" /\ UNCHANGED <<thread, published>>
           ELSE IF Head(c.topics) \notin publishers[c.sensor]
           THEN fault' = "null publisher" /\ UNCHANGED <<thread, published>>
           ELSE /\ published' = IF context = "valid"
                                THEN published \cup {<<c.sensor, Head(c.topics), c.list>>}
                                ELSE published
                /\ thread' = [thread EXCEPT ![t] =
                                 IF Len(c.topics) = 1 THEN Idle
                                 ELSE Busy(c.sensor, Tail(c.topics), c.list)]
                /\ UNCHANGED fault
    /\ UNCHANGED <<setupVars, subscriptions, refused, shutdownVars, received>>

DataCallbacks == \E t \in Threads : Publish(t) \/ \E s \in subscriptions : Callback(t, s)

-----------------------------------------------------------------------------
(* The thread of the signal handler.                                        *)

\* The lists whose callbacks are under way.
InCallback == {thread[t].list : t \in {u \in Threads : thread[u].busy}}

\* The signal, at any moment: the context becomes invalid before anybody is told.
Signal ==
    /\ context = "valid"
    /\ context' = "invalid"
    /\ interrupted' = InCallback
    /\ UNCHANGED <<setupVars, subscriptions, refused, m_shutdown_requested, services, callbackVars>>

\* The callback was handed to rclcpp by the last line of the constructor, bound to the
\* node: main may have destroyed it since.
RequestShutdown ==
    /\ fault = "none"
    /\ context = "invalid"
    /\ setup \in {"running", "destroyed"}
    /\ ~m_shutdown_requested
    /\ IF NodeIsGone
       THEN fault' = "destroyed node" /\ UNCHANGED m_shutdown_requested
       ELSE m_shutdown_requested' = TRUE /\ UNCHANGED fault
    /\ UNCHANGED <<setupVars, subscriptions, refused, contextVars, services, thread, received,
                   published>>

\* After a rest of 100 ms.
ResetServices ==
    /\ fault = "none"
    /\ m_shutdown_requested
    /\ services = "up"
    /\ RestOutlasts => \A t \in Threads : ~thread[t].busy
    /\ IF NodeIsGone
       THEN fault' = "destroyed node" /\ UNCHANGED services
       ELSE services' = "reset" /\ UNCHANGED fault
    /\ UNCHANGED <<setupVars, subscriptions, refused, contextVars, m_shutdown_requested, thread,
                   received, published>>

OnShutdownCallback == RequestShutdown \/ ResetServices

\* The main thread: spin() returns with the context, and main destroys the node, before
\* the signal handler calls the node or while it rests.  Nothing takes the callbacks back
\* from the library.
DestroyNode ==
    /\ setup = "running"
    /\ context = "invalid"
    /\ setup' = "destroyed"
    /\ UNCHANGED <<m_sensors, current, todo, publishers, subscriptions, refused, shutdownVars,
                   callbackVars>>

Next == SetupPublishers \/ DataCallbacks \/ Signal \/ OnShutdownCallback \/ DestroyNode

Spec == Init /\ [][Next]_vars
-----------------------------------------------------------------------------

Entry == [source : [model : Models, list : Lists, id : SensorIds], sensor : Index]

\* The members of the node, the library's table and the threads keep their types.
TypeOK ==
    /\ m_sensors \in [Index -> SensorConfig]
    /\ setup \in {"validate", "register", "running", "threw", "destroyed"}
    /\ current \in Index
    /\ todo \in Seq(Lists)
    /\ publishers \in [Index -> SUBSET Topics]
    /\ subscriptions \subseteq Entry
    /\ refused \subseteq Entry
    /\ context \in {"valid", "invalid"}
    /\ interrupted \subseteq 1..Len(received)
    /\ m_shutdown_requested \in BOOLEAN
    /\ services \in {"up", "reset"}
    /\ DOMAIN thread = Threads
    /\ \A t \in Threads :
          \/ thread[t] = Idle
          \/ /\ thread[t].busy
             /\ thread[t].sensor \in Index
             /\ thread[t].topics \in Seq(Topics) \ {<<>>}
             /\ thread[t].list \in 1..Len(received)
    /\ received \in Seq([model : Models, list : Lists, id : SensorIds])
    /\ Len(received) <= MaxLists
    /\ published \subseteq Index \X Topics \X (1..MaxLists)
    /\ fault \in {"none", "null publisher", "destroyed node"}

\* No callback the library may call uses a publisher that was never created: the publish
\* type, the model's registration and supports_fault_reports agree for every model.  The
\* exception is a sensor on CAN whose publish type the node does not know.
CallbacksHavePublishers ==
    \A s \in subscriptions :
        LET sensor == m_sensors[s.sensor]
        IN  \/ TopicSet(sensor.link_type, s.source.list) \subseteq publishers[s.sensor]
            \/ sensor.link_type = "can" /\ ~KnownPubType(sensor)

\* Undefined behaviour has one of three causes: that exception, a constructor that threw
\* after an earlier sensor was registered, in a process that lives on, or a node that main
\* destroyed before the shutdown was through (the signal handler and the library hold
\* callbacks bound to it).
FaultHasCause ==
    /\ fault = "null publisher" =>
          \E i \in Index : m_sensors[i].link_type = "can" /\ ~KnownPubType(m_sensors[i])
    /\ fault = "destroyed node" =>
          (setup = "threw" /\ current > 0) \/ (setup = "destroyed" /\ context = "invalid")

\* What is published under a sensor's index came from that sensor, and goes to the topics
\* of its link and of the list received.
PublishedWhereConfigured ==
    \A p \in published :
        LET sensor == m_sensors[p[1]]
            from == received[p[3]]
        IN  /\ from.id = sensor.id /\ from.model = sensor.model
            /\ p[2] \in TopicSet(sensor.link_type, from.list)

\* A cloud and its header go together, cloud first, whatever comes between them: where the
\* header is missing the callback is still about to publish it, or was under way when the
\* signal made the context invalid, or can never.
HeadersFollowClouds ==
    \A p \in published :
        LET topics == TopicsOf(m_sensors[p[1]].link_type, received[p[3]].list)
        IN  \A k \in 1..Len(topics) :
                \/ <<p[1], topics[k], p[3]>> \in published
                \/ /\ k > 1
                   /\ \/ fault # "none"
                      \/ p[3] \in interrupted
                      \/ \E t \in Threads : /\ thread[t].busy
                                            /\ thread[t].list = p[3]
                                            /\ thread[t].topics = SubSeq(topics, k, Len(topics))

\* Once the services were reset no callback is at work any more, if callbacks return within
\* the 100 ms rest: those that come later see the flag.
SilentAfterReset ==
    services = "reset" /\ RestOutlasts => \A t \in Threads : ~thread[t].busy

\* Every list a configured sensor can send is heard once the node runs, unless the library
\* refused it (which was logged) or gave the callback to a later sensor with the same
\* model and id: "Must be a unique, non-zero integer" is not checked.
EveryListIsHeard ==
    setup = "running" =>
        \A i \in Index :
            LET lists == Callbacks(m_sensors[i])
            IN  \A k \in 1..Len(lists) :
                    \/ [source |-> Source(i, lists[k]), sensor |-> i] \in subscriptions \cup refused
                    \/ \E j \in Index : /\ j > i
                                        /\ Source(j, lists[k]) = Source(i, lists[k])
                                        /\ [source |-> Source(i, lists[k]), sensor |-> j]
                                              \in subscriptions

\* "Successfully created CAN publishers": no callback finds its publisher missing.
NoPublisherMissing == fault # "null publisher"
=============================================================================
