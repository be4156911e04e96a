----------------------------- MODULE Instructions -----------------------------
(***************************************************************************)
(* The instruction services of the node (smartmicro_radar_node.cpp):        *)
(* set_radar_mode, get_radar_mode, get_radar_status, set_ip_address and     *)
(* send_command.  A handler checks the request, collects its instructions   *)
(* in a batch, hands the batch to the Smart Access library and answers the  *)
(* client at once.  The sensor's response comes later, on a thread of the   *)
(* library, and is only shown in the terminal.  The executor runs one       *)
(* handler at a time.                                                       *)
(*                                                                         *)
(*   idle -> allocate -> add ... add -> send -> idle                        *)
(*                                                                         *)
(* The name of an instruction is its place in the request, and the sizes of *)
(* the integer types are parameters.  A definition whose comment says       *)
(* "Variant" is not part of the specification: it is the operator that      *)
(* follows it with a mistake in it, kept to show which property notices.    *)
(***************************************************************************)
EXTENDS InstructionTypes, Integers, Sequences, FiniteSets

CONSTANTS ConfiguredIds,   \* the ids of the sensors in the parameters
          Requests,        \* the requests clients may send
          Max8, Max16, Max32, Max64,   \* the largest uint8_t, uint16_t, uint32_t, uint64_t
          FloatMantissas,  \* 2^24: a float holds every integer below it
          FloatUlps,       \* the distances between the integers it holds: 1, 2, 4 ... 2^104
          MaxRequests,     \* bound of the model: requests served
          ServiceMissing   \* may GetInstructionService return nothing?

\* The services whose requests carry lists, and those whose requests name a section.
ListServices == {"set_radar_mode", "get_radar_mode", "get_radar_status"}
SectionServices == ListServices \cup {"send_command"}
Services == SectionServices \cup {"set_ip_address"}

\* A value is text: a number, one with a decimal point, one followed by other
\* characters, or none at all.  Its number is whole; the words and the hexadecimal numbers
\* that only std::stof reads ("inf", "0x1p3") are left out.
Value == [form : {"number", "dotted", "trailing", "junk"}, n : Int]

Request == [service : Services,
            sensor_id : Nat,
            section_known : BOOLEAN,    \* is section_name one of the three accepted?
            same_length : BOOLEAN,      \* do the lists have the same length?
            entries : Seq([type : Nat, value : Value])]

ASSUME InstructionsAssumption ==
    /\ ConfiguredIds \subseteq Nat \ {0}
    /\ Requests \subseteq Request
    /\ \A r \in Requests : r.service \notin ListServices => Len(r.entries) = 1
    /\ Max8 \in Nat /\ Max16 \in Nat /\ Max32 \in Nat /\ Max64 \in Nat
    /\ FloatMantissas \in Nat \ {0}
    /\ FloatUlps \subseteq Nat \ {0} /\ 1 \in FloatUlps
    /\ MaxRequests \in Nat
    /\ ServiceMissing \in BOOLEAN

VARIABLES handler,     \* the step of the running handler
          request,     \* the request it serves, or served last
          client_id,   \* the member all handlers write
          batch,       \* the instructions added so far
          answers,     \* history: each request with its answer
          sent,        \* the batches handed to the library, with their requests
          pending,     \* those the sensor has not responded to
          responded,   \* history: for each batch, the instructions the sensor responded to
          shown,       \* history: for each batch, the responses shown
          warned,      \* history: for each batch, the names warned about
          fault        \* "none", or the undefined behaviour that happened

handlerVars == <<handler, request, client_id, batch>>
responseVars == <<pending, responded, shown, warned>>
vars == <<handlerVars, answers, sent, responseVars, fault>>

\* The ids found in m_sensors: a slot that is not used holds kDefaultClientId, and the
\* node does not start unless there is one.
ListedIds == ConfiguredIds \cup {0}

-----------------------------------------------------------------------------
(* Values and types.                                                        *)

Ok(x) == [error |-> "none", is |-> x]
Error(why) == [error |-> why, is |-> <<>>]

\* std::stoul: a sign is accepted and the number taken modulo 2^64; what follows it is
\* ignored.
Stoul(value) ==
    CASE value.form = "junk"                   -> Error("invalid format")
      [] value.n > Max64 \/ value.n < -Max64   -> Error("out of range")
      [] OTHER                                 -> Ok(value.n % (Max64 + 1))

\* An integer parameter: no decimal point, then std::stoul; the check of the type follows.
Integral(value) == IF value.form = "dotted" THEN Error("decimal points") ELSE Stoul(value)

Abs(n) == IF n < 0 THEN -n ELSE n

\* The distance between the floats next to a number.
Ulp(n) ==
    CHOOSE u \in FloatUlps :
        /\ Abs(n) < FloatMantissas * u
        /\ \A v \in FloatUlps : Abs(n) < FloatMantissas * v => u <= v

\* The nearest float, of two the one with the even mantissa.
Rounded(n) ==
    LET rest == n % Ulp(n)
        even == (n \div Ulp(n)) % 2 = 0
    IN  IF 2 * rest < Ulp(n) \/ (2 * rest = Ulp(n) /\ even) THEN n - rest ELSE n - rest + Ulp(n)

\* No float is as large: 2^128 and beyond.
Overflows(n) == \A u \in FloatUlps : Abs(n) >= FloatMantissas * u

\* std::stof: what follows the number is ignored, and the number rounded.
Stof(value) ==
    CASE value.form = "junk"                                     -> Error("invalid format")
      [] Overflows(value.n) \/ Overflows(Rounded(value.n))       -> Error("out of range")
      [] OTHER                                                   -> Ok(Rounded(value.n))

\* uint32: the cast takes the number modulo 2^32, unchecked.
Wide(n) == Ok(n % (Max32 + 1))

\* Variant: the cast is unchecked here, too.
Narrow16Unchecked(n) == Ok(n % (Max16 + 1))

\* uint16 and uint8: checked before the cast.
Narrow16(n) == IF n > Max16 THEN Error("out of bounds") ELSE Ok(n)
Narrow8(n) == IF n > Max8 THEN Error("out of bounds") ELSE Ok(n)

\* What set_radar_mode makes of a value.
Converted(type, value) ==
    LET n == Integral(value)
    IN  IF type \notin 0..3 THEN Error("value_type")
        ELSE IF type = 0 THEN Stof(value)
        ELSE IF n.error # "none" THEN n
        ELSE <<Wide(n.is), Narrow16(n.is), Narrow8(n.is)>>[type]

\* The instruction for an entry of a request, or why there is none.
SetRequest(entry) ==
    LET n == Converted(entry.type, entry.value)
    IN  IF n.error # "none" THEN n ELSE Ok(<<"set", ParamTypes[entry.type + 1], n.is>>)

GetRequest(types, entry) ==
    IF entry.type \in 0..3 THEN Ok(<<"get", types[entry.type + 1], 0>>) ELSE Error("value_type")

\* The command that saves the parameters after the new address was set.
SaveParameters == <<"command", "u32", 2010>>

\* How many instructions a request makes, and the k-th of them.
Count(r) == IF r.service = "set_ip_address" THEN 2 ELSE Len(r.entries)

Instruction(r, k) ==
    CASE r.service = "set_radar_mode"   -> SetRequest(r.entries[k])
      [] r.service = "get_radar_mode"   -> GetRequest(ParamTypes, r.entries[k])
      [] r.service = "get_radar_status" -> GetRequest(StatusTypes, r.entries[k])
      [] r.service = "send_command"     -> Ok(<<"command", "u32", r.entries[1].value.n>>)
      [] r.service = "set_ip_address"   ->
            IF k = 1 THEN Ok(<<"set", "u32", r.entries[1].value.n>>) ELSE Ok(SaveParameters)

\* Variant: the responses to float32 parameters are not looked for.
ShownTypesWithoutFloat(service) ==
    CASE service \in {"set_radar_mode", "get_radar_mode"} -> {"u8", "u16", "u32"}
      [] service = "get_radar_status"                     -> {"u8", "u16", "u32", "i32"}
      [] OTHER                                            -> {"u32"}

\* The types mode_response, param_response, status_response and the others look for.
ShownTypes(service) ==
    CASE service \in {"set_radar_mode", "get_radar_mode"} -> {"u8", "u16", "u32", "f32"}
      [] service = "get_radar_status"                     -> {"u8", "u16", "u32", "i32"}
      [] OTHER                                            -> {"u32"}

\* The instructions whose names the response is searched for.
LookedFor(service) ==
    IF service \in ListServices THEN {"set", "get"}
    ELSE IF service = "set_ip_address" THEN {"set"} ELSE {"command"}

-----------------------------------------------------------------------------

NoRequest == [service |-> "send_command", sensor_id |-> 0, section_known |-> FALSE,
              same_length |-> FALSE, entries |-> <<>>]

Init ==
    /\ handler = "idle"
    /\ request = NoRequest
    /\ client_id = 0
    /\ batch = <<>>
    /\ answers = <<>>
    /\ sent = <<>>
    /\ pending = {}
    /\ responded = <<>>
    /\ shown = <<>>
    /\ warned = <<>>
    /\ fault = "none"

\* The handler returns: the answer goes to the client, a batch not sent is dropped.
Answer(r, text) ==
    /\ answers' = Append(answers, [request |-> r, text |-> text])
    /\ handler' = "idle"
    /\ batch' = <<>>

\* What a handler finds wrong with a request before it turns to the library.
Rejection(r) ==
    IF r.sensor_id \notin ListedIds THEN "sensor id"
    ELSE IF r.service \in SectionServices /\ ~r.section_known THEN "section name"
    ELSE IF r.service \in ListServices /\ ~r.same_length THEN "length"
    ELSE "none"

\* The executor takes the next request: its handler checks it.
Serve(r) ==
    /\ handler = "idle"
    /\ Len(answers) < MaxRequests
    /\ request' = r
    /\ client_id' = r.sensor_id
    /\ IF Rejection(r) # "none"
       THEN Answer(r, Rejection(r))
       ELSE /\ handler' = "allocate"
            /\ UNCHANGED <<batch, answers>>
    /\ UNCHANGED <<sent, responseVars, fault>>

\* The library gives no instruction service: two handlers do not look.
ServiceIsMissing ==
    /\ ServiceMissing
    /\ handler = "allocate"
    /\ IF request.service \in ListServices
       THEN Answer(request, "instruction service") /\ UNCHANGED fault
       ELSE /\ fault' = "no instruction service"
            /\ handler' = "dead"
            /\ UNCHANGED <<batch, answers>>
    /\ UNCHANGED <<request, client_id, sent, responseVars>>

\* AllocateInstructionBatch, which may fail.
Allocate ==
    /\ handler = "allocate"
    /\ \/ /\ handler' = "add"
          /\ UNCHANGED <<batch, answers>>
       \/ Answer(request, "allocate")
    /\ UNCHANGED <<request, client_id, sent, responseVars, fault>>

\* The next instruction is built and added to the batch, or the handler gives up: the
\* entry makes no instruction, or AddRequest refuses it.
AddRequest ==
    /\ handler = "add"
    /\ Len(batch) < Count(request)
    /\ LET instruction == Instruction(request, Len(batch) + 1)
       IN  \/ /\ instruction.error = "none"
              /\ batch' = Append(batch, instruction)
              /\ UNCHANGED <<handler, answers>>
           \/ /\ instruction.error = "none"
              /\ Answer(request, "add instruction")
           \/ /\ instruction.error # "none"
              /\ Answer(request, instruction.error)
    /\ UNCHANGED <<request, client_id, sent, responseVars, fault>>

\* Variant: the batch is sent from inside the loop.
SendBatchEarly ==
    /\ handler = "add"
    /\ batch # <<>>
    /\ sent' = Append(sent, [request |-> request, sensor |-> client_id, batch |-> batch])
    /\ pending' = pending \cup {Len(sent')}
    /\ responded' = Append(responded, {})
    /\ shown' = Append(shown, {})
    /\ warned' = Append(warned, {})
    /\ Answer(request, "Success")
    /\ UNCHANGED <<request, client_id, fault>>

\* Variant: the member still holds the sensor of another request.
SendBatchToLast ==
    /\ handler = "add"
    /\ Len(batch) = Count(request)
    /\ sent' = Append(sent, [request |-> request, batch |-> batch,
                             sensor |-> IF sent = <<>> THEN client_id ELSE sent[1].sensor])
    /\ pending' = pending \cup {Len(sent')}
    /\ responded' = Append(responded, {})
    /\ shown' = Append(shown, {})
    /\ warned' = Append(warned, {})
    /\ Answer(request, "Success")
    /\ UNCHANGED <<request, client_id, fault>>

\* SendInstructionBatch takes the batch, with the names and the section bound to the
\* response handler, or refuses it.
SendBatch ==
    /\ handler = "add"
    /\ Len(batch) = Count(request)
    /\ \/ /\ sent' = Append(sent, [request |-> request, sensor |-> client_id, batch |-> batch])
          /\ pending' = pending \cup {Len(sent')}
          /\ responded' = Append(responded, {})
          /\ shown' = Append(shown, {})
          /\ warned' = Append(warned, {})
          /\ Answer(request, "Success")
       \/ /\ Answer(request, "send")
          /\ UNCHANGED <<sent, responseVars>>
    /\ UNCHANGED <<request, client_id, fault>>

Handler ==
    \/ \E r \in Requests : Serve(r)
    \/ ServiceIsMissing
    \/ Allocate
    \/ AddRequest
    \/ SendBatch

\* The sensor responds to a batch, to some of its instructions: each in the type it was
\* asked in.  The response handler shows what it finds under the names of the request.
ResponseArrives(b, answered) ==
    /\ fault = "none"
    /\ pending' = pending \ {b}
    /\ responded' = [responded EXCEPT ![b] = answered]
    /\ LET service == sent[b].request.service
           names == {k \in DOMAIN sent[b].batch : sent[b].batch[k].is[1] \in LookedFor(service)}
           found == {k \in names \cap answered : sent[b].batch[k].is[2] \in ShownTypes(service)}
       IN  /\ shown' = [shown EXCEPT ![b] = found]
           /\ warned' = [warned EXCEPT ![b] =
                            IF service \in ListServices THEN names \ found ELSE {}]
    /\ UNCHANGED <<handlerVars, answers, sent, fault>>

Responses == \E b \in pending : \E answered \in SUBSET DOMAIN sent[b].batch :
                ResponseArrives(b, answered)

Next == Handler \/ Responses

Spec == Init /\ [][Next]_vars
-----------------------------------------------------------------------------

Texts == {"Success", "sensor id", "section name", "length", "instruction service", "allocate",
          "add instruction", "send", "value_type", "decimal points", "invalid format",
          "out of range", "out of bounds"}

\* The members, the answers and the batches keep their types.
TypeOK ==
    /\ handler \in {"idle", "allocate", "add", "dead"}
    /\ request \in Requests \cup {NoRequest}
    /\ client_id = request.sensor_id
    /\ \A k \in DOMAIN batch : batch[k].error = "none"
    /\ \A i \in DOMAIN answers : /\ answers[i].request \in Requests
                                 /\ answers[i].text \in Texts
    /\ pending \subseteq DOMAIN sent
    /\ \A history \in {responded, shown, warned} :
          /\ DOMAIN history = DOMAIN sent
          /\ \A b \in DOMAIN sent : history[b] \subseteq DOMAIN sent[b].batch
    /\ fault \in {"none", "no instruction service"}

IsSuccess(answer) == answer.text = "Success"

\* How many of the first i answers are "Success".
Successes(log, i) == Cardinality({j \in 1..i : IsSuccess(log[j])})

\* All or nothing: the batches handed to the library are those of the requests answered
\* "Success", one each and in order.  Each holds every instruction of its request; a
\* request with one bad entry, wherever in its list, reaches no sensor.
AllOrNothing ==
    /\ Len(sent) = Successes(answers, Len(answers))
    /\ \A i \in DOMAIN answers :
          IsSuccess(answers[i]) =>
              LET r == answers[i].request
                  s == sent[Successes(answers, i)]
              IN  /\ s.request = r
                  /\ s.batch = [k \in 1..Count(r) |-> Instruction(r, k)]
                  /\ \A k \in DOMAIN s.batch : s.batch[k].error = "none"

\* A batch goes to the sensor its request names, although every handler writes the one
\* member client_id, and to no sensor outside the parameters, the unused id 0 excepted.
BatchGoesToItsSensor ==
    \A b \in DOMAIN sent : /\ sent[b].sensor = sent[b].request.sensor_id
                           /\ sent[b].sensor \in ConfiguredIds \cup {0}

\* The number of an entry reaches the sensor as it was written, except that a uint32 is
\* taken modulo 2^32 and a minus sign modulo 2^64, and that a float from 2^24 on is the
\* nearest there is.
NumbersArrive ==
    \A b \in DOMAIN sent :
        sent[b].request.service = "set_radar_mode" =>
            \A k \in DOMAIN sent[b].batch :
                LET entry == sent[b].request.entries[k]
                    arrived == sent[b].batch[k].is[3]
                IN  \/ arrived = entry.value.n
                    \/ /\ entry.type = 0
                       /\ Abs(entry.value.n) >= FloatMantissas
                       /\ 2 * Abs(arrived - entry.value.n) <= Ulp(entry.value.n)
                    \/ entry.value.n < 0 /\ entry.type # 0
                    \/ entry.value.n > Max32 /\ entry.type = 1

\* "Check main terminal for sensor response!": whatever the sensor responded to a list
\* service is shown, in whatever type it was asked for, and each name without a response
\* is warned about, also if the responses come in another order than the batches went.
EveryResponseIsShown ==
    \A b \in DOMAIN sent \ pending :
        /\ sent[b].request.service \in ListServices =>
              /\ shown[b] = responded[b]
              /\ warned[b] = DOMAIN sent[b].batch \ responded[b]
        /\ sent[b].request.service \notin ListServices /\ 1 \in responded[b] => 1 \in shown[b]

-----------------------------------------------------------------------------
(* The handlers take many steps; to a client it looks like one.             *)

\* The requests whose responses are all looked for.
Listing == {r \in Requests : r.service \in ListServices}

Abstract == INSTANCE InstructionServices WITH open <- pending

\* A request has all its effect or none, on its own sensor, and its answer tells which and
\* why; a response is shown once, as the request it belongs to asked for it.
ImplementsInstructionServices == Abstract!SvcSpec

-----------------------------------------------------------------------------
(* What an error text of the code says and the code does not do.            *)

\* "Sensor ID entered is not listed in the param file!": a request for a sensor that is
\* not in the parameters is answered so, and is not turned over to the library.
UnlistedSensorIsRejected ==
    \A i \in DOMAIN answers :
        answers[i].request.sensor_id \notin ConfiguredIds => answers[i].text = "sensor id"
=============================================================================
