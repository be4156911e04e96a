-------------------------- MODULE InstructionsProofs --------------------------
(***************************************************************************)
(* Proofs about Instructions, for any sensors, requests and widths of the   *)
(* integer types.  What holds between the steps: the batch under way holds  *)
(* the first instructions of the request served (BatchInv); each batch sent *)
(* is whole and belongs to a "Success" of its own (SentInv, AnswersInv);    *)
(* and what was shown is what the sensor responded to (ResponsesInv).       *)
(***************************************************************************)
EXTENDS Instructions, SequenceTheorems, FiniteSetTheorems, WellFoundedInduction, TLAPS

\* What a handler may add to a batch.
Made == {Instruction(r, k) : r \in Requests, k \in Nat}

Handed == [request : Requests, sensor : Nat, batch : Seq(Made)]

Answered == [request : Requests, text : Texts]

Faults == {"none", "no instruction service"}

TypeInv ==
    /\ handler \in {"idle", "allocate", "add", "dead"}
    /\ batch \in Seq(Made)
    /\ answers \in Seq(Answered)
    /\ sent \in Seq(Handed)
    /\ pending \subseteq 1..Len(sent)
    /\ responded \in Seq(SUBSET Nat) /\ Len(responded) = Len(sent)
    /\ shown \in Seq(SUBSET Nat) /\ Len(shown) = Len(sent)
    /\ warned \in Seq(SUBSET Nat) /\ Len(warned) = Len(sent)
    /\ fault \in Faults

RequestInv ==
    /\ request \in Requests \cup {NoRequest}
    /\ client_id = request.sensor_id
    /\ handler \in {"allocate", "add"} => request \in Requests /\ Rejection(request) = "none"

BatchInv ==
    /\ handler # "add" => batch = <<>>
    /\ \A k \in 1..Len(batch) : batch[k] = Instruction(request, k) /\ batch[k].error = "none"

\* A batch handed to the library is that of its request, and whole.
SentInv ==
    \A b \in 1..Len(sent) :
        LET r == sent[b].request
        IN  /\ sent[b].sensor = r.sensor_id
            /\ r.sensor_id \in ListedIds
            /\ Len(sent[b].batch) = Count(r)
            /\ \A k \in 1..Count(r) : /\ sent[b].batch[k] = Instruction(r, k)
                                      /\ sent[b].batch[k].error = "none"

AnswersInv ==
    /\ Len(sent) = Successes(answers, Len(answers))
    /\ \A i \in 1..Len(answers) :
          IsSuccess(answers[i]) =>
              /\ Successes(answers, i) \in 1..Len(sent)
              /\ sent[Successes(answers, i)].request = answers[i].request

\* What is shown and warned about for a batch, and that it fits a service's promise.
ResponsesInv ==
    \A b \in 1..Len(sent) :
        /\ responded[b] \subseteq 1..Len(sent[b].batch)
        /\ shown[b] \subseteq 1..Len(sent[b].batch)
        /\ warned[b] \subseteq 1..Len(sent[b].batch)
        /\ b \notin pending =>
              /\ sent[b].request.service \in ListServices =>
                    /\ shown[b] = responded[b]
                    /\ warned[b] = (1..Len(sent[b].batch)) \ responded[b]
              /\ sent[b].request.service \notin ListServices /\ 1 \in responded[b] =>
                    1 \in shown[b]

IInv ==
    /\ TypeInv
    /\ RequestInv
    /\ BatchInv
    /\ SentInv
    /\ AnswersInv
    /\ ResponsesInv

-----------------------------------------------------------------------------
(* Requests, instructions and counting.                                     *)

LEMMA RequestTypes ==
    ASSUME NEW r \in Requests
    PROVE  /\ r.service \in Services
           /\ r.sensor_id \in Nat
           /\ r.entries \in Seq([type : Nat, value : Value])
           /\ Count(r) \in Nat
           /\ r.service \notin ListServices => Len(r.entries) = 1
<1>1. r \in Request
  BY InstructionsAssumption
<1>2. /\ r.service \in Services /\ r.sensor_id \in Nat
      /\ r.entries \in Seq([type : Nat, value : Value])
  BY <1>1 DEF Request
<1>3. r.service \notin ListServices => Len(r.entries) = 1
  BY InstructionsAssumption
<1>. QED
  BY <1>2, <1>3 DEF Count

LEMMA TextFacts ==
    /\ {"value_type", "decimal points", "invalid format", "out of range", "out of bounds"}
          \subseteq Texts \ {"Success", "none"}
    /\ {"sensor id", "section name", "length", "instruction service", "allocate",
        "add instruction", "send"} \subseteq Texts \ {"Success", "none"}
    /\ "Success" \in Texts
BY DEF Texts

LEMMA RejectionText ==
    ASSUME NEW r
    PROVE  Rejection(r) = "none" \/ Rejection(r) \in Texts \ {"Success", "none"}
BY TextFacts, Zenon DEF Rejection

\* Why a value makes no instruction.
ValueErrors == {"value_type", "decimal points", "invalid format", "out of range", "out of bounds"}

LEMMA OkAndError ==
    /\ \A x : Ok(x).error = "none" /\ Ok(x).is = x
    /\ \A why : Error(why).error = why
BY DEF Ok, Error

LEMMA ConvertedErrors ==
    ASSUME NEW type, NEW value
    PROVE  Converted(type, value).error \in ValueErrors \cup {"none"}
<1>1. \A v : Stoul(v).error \in ValueErrors \cup {"none"}
  BY OkAndError, Zenon DEF Stoul, ValueErrors
<1>2. \A v : Integral(v).error \in ValueErrors \cup {"none"}
  BY <1>1, OkAndError, Zenon DEF Integral, ValueErrors
<1>10. \A v : Stof(v).error \in ValueErrors \cup {"none"}
  BY OkAndError, Zenon DEF Stof, ValueErrors
<1>3. \A n : /\ Wide(n).error \in ValueErrors \cup {"none"}
             /\ Narrow16(n).error \in ValueErrors \cup {"none"}
             /\ Narrow8(n).error \in ValueErrors \cup {"none"}
  BY OkAndError, Zenon DEF Wide, Narrow16, Narrow8, ValueErrors
<1>4. PICK n : n = Integral(value)
  OBVIOUS
<1>5. PICK wide, narrow16, narrow8 :
         wide = Wide(n.is) /\ narrow16 = Narrow16(n.is) /\ narrow8 = Narrow8(n.is)
  OBVIOUS
<1>6. \/ Converted(type, value) = Error("value_type")
      \/ Converted(type, value) = Stof(value)
      \/ Converted(type, value) = n
      \/ type \in 1..3 /\ Converted(type, value) = <<wide, narrow16, narrow8>>[type]
  <2>1. type \in 0..3 /\ type # 0 => type \in 1..3
    OBVIOUS
  <2>. QED
    BY <1>4, <1>5, <2>1, Zenon DEF Converted
<1>7. type \in 1..3 => <<wide, narrow16, narrow8>>[type] \in {wide, narrow16, narrow8}
  OBVIOUS
<1>8. Error("value_type").error \in ValueErrors
  BY OkAndError, Zenon DEF ValueErrors
<1>9. wide.error \in ValueErrors \cup {"none"} /\ narrow16.error \in ValueErrors \cup {"none"}
      /\ narrow8.error \in ValueErrors \cup {"none"} /\ n.error \in ValueErrors \cup {"none"}
  BY <1>2, <1>3, <1>4, <1>5
<1>. QED
  BY <1>6, <1>7, <1>8, <1>9, <1>10, OkAndError, Zenon

\* An instruction is of the kind and the type its response is looked for in.
LEMMA InstructionShape ==
    ASSUME NEW r \in Requests, NEW k \in 1..Count(r)
    PROVE  /\ Instruction(r, k).error \in ValueErrors \cup {"none"}
           /\ Instruction(r, k).error = "none" /\ (r.service \in ListServices \/ k = 1) =>
                 /\ Instruction(r, k).is[1] \in LookedFor(r.service)
                 /\ Instruction(r, k).is[2] \in ShownTypes(r.service)
<1>. DEFINE entry == r.entries[k]
<1>1. r.service \in Services /\ (r.service \in ListServices => entry.type \in Nat)
  <2>1. r.service \in ListServices => k \in 1..Len(r.entries)
    BY DEF Count, ListServices
  <2>2. r.service \in Services /\ r.entries \in Seq([type : Nat, value : Value])
    BY RequestTypes
  <2>3. r.service \in ListServices => entry \in [type : Nat, value : Value]
    BY <2>1, <2>2, ElementOfSeq
  <2>. QED
    BY <2>2, <2>3
<1>2. CASE r.service = "set_radar_mode"
  <2>1. Instruction(r, k) = SetRequest(entry)
    BY <1>2 DEF Instruction
  <2>2. PICK n : n = Converted(entry.type, entry.value)
    OBVIOUS
  <2>3. n.error \in ValueErrors \cup {"none"}
    BY <2>2, ConvertedErrors
  <2>4. CASE n.error # "none"
    BY <2>1, <2>2, <2>3, <2>4 DEF SetRequest
  <2>5. CASE n.error = "none"
    <3>1. entry.type \in 0..3
      <4>1. entry.type \notin 0..3 => n.error = "value_type"
        BY <2>2, OkAndError DEF Converted
      <4>. QED
        BY <2>5, <4>1
    <3>2. ParamTypes[entry.type + 1] \in {"f32", "u32", "u16", "u8"}
      BY <3>1 DEF ParamTypes
    <3>3. PICK word : word = ParamTypes[entry.type + 1]
      OBVIOUS
    <3>4. Instruction(r, k) = Ok(<<"set", word, n.is>>)
      BY <2>1, <2>2, <2>5, <3>3 DEF SetRequest
    <3>5. Instruction(r, k).error = "none" /\ Instruction(r, k).is[1] = "set"
          /\ Instruction(r, k).is[2] = word
      BY <3>4, OkAndError
    <3>. QED
      BY <1>2, <3>2, <3>3, <3>5 DEF LookedFor, ListServices, ShownTypes
  <2>. QED
    BY <2>4, <2>5
<1>3. ASSUME r.service \in {"get_radar_mode", "get_radar_status"}, NEW types,
             types = IF r.service = "get_radar_mode" THEN ParamTypes ELSE StatusTypes
      PROVE  /\ Instruction(r, k).error \in ValueErrors \cup {"none"}
             /\ Instruction(r, k).error = "none" =>
                   /\ Instruction(r, k).is[1] \in LookedFor(r.service)
                   /\ Instruction(r, k).is[2] \in ShownTypes(r.service)
  <2>1. Instruction(r, k) = GetRequest(types, entry)
    BY <1>3 DEF Instruction
  <2>2. CASE entry.type \notin 0..3
    BY <2>1, <2>2, OkAndError DEF GetRequest, ValueErrors
  <2>3. CASE entry.type \in 0..3
    <3>1. types[entry.type + 1] \in ShownTypes(r.service)
      BY <1>3, <2>3 DEF ParamTypes, StatusTypes, ShownTypes
    <3>2. PICK word : word = types[entry.type + 1]
      OBVIOUS
    <3>3. Instruction(r, k) = Ok(<<"get", word, 0>>)
      BY <2>1, <2>3, <3>2 DEF GetRequest
    <3>4. Instruction(r, k).error = "none" /\ Instruction(r, k).is[1] = "get"
          /\ Instruction(r, k).is[2] = word
      BY <3>3, OkAndError
    <3>. QED
      BY <1>3, <3>1, <3>2, <3>4 DEF LookedFor, ListServices
  <2>. QED
    BY <2>2, <2>3
<1>4. CASE r.service = "send_command"
  <2>1. PICK n : n = r.entries[1].value.n
    OBVIOUS
  <2>2. Instruction(r, k) = Ok(<<"command", "u32", n>>)
    BY <1>4, <2>1 DEF Instruction
  <2>3. Instruction(r, k).error = "none" /\ Instruction(r, k).is[1] = "command"
        /\ Instruction(r, k).is[2] = "u32"
    BY <2>2, OkAndError
  <2>. QED
    BY <1>4, <2>3 DEF LookedFor, ListServices, ShownTypes
<1>5. CASE r.service = "set_ip_address"
  <2>1. PICK n : n = r.entries[1].value.n
    OBVIOUS
  <2>2. Instruction(r, k) = IF k = 1 THEN Ok(<<"set", "u32", n>>) ELSE Ok(SaveParameters)
    BY <1>5, <2>1 DEF Instruction
  <2>3. Instruction(r, k).error = "none"
        /\ (k = 1 => Instruction(r, k).is[1] = "set" /\ Instruction(r, k).is[2] = "u32")
    BY <2>2, OkAndError
  <2>. QED
    BY <1>5, <2>3 DEF LookedFor, ListServices, ShownTypes
<1>6. r.service \in {"set_radar_mode", "get_radar_mode", "get_radar_status", "send_command",
                     "set_ip_address"}
  BY <1>1 DEF Services, SectionServices, ListServices
<1>. QED
  BY <1>2, <1>3, <1>4, <1>5, <1>6

\* A request that is no list has one instruction whose response is looked for.
LEMMA OnlyTheFirst ==
    ASSUME NEW r \in Requests, r.service \notin ListServices, NEW k \in 1..Count(r), k # 1
    PROVE  Instruction(r, k).is[1] \notin LookedFor(r.service)
<1>1. r.service = "set_ip_address"
  <2>1. Len(r.entries) = 1
    BY RequestTypes
  <2>. QED
    BY <2>1 DEF Count
<1>2. Instruction(r, k) = Ok(SaveParameters)
  BY <1>1 DEF Instruction
<1>3. Instruction(r, k).is[1] = "command"
  BY <1>2, OkAndError DEF SaveParameters
<1>. QED
  BY <1>1, <1>3 DEF LookedFor, ListServices

\* The first i answers hold one success more when the i-th is one.
LEMMA Counting ==
    ASSUME NEW S, NEW log \in Seq(S), NEW a \in S
    PROVE  LET more == Append(log, a)
           IN  /\ \A i \in 1..Len(log) : Successes(more, i) = Successes(log, i)
               /\ Successes(log, Len(log)) \in Nat
               /\ Successes(more, Len(log)) = Successes(log, Len(log))
               /\ IsSuccess(a) =>
                     Successes(more, Len(log) + 1) = Successes(log, Len(log)) + 1
               /\ ~IsSuccess(a) => Successes(more, Len(log) + 1) = Successes(log, Len(log))
<1>. DEFINE L == Len(log)
            more == Append(log, a)
            Hits(i) == {j \in 1..i : IsSuccess(log[j])}
<1>1. /\ L \in Nat /\ more \in Seq(S) /\ Len(more) = L + 1
      /\ more[L + 1] = a /\ \A j \in 1..L : more[j] = log[j]
  OBVIOUS
<1>2. \A i \in 0..L : {j \in 1..i : IsSuccess(more[j])} = Hits(i)
  BY <1>1
<1>3. {j \in 1..(L + 1) : IsSuccess(more[j])}
         = IF IsSuccess(a) THEN Hits(L) \cup {L + 1} ELSE Hits(L)
  <2>1. \A j : j \in 1..(L + 1) <=> j \in 1..L \/ j = L + 1
    BY <1>1
  <2>. HIDE DEF L, more
  <2>. QED
    BY <1>1, <2>1
<1>4. IsFiniteSet(Hits(L)) /\ Cardinality(Hits(L)) \in Nat
  <2>1. IsFiniteSet(1..L)
    BY <1>1, FS_Interval
  <2>2. IsFiniteSet(Hits(L))
    BY <2>1, FS_Subset
  <2>. QED
    BY <2>2, FS_CardinalityType
<1>5. Cardinality(Hits(L) \cup {L + 1}) = Cardinality(Hits(L)) + 1
  <2>1. L + 1 \notin Hits(L)
    BY <1>1
  <2>. HIDE DEF Hits
  <2>. QED
    BY <1>4, <2>1, FS_AddElement
<1>6. \A i \in 1..L : Successes(more, i) = Successes(log, i)
  <2>1. \A i \in 1..L : i \in 0..L
    BY <1>1
  <2>2. \A i \in 1..L : {j \in 1..i : IsSuccess(more[j])} = Hits(i)
    BY <1>2, <2>1
  <2>. HIDE DEF L, more
  <2>. QED
    BY <2>2 DEF Successes
<1>7. Successes(log, L) = Cardinality(Hits(L)) /\ Successes(more, L) = Cardinality(Hits(L))
  BY <1>1, <1>2 DEF Successes
<1>8. Successes(more, L + 1)
         = Cardinality(IF IsSuccess(a) THEN Hits(L) \cup {L + 1} ELSE Hits(L))
  BY <1>3 DEF Successes
<1>. HIDE DEF L, more, Hits
<1>9. /\ \A i \in 1..L : Successes(more, i) = Successes(log, i)
      /\ Successes(log, L) \in Nat
      /\ Successes(more, L) = Successes(log, L)
      /\ IsSuccess(a) => Successes(more, L + 1) = Successes(log, L) + 1
      /\ ~IsSuccess(a) => Successes(more, L + 1) = Successes(log, L)
  BY <1>4, <1>5, <1>6, <1>7, <1>8
<1>. QED
  BY <1>9 DEF L, more

-----------------------------------------------------------------------------
(* The invariant is inductive.                                              *)

LEMMA InitIInv == Init => IInv
<1>. SUFFICES ASSUME Init PROVE IInv
  OBVIOUS
<1>1. \A S : <<>> \in Seq(S) /\ Len(<<>>) = 0
  OBVIOUS
<1>2. TypeInv
  BY <1>1 DEF Init, TypeInv, Faults
<1>3. RequestInv /\ BatchInv
  BY <1>1 DEF Init, RequestInv, BatchInv, NoRequest
<1>4. SentInv /\ ResponsesInv
  BY <1>1 DEF Init, SentInv, ResponsesInv
<1>5. AnswersInv
  <2>1. {j \in 1..Len(<<>>) : IsSuccess(<<>>[j])} = {}
    BY <1>1
  <2>2. Successes(<<>>, Len(<<>>)) = 0
    BY <2>1, FS_EmptySet DEF Successes
  <2>. QED
    BY <1>1, <2>2 DEF Init, AnswersInv
<1>. QED
  BY <1>2, <1>3, <1>4, <1>5 DEF IInv

\* An answer that is no success leaves the counting as it was.
LEMMA AnswerIInv ==
    ASSUME IInv, NEW r \in Requests, NEW text \in Texts \ {"Success"}, Answer(r, text),
           UNCHANGED <<sent, responseVars, fault>>,
           request' \in Requests, client_id' = request'.sensor_id
    PROVE  IInv'
<1>1. UNCHANGED <<sent, pending, responded, shown, warned, fault>>
      /\ handler' = "idle" /\ batch' = <<>>
  BY DEF Answer, responseVars
<1>2. PICK a : a = [request |-> r, text |-> text]
  OBVIOUS
<1>3. a \in Answered /\ a.request = r /\ ~IsSuccess(a) /\ answers' = Append(answers, a)
  BY <1>2 DEF Answered, Answer, IsSuccess
<1>4. answers \in Seq(Answered)
  BY DEF IInv, TypeInv
<1>5. /\ answers' \in Seq(Answered) /\ Len(answers) \in Nat
      /\ Len(answers') = Len(answers) + 1 /\ answers'[Len(answers')] = a
      /\ \A i \in 1..Len(answers) : answers'[i] = answers[i]
  BY <1>3, <1>4
<1>6. Len(<<>>) = 0 /\ <<>> \in Seq(Made)
  OBVIOUS
<1>7. TypeInv'
  BY <1>1, <1>5, <1>6 DEF IInv, TypeInv
<1>8. RequestInv' /\ BatchInv'
  BY <1>1, <1>6 DEF RequestInv, BatchInv
<1>9. SentInv' /\ ResponsesInv'
  BY <1>1 DEF IInv, SentInv, ResponsesInv
<1>10. AnswersInv'
  <2>1. /\ \A i \in 1..Len(answers) : Successes(answers', i) = Successes(answers, i)
        /\ Successes(answers', Len(answers')) = Successes(answers, Len(answers))
    BY <1>3, <1>4, <1>5, Counting
  <2>2. \A i \in 1..Len(answers') : i \in 1..Len(answers) \/ i = Len(answers')
    BY <1>5
  <2>3. ASSUME NEW i \in 1..Len(answers'), IsSuccess(answers'[i])
        PROVE  i \in 1..Len(answers) /\ answers'[i] = answers[i]
    BY <1>3, <1>5, <2>2, <2>3
  <2>. QED
    BY <1>1, <2>1, <2>3 DEF IInv, AnswersInv
<1>. QED
  BY <1>7, <1>8, <1>9, <1>10 DEF IInv

LEMMA ServeIInv == ASSUME IInv, NEW r \in Requests, Serve(r) PROVE IInv'
<1>1. request' = r /\ client_id' = r.sensor_id /\ UNCHANGED <<sent, responseVars, fault>>
  BY DEF Serve
<1>2. CASE Rejection(r) # "none"
  <2>1. Rejection(r) \in Texts \ {"Success"} /\ Answer(r, Rejection(r))
    BY <1>2, RejectionText DEF Serve
  <2>. QED
    BY <1>1, <2>1, AnswerIInv
<1>3. CASE Rejection(r) = "none"
  <2>1. handler = "idle" /\ handler' = "allocate" /\ UNCHANGED <<batch, answers>>
    BY <1>3 DEF Serve
  <2>2. TypeInv'
    BY <1>1, <2>1 DEF IInv, TypeInv, responseVars
  <2>3. RequestInv'
    BY <1>1, <1>3, <2>1 DEF RequestInv, Rejection, ListedIds
  <2>4. BatchInv'
    <3>1. batch = <<>> /\ Len(<<>>) = 0
      BY <2>1 DEF IInv, BatchInv
    <3>. QED
      BY <2>1, <3>1 DEF BatchInv
  <2>5. SentInv' /\ AnswersInv' /\ ResponsesInv'
    BY <1>1, <2>1 DEF IInv, SentInv, AnswersInv, ResponsesInv, responseVars
  <2>. QED
    BY <2>2, <2>3, <2>4, <2>5 DEF IInv
<1>. QED
  BY <1>2, <1>3

\* A step of a handler that neither answers nor sends.
LEMMA QuietIInv ==
    ASSUME IInv, UNCHANGED <<request, client_id, answers, sent, responseVars>>,
           handler' \in {"add", "dead"},
           handler' = "add" => handler \in {"allocate", "add"},
           fault' \in Faults,
           batch' \in Seq(Made),
           handler' # "add" => batch' = <<>>,
           \A k \in 1..Len(batch') :
              batch'[k] = Instruction(request, k) /\ batch'[k].error = "none"
    PROVE  IInv'
<1>1. UNCHANGED <<request, client_id, answers, sent, pending, responded, shown, warned>>
  BY DEF responseVars
<1>2. TypeInv'
  BY <1>1 DEF IInv, TypeInv
<1>3. RequestInv' /\ BatchInv'
  BY <1>1 DEF IInv, RequestInv, BatchInv
<1>4. SentInv'
  BY <1>1 DEF IInv, SentInv
<1>5. AnswersInv'
  BY <1>1 DEF IInv, AnswersInv
<1>6. ResponsesInv'
  BY <1>1 DEF IInv, ResponsesInv
<1>. QED
  BY <1>2, <1>3, <1>4, <1>5, <1>6 DEF IInv

LEMMA ServiceIsMissingIInv == IInv /\ ServiceIsMissing => IInv'
<1>. SUFFICES ASSUME IInv, ServiceIsMissing PROVE IInv'
  OBVIOUS
<1>1. /\ UNCHANGED <<request, client_id, sent, responseVars>>
      /\ handler = "allocate" /\ batch = <<>>
      /\ request \in Requests /\ client_id = request.sensor_id
  BY DEF ServiceIsMissing, IInv, RequestInv, BatchInv
<1>2. CASE request.service \in ListServices
  <2>1. Answer(request, "instruction service") /\ UNCHANGED fault
    BY <1>2 DEF ServiceIsMissing
  <2>2. "instruction service" \in Texts \ {"Success"}
    BY TextFacts
  <2>. QED
    BY <1>1, <2>1, <2>2, AnswerIInv
<1>3. CASE request.service \notin ListServices
  <2>1. fault' \in Faults /\ handler' = "dead" /\ UNCHANGED <<batch, answers>>
    BY <1>3, Zenon DEF ServiceIsMissing, Faults
  <2>2. /\ batch' = <<>> /\ batch' \in Seq(Made)
        /\ \A k \in 1..Len(batch') : FALSE
    BY <1>1, <2>1
  <2>. QED
    BY <1>1, <2>1, <2>2, QuietIInv
<1>. QED
  BY <1>2, <1>3

LEMMA AllocateIInv == IInv /\ Allocate => IInv'
<1>. SUFFICES ASSUME IInv, Allocate PROVE IInv'
  OBVIOUS
<1>1. /\ UNCHANGED <<request, client_id, sent, responseVars, fault>>
      /\ handler = "allocate" /\ batch = <<>>
      /\ request \in Requests /\ client_id = request.sensor_id
  BY DEF Allocate, IInv, RequestInv, BatchInv
<1>2. CASE handler' = "add" /\ UNCHANGED <<batch, answers>>
  <2>1. /\ batch' = <<>> /\ batch' \in Seq(Made)
        /\ \A k \in 1..Len(batch') : FALSE
    BY <1>1, <1>2
  <2>2. fault' \in Faults
    BY <1>1 DEF IInv, TypeInv
  <2>. QED
    BY <1>1, <1>2, <2>1, <2>2, QuietIInv
<1>3. CASE Answer(request, "allocate")
  <2>1. "allocate" \in Texts \ {"Success"}
    BY TextFacts
  <2>. QED
    BY <1>1, <1>3, <2>1, AnswerIInv
<1>. QED
  BY <1>2, <1>3 DEF Allocate

LEMMA AddRequestIInv == IInv /\ AddRequest => IInv'
<1>. SUFFICES ASSUME IInv, AddRequest PROVE IInv'
  OBVIOUS
<1>1. PICK k : k = Len(batch) + 1
  OBVIOUS
<1>2. PICK instruction : instruction = Instruction(request, k)
  OBVIOUS
<1>3. /\ UNCHANGED <<request, client_id, sent, responseVars, fault>>
      /\ handler = "add" /\ request \in Requests /\ client_id = request.sensor_id
      /\ Len(batch) < Count(request)
  BY DEF AddRequest, IInv, RequestInv
<1>4. batch \in Seq(Made) /\ fault \in Faults
  BY DEF IInv, TypeInv
<1>5. k \in 1..Count(request) /\ k \in Nat
  <2>1. Count(request) \in Nat
    BY <1>3, RequestTypes
  <2>2. Len(batch) \in Nat
    BY <1>4
  <2>. QED
    BY <1>1, <1>3, <2>1, <2>2
<1>6. instruction \in Made
  BY <1>2, <1>3, <1>5 DEF Made
<1>7. CASE /\ instruction.error = "none"
           /\ batch' = Append(batch, instruction)
           /\ UNCHANGED <<handler, answers>>
  <2>1. /\ batch' \in Seq(Made) /\ Len(batch') = k /\ batch'[k] = instruction
        /\ \A j \in 1..Len(batch) : batch'[j] = batch[j]
    BY <1>1, <1>4, <1>6, <1>7
  <2>2. \A j \in 1..Len(batch') : j \in 1..Len(batch) \/ j = k
    BY <1>1, <1>4, <2>1
  <2>3. \A j \in 1..Len(batch') :
           batch'[j] = Instruction(request, j) /\ batch'[j].error = "none"
    BY <1>2, <1>7, <2>1, <2>2 DEF IInv, BatchInv
  <2>. QED
    BY <1>3, <1>4, <1>7, <2>1, <2>3, QuietIInv
<1>8. CASE Answer(request, "add instruction")
  <2>1. "add instruction" \in Texts \ {"Success"}
    BY TextFacts
  <2>. QED
    BY <1>3, <1>8, <2>1, AnswerIInv
<1>9. CASE instruction.error # "none" /\ Answer(request, instruction.error)
  <2>1. instruction.error \in ValueErrors
    BY <1>2, <1>3, <1>5, <1>9, InstructionShape
  <2>2. instruction.error \in Texts \ {"Success"}
    BY <2>1, TextFacts DEF ValueErrors
  <2>. QED
    BY <1>3, <1>9, <2>2, AnswerIInv
<1>. QED
  BY <1>1, <1>2, <1>7, <1>8, <1>9 DEF AddRequest

\* The batch of a success is the next one, and whole.
LEMMA SendBatchIInv == IInv /\ SendBatch => IInv'
<1>. SUFFICES ASSUME IInv, SendBatch PROVE IInv'
  OBVIOUS
<1>1. /\ UNCHANGED <<request, client_id, fault>>
      /\ handler = "add" /\ request \in Requests /\ client_id = request.sensor_id
      /\ Len(batch) = Count(request)
      /\ Rejection(request) = "none"
  BY DEF SendBatch, IInv, RequestInv
<1>2. CASE Answer(request, "send") /\ UNCHANGED <<sent, responseVars>>
  <2>1. "send" \in Texts \ {"Success"}
    BY TextFacts
  <2>. QED
    BY <1>1, <1>2, <2>1, AnswerIInv
<1>3. CASE /\ sent' = Append(sent, [request |-> request, sensor |-> client_id, batch |-> batch])
           /\ pending' = pending \cup {Len(sent')}
           /\ responded' = Append(responded, {})
           /\ shown' = Append(shown, {})
           /\ warned' = Append(warned, {})
           /\ Answer(request, "Success")
  <2>1. PICK h : h = [request |-> request, sensor |-> client_id, batch |-> batch]
    OBVIOUS
  <2>2. PICK a : a = [request |-> request, text |-> "Success"]
    OBVIOUS
  <2>3. PICK n : n = Len(sent) + 1
    OBVIOUS
  <2>4. /\ sent \in Seq(Handed) /\ batch \in Seq(Made) /\ answers \in Seq(Answered)
        /\ responded \in Seq(SUBSET Nat) /\ Len(responded) = Len(sent)
        /\ shown \in Seq(SUBSET Nat) /\ Len(shown) = Len(sent)
        /\ warned \in Seq(SUBSET Nat) /\ Len(warned) = Len(sent)
        /\ pending \subseteq 1..Len(sent)
        /\ fault \in Faults
    BY DEF IInv, TypeInv
  <2>5. /\ h \in Handed /\ h.request = request /\ h.sensor = request.sensor_id
        /\ h.batch = batch
    BY <1>1, <2>1, <2>4, RequestTypes DEF Handed
  <2>6. a \in Answered /\ a.request = request /\ IsSuccess(a)
    BY <1>1, <2>2, TextFacts DEF Answered, IsSuccess
  <2>7. /\ sent' \in Seq(Handed) /\ Len(sent') = n /\ sent'[n] = h /\ n \in Nat
        /\ \A b \in 1..Len(sent) : sent'[b] = sent[b]
    BY <1>3, <2>1, <2>3, <2>4, <2>5
  <2>8. /\ responded' \in Seq(SUBSET Nat) /\ Len(responded') = n /\ responded'[n] = {}
        /\ \A b \in 1..Len(sent) : responded'[b] = responded[b]
    BY <1>3, <2>3, <2>4
  <2>9. /\ shown' \in Seq(SUBSET Nat) /\ Len(shown') = n /\ shown'[n] = {}
        /\ \A b \in 1..Len(sent) : shown'[b] = shown[b]
    BY <1>3, <2>3, <2>4
  <2>10. /\ warned' \in Seq(SUBSET Nat) /\ Len(warned') = n /\ warned'[n] = {}
         /\ \A b \in 1..Len(sent) : warned'[b] = warned[b]
    BY <1>3, <2>3, <2>4
  <2>11. \A b \in 1..n : b \in 1..Len(sent) \/ b = n
    BY <2>3, <2>4
  <2>12. \A b \in 1..Len(sent) : b \in 1..n /\ b # n
    BY <2>3, <2>4
  <2>13. pending' = pending \cup {n} /\ n \in 1..n
    BY <1>3, <2>7, <2>3, <2>4
  <2>14. handler' = "idle" /\ batch' = <<>> /\ answers' = Append(answers, a)
    BY <1>3, <2>2 DEF Answer
  <2>15. /\ answers' \in Seq(Answered) /\ Len(answers) \in Nat
         /\ Len(answers') = Len(answers) + 1 /\ answers'[Len(answers')] = a
         /\ \A i \in 1..Len(answers) : answers'[i] = answers[i]
    BY <2>4, <2>6, <2>14
  <2>16. TypeInv'
    <3>1. pending' \subseteq 1..n
      BY <2>4, <2>12, <2>13
    <3>2. <<>> \in Seq(Made)
      OBVIOUS
    <3>. QED
      BY <1>1, <2>4, <2>7, <2>8, <2>9, <2>10, <2>14, <2>15, <3>1, <3>2 DEF TypeInv
  <2>17. RequestInv' /\ BatchInv'
    <3>1. \A k \in 1..Len(<<>>) : FALSE
      OBVIOUS
    <3>. QED
      BY <1>1, <2>14, <3>1 DEF RequestInv, BatchInv
  <2>18. SentInv'
    <3>1. request.sensor_id \in ListedIds
      BY <1>1, Zenon DEF Rejection
    <3>2. \A k \in 1..Len(batch) :
             batch[k] = Instruction(request, k) /\ batch[k].error = "none"
      BY DEF IInv, BatchInv
    <3>. QED
      BY <1>1, <2>5, <2>7, <2>11, <3>1, <3>2 DEF IInv, SentInv
  <2>19. ResponsesInv'
    BY <2>7, <2>8, <2>9, <2>10, <2>11, <2>13 DEF IInv, ResponsesInv
  <2>20. AnswersInv'
    <3>1. /\ \A i \in 1..Len(answers) : Successes(answers', i) = Successes(answers, i)
          /\ Successes(answers', Len(answers')) = Successes(answers, Len(answers)) + 1
      BY <2>4, <2>6, <2>14, <2>15, Counting
    <3>2. Successes(answers', Len(answers')) = n
      BY <2>3, <3>1 DEF IInv, AnswersInv
    <3>3. ASSUME NEW i \in 1..Len(answers'), IsSuccess(answers'[i])
          PROVE  /\ Successes(answers', i) \in 1..n
                 /\ sent'[Successes(answers', i)].request = answers'[i].request
      <4>1. CASE i \in 1..Len(answers)
        BY <2>7, <2>12, <2>15, <3>1, <3>3, <4>1 DEF IInv, AnswersInv
      <4>2. CASE i = Len(answers')
        BY <2>5, <2>6, <2>7, <2>13, <2>15, <3>2, <4>2
      <4>3. i \in 1..Len(answers) \/ i = Len(answers')
        BY <2>15
      <4>. QED
        BY <4>1, <4>2, <4>3
    <3>. QED
      BY <2>7, <3>2, <3>3 DEF AnswersInv
  <2>. QED
    BY <2>16, <2>17, <2>18, <2>19, <2>20 DEF IInv
<1>. QED
  BY <1>2, <1>3 DEF SendBatch

\* The responses to one batch leave the others alone, and all that are looked for are found.
LEMMA ResponseArrivesIInv ==
    ASSUME IInv, NEW b \in pending, NEW answered \in SUBSET DOMAIN sent[b].batch,
           ResponseArrives(b, answered)
    PROVE  IInv'
<1>1. PICK r : r = sent[b].request
  OBVIOUS
<1>2. PICK names : names = {k \in DOMAIN sent[b].batch :
                              sent[b].batch[k].is[1] \in LookedFor(r.service)}
  OBVIOUS
<1>3. PICK found : found = {k \in names \cap answered :
                              sent[b].batch[k].is[2] \in ShownTypes(r.service)}
  OBVIOUS
<1>4. PICK warning : warning = IF r.service \in ListServices THEN names \ found ELSE {}
  OBVIOUS
<1>5. /\ UNCHANGED <<handler, request, client_id, batch, answers, sent, fault>>
      /\ pending' = pending \ {b}
      /\ responded' = [responded EXCEPT ![b] = answered]
      /\ shown' = [shown EXCEPT ![b] = found]
      /\ warned' = [warned EXCEPT ![b] = warning]
  BY <1>1, <1>2, <1>3, <1>4 DEF ResponseArrives, handlerVars
<1>6. /\ sent \in Seq(Handed) /\ pending \subseteq 1..Len(sent)
      /\ responded \in Seq(SUBSET Nat) /\ Len(responded) = Len(sent)
      /\ shown \in Seq(SUBSET Nat) /\ Len(shown) = Len(sent)
      /\ warned \in Seq(SUBSET Nat) /\ Len(warned) = Len(sent)
  BY DEF IInv, TypeInv
<1>7. b \in 1..Len(sent) /\ sent[b] \in Handed
  BY <1>6
<1>8. r \in Requests /\ sent[b].batch \in Seq(Made) /\ Len(sent[b].batch) = Count(r)
      /\ \A k \in 1..Count(r) : /\ sent[b].batch[k] = Instruction(r, k)
                                /\ sent[b].batch[k].error = "none"
  BY <1>1, <1>7 DEF Handed, IInv, SentInv
<1>9. DOMAIN sent[b].batch = 1..Count(r)
  BY <1>8
<1>10. \A k \in 1..Count(r) : r.service \in ListServices \/ k = 1 =>
          /\ sent[b].batch[k].is[1] \in LookedFor(r.service)
          /\ sent[b].batch[k].is[2] \in ShownTypes(r.service)
  BY <1>8, InstructionShape
<1>11. /\ answered \subseteq 1..Count(r) /\ found \subseteq 1..Count(r)
       /\ warning \subseteq 1..Count(r)
  BY <1>2, <1>3, <1>4, <1>9
<1>12. /\ r.service \in ListServices => found = answered /\ warning = (1..Count(r)) \ answered
       /\ r.service \notin ListServices /\ 1 \in answered => 1 \in found
  BY <1>2, <1>3, <1>4, <1>9, <1>10, <1>11
<1>13. Count(r) \in Nat /\ \A k \in 1..Count(r) : k \in Nat
  BY <1>8, RequestTypes
<1>14. answered \in SUBSET Nat /\ found \in SUBSET Nat /\ warning \in SUBSET Nat
  BY <1>11, <1>13
<1>15. /\ responded' \in Seq(SUBSET Nat) /\ Len(responded') = Len(sent)
       /\ \A c \in 1..Len(sent) : responded'[c] = IF c = b THEN answered ELSE responded[c]
  BY <1>5, <1>6, <1>7, <1>14, ExceptSeq
<1>16. /\ shown' \in Seq(SUBSET Nat) /\ Len(shown') = Len(sent)
       /\ \A c \in 1..Len(sent) : shown'[c] = IF c = b THEN found ELSE shown[c]
  BY <1>5, <1>6, <1>7, <1>14, ExceptSeq
<1>17. /\ warned' \in Seq(SUBSET Nat) /\ Len(warned') = Len(sent)
       /\ \A c \in 1..Len(sent) : warned'[c] = IF c = b THEN warning ELSE warned[c]
  BY <1>5, <1>6, <1>7, <1>14, ExceptSeq
<1>18. TypeInv'
  BY <1>5, <1>6, <1>15, <1>16, <1>17 DEF IInv, TypeInv
<1>19. RequestInv'
  BY <1>5 DEF IInv, RequestInv
<1>20. BatchInv'
  BY <1>5 DEF IInv, BatchInv
<1>21. SentInv'
  BY <1>5 DEF IInv, SentInv
<1>22. AnswersInv'
  BY <1>5 DEF IInv, AnswersInv
<1>23. ResponsesInv'
  <2>. SUFFICES ASSUME NEW c \in 1..Len(sent)
                PROVE  /\ responded'[c] \subseteq 1..Len(sent[c].batch)
                       /\ shown'[c] \subseteq 1..Len(sent[c].batch)
                       /\ warned'[c] \subseteq 1..Len(sent[c].batch)
                       /\ c \notin pending' =>
                             /\ sent[c].request.service \in ListServices =>
                                   /\ shown'[c] = responded'[c]
                                   /\ warned'[c] = (1..Len(sent[c].batch)) \ responded'[c]
                             /\ sent[c].request.service \notin ListServices
                                   /\ 1 \in responded'[c] => 1 \in shown'[c]
    BY <1>5 DEF ResponsesInv
  <2>1. CASE c = b
    BY <1>1, <1>8, <1>11, <1>12, <1>15, <1>16, <1>17, <2>1
  <2>2. CASE c # b
    <3>1. responded'[c] = responded[c] /\ shown'[c] = shown[c] /\ warned'[c] = warned[c]
      BY <1>15, <1>16, <1>17, <2>2
    <3>2. c \notin pending' => c \notin pending
      BY <1>5, <2>2
    <3>. QED
      BY <3>1, <3>2 DEF IInv, ResponsesInv
  <2>. QED
    BY <2>1, <2>2
<1>. QED
  BY <1>18, <1>19, <1>20, <1>21, <1>22, <1>23 DEF IInv

LEMMA StutterIInv == ASSUME IInv, UNCHANGED vars PROVE IInv'
<1>1. UNCHANGED <<handler, request, client_id, batch, answers, sent, pending, responded, shown,
                  warned, fault>>
  BY DEF vars, handlerVars, responseVars
<1>2. TypeInv'
  BY <1>1 DEF IInv, TypeInv
<1>3. RequestInv' /\ BatchInv'
  BY <1>1 DEF IInv, RequestInv, BatchInv
<1>4. SentInv'
  BY <1>1 DEF IInv, SentInv
<1>5. AnswersInv'
  BY <1>1 DEF IInv, AnswersInv
<1>6. ResponsesInv'
  BY <1>1 DEF IInv, ResponsesInv
<1>. QED
  BY <1>2, <1>3, <1>4, <1>5, <1>6 DEF IInv

LEMMA StepIInv == IInv /\ [Next]_vars => IInv'
<1>. SUFFICES ASSUME IInv, [Next]_vars PROVE IInv'
  OBVIOUS
<1>1. CASE Handler
  BY <1>1, ServeIInv, ServiceIsMissingIInv, AllocateIInv, AddRequestIInv, SendBatchIInv DEF Handler
<1>2. CASE Responses
  BY <1>2, ResponseArrivesIInv DEF Responses
<1>3. CASE UNCHANGED vars
  BY <1>3, StutterIInv
<1>. QED
  BY <1>1, <1>2, <1>3 DEF Next

\* The invariant holds whatever is asked, refused and responded, in whatever order.
THEOREM InstructionsInvariance == Spec => []IInv
BY InitIInv, StepIInv, PTL DEF Spec

-----------------------------------------------------------------------------
(* What follows from it.                                                    *)

\* The histories are sequences, with an entry for each batch.
LEMMA Domains ==
    ASSUME IInv
    PROVE  /\ DOMAIN answers = 1..Len(answers)
           /\ DOMAIN sent = 1..Len(sent)
           /\ DOMAIN responded = 1..Len(sent)
           /\ DOMAIN shown = 1..Len(sent)
           /\ DOMAIN warned = 1..Len(sent)
           /\ DOMAIN batch = 1..Len(batch)
           /\ \A b \in 1..Len(sent) :
                 /\ sent[b].batch \in Seq(Made) /\ sent[b].request \in Requests
                 /\ DOMAIN sent[b].batch = 1..Len(sent[b].batch)
<1>1. /\ batch \in Seq(Made) /\ answers \in Seq(Answered) /\ sent \in Seq(Handed)
      /\ responded \in Seq(SUBSET Nat) /\ Len(responded) = Len(sent)
      /\ shown \in Seq(SUBSET Nat) /\ Len(shown) = Len(sent)
      /\ warned \in Seq(SUBSET Nat) /\ Len(warned) = Len(sent)
  BY DEF IInv, TypeInv
<1>2. \A b \in 1..Len(sent) : sent[b].batch \in Seq(Made) /\ sent[b].request \in Requests
  <2>1. \A b \in 1..Len(sent) : sent[b] \in Handed
    BY <1>1
  <2>. QED
    BY <2>1 DEF Handed
<1>. QED
  BY <1>1, <1>2

\* The members, the answers and the batches keep their types.
THEOREM InstructionsTypeCorrect == Spec => []TypeOK
<1>1. IInv => TypeOK
  <2>. SUFFICES ASSUME IInv PROVE TypeOK
    OBVIOUS
  <2>1. /\ handler \in {"idle", "allocate", "add", "dead"}
        /\ request \in Requests \cup {NoRequest}
        /\ client_id = request.sensor_id
        /\ fault \in {"none", "no instruction service"}
    BY Zenon DEF IInv, TypeInv, RequestInv, Faults
  <2>2. \A k \in DOMAIN batch : batch[k].error = "none"
    BY Domains DEF IInv, BatchInv
  <2>3. \A i \in DOMAIN answers : answers[i].request \in Requests /\ answers[i].text \in Texts
    <3>1. answers \in Seq(Answered)
      BY DEF IInv, TypeInv
    <3>2. \A i \in DOMAIN answers : answers[i] \in Answered
      BY <3>1
    <3>. QED
      BY <3>2 DEF Answered
  <2>4. pending \subseteq DOMAIN sent
    BY Domains DEF IInv, TypeInv
  <2>5. \A history \in {responded, shown, warned} :
           /\ DOMAIN history = DOMAIN sent
           /\ \A b \in DOMAIN sent : history[b] \subseteq DOMAIN sent[b].batch
    BY Domains DEF IInv, ResponsesInv
  <2>. QED
    BY <2>1, <2>2, <2>3, <2>4, <2>5, Zenon DEF TypeOK
<1>. QED
  BY <1>1, InstructionsInvariance, PTL

\* The sensors are handed the batches of the requests answered "Success", one each, in
\* order and whole, for lists of any length.
THEOREM SuccessMeansSent == Spec => []AllOrNothing
<1>1. IInv => AllOrNothing
  <2>. SUFFICES ASSUME IInv PROVE AllOrNothing
    OBVIOUS
  <2>1. ASSUME NEW i \in DOMAIN answers, IsSuccess(answers[i])
        PROVE  LET r == answers[i].request
                   s == sent[Successes(answers, i)]
               IN  /\ s.request = r
                   /\ s.batch = [k \in 1..Count(r) |-> Instruction(r, k)]
                   /\ \A k \in DOMAIN s.batch : s.batch[k].error = "none"
    <3>1. PICK n, r, s : /\ n = Successes(answers, i)
                         /\ r = answers[i].request /\ s = sent[n]
      OBVIOUS
    <3>2. n \in 1..Len(sent) /\ s.request = r
      BY <2>1, <3>1, Domains DEF IInv, AnswersInv
    <3>3. /\ Len(s.batch) = Count(r)
          /\ \A k \in 1..Count(r) : s.batch[k] = Instruction(r, k) /\ s.batch[k].error = "none"
      BY <3>1, <3>2 DEF IInv, SentInv
    <3>4. s.batch \in Seq(Made) /\ DOMAIN s.batch = 1..Count(r)
      BY <3>1, <3>2, <3>3, Domains
    <3>5. s.batch = [k \in 1..Count(r) |-> Instruction(r, k)]
      BY <3>3, <3>4
    <3>. QED
      BY <3>1, <3>2, <3>3, <3>4, <3>5
  <2>. QED
    BY <2>1 DEF IInv, AnswersInv, AllOrNothing
<1>. QED
  BY <1>1, InstructionsInvariance, PTL

\* A batch goes to the sensor its request names, which is in the parameters or 0.
THEOREM RightSensor == Spec => []BatchGoesToItsSensor
<1>1. IInv => BatchGoesToItsSensor
  BY Domains DEF IInv, SentInv, ListedIds, BatchGoesToItsSensor
<1>. QED
  BY <1>1, InstructionsInvariance, PTL

\* Whatever a sensor responds to a list service is shown, and the rest warned about.
THEOREM ResponsesAreShown == Spec => []EveryResponseIsShown
<1>1. IInv => EveryResponseIsShown
  BY Domains DEF IInv, ResponsesInv, EveryResponseIsShown
<1>. QED
  BY <1>1, InstructionsInvariance, PTL

LEMMA Modulo == \A v, m \in Nat : v <= m => v % (m + 1) = v
OBVIOUS

LEMMA SmallestOfSet ==
    ASSUME NEW T \in SUBSET Nat, T # {}
    PROVE  \E x \in T : \A y \in T : x <= y
<1>1. IsWellFoundedOn(OpToRel(<, Nat), Nat)
  BY NatLessThanWellFounded
<1>2. PICK x \in T : \A y \in T : ~ (<<y, x>> \in OpToRel(<, Nat))
  BY <1>1, WFMin
<1>3. \A y \in T : ~ (y < x)
  BY <1>2 DEF OpToRel
<1>. QED
  BY <1>3

LEMMA UlpIsSmallest ==
    ASSUME NEW n \in Int, ~Overflows(n)
    PROVE  /\ Ulp(n) \in FloatUlps
           /\ Ulp(n) \in Nat \ {0}
           /\ Abs(n) < FloatMantissas * Ulp(n)
           /\ \A v \in FloatUlps : Abs(n) < FloatMantissas * v => Ulp(n) <= v
<1>. DEFINE Fits == {u \in FloatUlps : Abs(n) < FloatMantissas * u}
<1>1. FloatUlps \subseteq Nat \ {0} /\ FloatMantissas \in Nat /\ Abs(n) \in Nat
  BY InstructionsAssumption DEF Abs
<1>2. Fits # {}
  <2>1. PICK u \in FloatUlps : ~(Abs(n) >= FloatMantissas * u)
    BY DEF Overflows
  <2>2. FloatMantissas * u \in Nat
    BY <1>1, <2>1
  <2>. QED
    BY <1>1, <2>1, <2>2
<1>3. \E u \in Fits : \A v \in Fits : u <= v
  BY <1>1, <1>2, SmallestOfSet
<1>4. \E u \in FloatUlps : /\ Abs(n) < FloatMantissas * u
                          /\ \A v \in FloatUlps : Abs(n) < FloatMantissas * v => u <= v
  BY <1>3
<1>. QED
  BY <1>1, <1>4 DEF Ulp

\* Rounding moves a number by half the distance of its neighbours at most, and the numbers
\* a mantissa holds not at all.
LEMMA Rounding ==
    ASSUME NEW n \in Int, ~Overflows(n)
    PROVE  /\ 2 * Abs(Rounded(n) - n) <= Ulp(n)
           /\ Abs(n) < FloatMantissas => Rounded(n) = n
<1>1. PICK u : u = Ulp(n)
  OBVIOUS
<1>2. u \in Nat \ {0}
  BY <1>1, UlpIsSmallest
<1>3. PICK rest : rest = n % u
  OBVIOUS
<1>4. rest \in 0..(u - 1)
  BY <1>2, <1>3
<1>5. \/ Rounded(n) = n - rest /\ 2 * rest <= u
      \/ Rounded(n) = n - rest + u /\ ~(2 * rest < u)
  BY <1>1, <1>2, <1>3, <1>4 DEF Rounded
<1>6. 2 * Abs(Rounded(n) - n) <= u
  BY <1>2, <1>4, <1>5 DEF Abs
<1>7. Abs(n) < FloatMantissas => u = 1
  <2>1. 1 \in FloatUlps /\ FloatMantissas * 1 = FloatMantissas
    BY InstructionsAssumption
  <2>2. Abs(n) < FloatMantissas => u <= 1
    BY <1>1, <2>1, UlpIsSmallest
  <2>. QED
    BY <1>2, <2>2
<1>8. u = 1 => Rounded(n) = n
  BY <1>4, <1>5
<1>. QED
  BY <1>1, <1>6, <1>7, <1>8

LEMMA AbsIsNat == \A n \in Int : Abs(n) \in Nat
BY DEF Abs

\* A number that is converted at all arrives as it was written, but for the two casts and
\* the rounding.
LEMMA ConvertedNumbers ==
    ASSUME NEW type \in Nat, NEW value \in Value, Converted(type, value).error = "none"
    PROVE  \/ Converted(type, value).is = value.n
           \/ /\ type = 0
              /\ Abs(value.n) >= FloatMantissas
              /\ 2 * Abs(Converted(type, value).is - value.n) <= Ulp(value.n)
           \/ value.n < 0 /\ type # 0
           \/ value.n > Max32 /\ type = 1
<1>1. value.n \in Int /\ Max8 \in Nat /\ Max16 \in Nat /\ Max32 \in Nat /\ Max64 \in Nat
  BY InstructionsAssumption DEF Value
<1>2. PICK n : n = Integral(value)
  OBVIOUS
<1>3. type \in 0..3
  <2>1. type \notin 0..3 => Converted(type, value).error = "value_type"
    BY OkAndError, Zenon DEF Converted
  <2>. QED
    BY <2>1
<1>4. CASE type = 0
  <2>1. Converted(type, value) = Stof(value) /\ Stof(value).error = "none"
    BY <1>3, <1>4, Zenon DEF Converted
  <2>2. ~Overflows(value.n) /\ Converted(type, value).is = Rounded(value.n)
    <3>1. "invalid format" # "none" /\ "out of range" # "none"
      OBVIOUS
    <3>. QED
      BY <2>1, <3>1, OkAndError, Zenon DEF Stof
  <2>3. /\ 2 * Abs(Rounded(value.n) - value.n) <= Ulp(value.n)
        /\ Abs(value.n) < FloatMantissas => Rounded(value.n) = value.n
    BY <1>1, <2>2, Rounding
  <2>4. Abs(value.n) \in Nat /\ FloatMantissas \in Nat
    BY <1>1, AbsIsNat, InstructionsAssumption
  <2>. QED
    BY <1>4, <2>2, <2>3, <2>4
<1>5. CASE type \in 1..3 /\ value.n >= 0
  <2>1. /\ n.error = "none"
        /\ Converted(type, value) = <<Wide(n.is), Narrow16(n.is), Narrow8(n.is)>>[type]
    <3>1. type # 0
      BY <1>5
    <3>. QED
      BY <1>2, <1>3, <3>1, Zenon DEF Converted
  <2>2. n.is = value.n
    <3>1. n = Stoul(value) /\ Stoul(value).error = "none"
      BY <1>2, <2>1, OkAndError, Zenon DEF Integral
    <3>a. ~(value.n > Max64) /\ Stoul(value) = Ok(value.n % (Max64 + 1))
      BY <3>1, OkAndError, Zenon DEF Stoul
    <3>2. value.n <= Max64 /\ Stoul(value) = Ok(value.n % (Max64 + 1))
      BY <1>1, <3>a
    <3>3. value.n \in Nat
      BY <1>1, <1>5
    <3>4. value.n % (Max64 + 1) = value.n
      BY <1>1, <3>2, <3>3, Modulo
    <3>. QED
      BY <3>1, <3>2, <3>4, OkAndError
  <2>3. CASE type = 1
    <3>1. Converted(type, value).is = value.n % (Max32 + 1)
      BY <2>1, <2>2, <2>3, OkAndError DEF Wide
    <3>2. value.n <= Max32 => value.n % (Max32 + 1) = value.n
      BY <1>1, <1>5, Modulo
    <3>. QED
      BY <1>1, <2>3, <3>1, <3>2
  <2>4. CASE type = 2
    <3>1. Narrow16(n.is).error = "none" => Narrow16(n.is).is = n.is
      BY OkAndError, Zenon DEF Narrow16
    <3>. QED
      BY <2>1, <2>2, <2>4, <3>1
  <2>5. CASE type = 3
    <3>1. Narrow8(n.is).error = "none" => Narrow8(n.is).is = n.is
      BY OkAndError, Zenon DEF Narrow8
    <3>. QED
      BY <2>1, <2>2, <2>5, <3>1
  <2>. QED
    BY <1>5, <2>3, <2>4, <2>5
<1>. QED
  BY <1>1, <1>3, <1>4, <1>5

\* The numbers of a set_radar_mode request reach the sensor as they were written, but for
\* a uint32 beyond its range, a minus sign and the rounding of a float: for every width of
\* the types.
THEOREM NumbersReachSensor == Spec => []NumbersArrive
<1>1. IInv => NumbersArrive
  <2>. SUFFICES ASSUME IInv, NEW b \in DOMAIN sent,
                       sent[b].request.service = "set_radar_mode",
                       NEW k \in DOMAIN sent[b].batch,
                       NEW entry, entry = sent[b].request.entries[k]
                PROVE  \/ sent[b].batch[k].is[3] = entry.value.n
                       \/ /\ entry.type = 0
                          /\ Abs(entry.value.n) >= FloatMantissas
                          /\ 2 * Abs(sent[b].batch[k].is[3] - entry.value.n) <= Ulp(entry.value.n)
                       \/ entry.value.n < 0 /\ entry.type # 0
                       \/ entry.value.n > Max32 /\ entry.type = 1
    BY DEF NumbersArrive
  <2>1. PICK r : r = sent[b].request
    OBVIOUS
  <2>2. r \in Requests /\ k \in 1..Count(r)
        /\ sent[b].batch[k] = Instruction(r, k) /\ sent[b].batch[k].error = "none"
    BY <2>1, Domains DEF IInv, SentInv
  <2>3. entry \in [type : Nat, value : Value]
    <3>1. k \in 1..Len(r.entries) /\ r.entries \in Seq([type : Nat, value : Value])
      BY <2>1, <2>2, RequestTypes DEF Count
    <3>. QED
      BY <2>1, <3>1, ElementOfSeq
  <2>4. PICK n : n = Converted(entry.type, entry.value)
    OBVIOUS
  <2>5. Instruction(r, k) = SetRequest(entry)
    BY <2>1 DEF Instruction
  <2>6. n.error = "none"
    BY <2>2, <2>4, <2>5 DEF SetRequest
  <2>7. sent[b].batch[k].is[3] = n.is
    <3>1. PICK word : word = ParamTypes[entry.type + 1]
      OBVIOUS
    <3>2. Instruction(r, k) = Ok(<<"set", word, n.is>>)
      BY <2>4, <2>5, <2>6, <3>1 DEF SetRequest
    <3>. QED
      BY <2>2, <3>2, OkAndError
  <2>. QED
    BY <2>3, <2>4, <2>6, <2>7, ConvertedNumbers
<1>. QED
  BY <1>1, InstructionsInvariance, PTL
-----------------------------------------------------------------------------
(* The handlers implement InstructionServices: the answer is the one step   *)
(* the client sees, and the steps before it are invisible.                  *)

LEMMA RefusalTexts ==
    ASSUME NEW r
    PROVE  /\ Rejection(r) # "none" => Rejection(r) \in Abstract!Refusals(r)
           /\ Rejection(r) = "none" =>
                 /\ "instruction service" \in Abstract!Refusals(r)
                 /\ "allocate" \in Abstract!Refusals(r)
                 /\ Count(r) > 0 /\ Abstract!Good(r, 1) =>
                       "add instruction" \in Abstract!Refusals(r)
                 /\ Abstract!Executable(r) => "send" \in Abstract!Refusals(r)
                 /\ \A k \in 1..Count(r) :
                       ~Abstract!Good(r, k) /\ (\A i \in 1..(k - 1) : Abstract!Good(r, i)) =>
                          Instruction(r, k).error \in Abstract!Refusals(r)
BY Zenon DEF Abstract!Refusals

LEMMA AnswerRefuses ==
    ASSUME NEW r \in Requests, NEW text \in Abstract!Refusals(r), Answer(r, text),
           UNCHANGED <<sent, responseVars>>
    PROVE  Abstract!SvcNext
<1>1. Abstract!Refuse(r, text)
  BY DEF Answer, responseVars, Abstract!Refuse
<1>. QED
  BY <1>1 DEF Abstract!SvcNext

LEMMA ServeRefines ==
    ASSUME IInv, NEW r \in Requests, Serve(r)
    PROVE  Abstract!SvcNext \/ UNCHANGED Abstract!svcVars
<1>1. UNCHANGED <<sent, responseVars>>
  BY DEF Serve
<1>2. CASE Rejection(r) # "none"
  <2>1. Answer(r, Rejection(r)) /\ Rejection(r) \in Abstract!Refusals(r)
    BY <1>2, RefusalTexts DEF Serve
  <2>. QED
    BY <1>1, <2>1, AnswerRefuses
<1>3. CASE Rejection(r) = "none"
  <2>1. UNCHANGED answers
    BY <1>3 DEF Serve
  <2>. QED
    BY <1>1, <2>1 DEF responseVars, Abstract!svcVars
<1>. QED
  BY <1>2, <1>3

LEMMA ServiceIsMissingRefines ==
    ASSUME IInv, ServiceIsMissing
    PROVE  Abstract!SvcNext \/ UNCHANGED Abstract!svcVars
<1>1. UNCHANGED <<sent, responseVars>> /\ request \in Requests /\ Rejection(request) = "none"
  BY DEF ServiceIsMissing, IInv, RequestInv
<1>2. CASE Answer(request, "instruction service")
  BY <1>1, <1>2, RefusalTexts, AnswerRefuses
<1>3. CASE UNCHANGED answers
  BY <1>1, <1>3 DEF responseVars, Abstract!svcVars
<1>. QED
  BY <1>2, <1>3 DEF ServiceIsMissing

LEMMA AllocateRefines ==
    ASSUME IInv, Allocate
    PROVE  Abstract!SvcNext \/ UNCHANGED Abstract!svcVars
<1>1. UNCHANGED <<sent, responseVars>> /\ request \in Requests /\ Rejection(request) = "none"
  BY DEF Allocate, IInv, RequestInv
<1>2. CASE Answer(request, "allocate")
  BY <1>1, <1>2, RefusalTexts, AnswerRefuses
<1>3. CASE UNCHANGED answers
  BY <1>1, <1>3 DEF responseVars, Abstract!svcVars
<1>. QED
  BY <1>2, <1>3 DEF Allocate

\* A handler gives up at the first bad entry: those before it are in the batch.
LEMMA AddRequestRefines ==
    ASSUME IInv, AddRequest
    PROVE  Abstract!SvcNext \/ UNCHANGED Abstract!svcVars
<1>1. PICK k : k = Len(batch) + 1
  OBVIOUS
<1>2. /\ UNCHANGED <<sent, responseVars>>
      /\ request \in Requests /\ Rejection(request) = "none" /\ Len(batch) < Count(request)
  BY DEF AddRequest, IInv, RequestInv
<1>3. k \in 1..Count(request) /\ Count(request) > 0 /\ k - 1 = Len(batch)
      /\ (k # 1 => 1 \in 1..Len(batch))
  <2>1. Count(request) \in Nat
    BY <1>2, RequestTypes
  <2>2. Len(batch) \in Nat
    BY DEF IInv, TypeInv
  <2>. QED
    BY <1>1, <1>2, <2>1, <2>2
<1>4. \A i \in 1..(k - 1) : Abstract!Good(request, i)
  BY <1>3 DEF IInv, BatchInv, Abstract!Good
<1>5. CASE UNCHANGED answers
  BY <1>2, <1>5 DEF responseVars, Abstract!svcVars
<1>6. CASE Instruction(request, k).error = "none" /\ Answer(request, "add instruction")
  <2>1. Abstract!Good(request, 1)
    BY <1>3, <1>4, <1>6 DEF Abstract!Good
  <2>. QED
    BY <1>2, <1>3, <1>6, <2>1, RefusalTexts, AnswerRefuses
<1>7. CASE /\ Instruction(request, k).error # "none"
           /\ Answer(request, Instruction(request, k).error)
  <2>1. ~Abstract!Good(request, k)
    BY <1>7 DEF Abstract!Good
  <2>2. Instruction(request, k).error \in Abstract!Refusals(request)
    BY <1>2, <1>3, <1>4, <2>1, RefusalTexts
  <2>. QED
    BY <1>2, <1>7, <2>2, AnswerRefuses
<1>. QED
  BY <1>1, <1>5, <1>6, <1>7 DEF AddRequest

\* The batch that is sent holds what the request asks for, and goes to its sensor.
LEMMA SendBatchRefines ==
    ASSUME IInv, SendBatch
    PROVE  Abstract!SvcNext \/ UNCHANGED Abstract!svcVars
<1>1. /\ request \in Requests /\ client_id = request.sensor_id
      /\ Rejection(request) = "none" /\ Len(batch) = Count(request)
  BY DEF SendBatch, IInv, RequestInv
<1>2. \A k \in 1..Len(batch) : batch[k] = Instruction(request, k) /\ batch[k].error = "none"
  BY DEF IInv, BatchInv
<1>3. Abstract!Executable(request)
  BY <1>1, <1>2 DEF Abstract!Executable, Abstract!Good
<1>4. batch = [k \in 1..Count(request) |-> Instruction(request, k)]
  <2>1. batch \in Seq(Made)
    BY DEF IInv, TypeInv
  <2>. QED
    BY <1>1, <1>2, <2>1
<1>5. CASE Answer(request, "send") /\ UNCHANGED <<sent, responseVars>>
  BY <1>1, <1>3, <1>5, RefusalTexts, AnswerRefuses
<1>6. CASE /\ sent' = Append(sent, [request |-> request, sensor |-> client_id, batch |-> batch])
           /\ pending' = pending \cup {Len(sent')}
           /\ responded' = Append(responded, {})
           /\ shown' = Append(shown, {})
           /\ warned' = Append(warned, {})
           /\ Answer(request, "Success")
  <2>1. Abstract!Execute(request)
    BY <1>1, <1>3, <1>4, <1>6 DEF Answer, Abstract!Execute
  <2>. QED
    BY <1>1, <2>1 DEF Abstract!SvcNext
<1>. QED
  BY <1>5, <1>6 DEF SendBatch

\* What a response handler finds: everything the sensor responded to a list, and the
\* response to the first instruction otherwise.
LEMMA ResponseArrivesRefines ==
    ASSUME IInv, NEW b \in pending, NEW answered \in SUBSET DOMAIN sent[b].batch,
           ResponseArrives(b, answered)
    PROVE  Abstract!SvcNext
<1>1. PICK r : r = sent[b].request
  OBVIOUS
<1>2. PICK names : names = {k \in DOMAIN sent[b].batch :
                              sent[b].batch[k].is[1] \in LookedFor(r.service)}
  OBVIOUS
<1>3. PICK found : found = {k \in names \cap answered :
                              sent[b].batch[k].is[2] \in ShownTypes(r.service)}
  OBVIOUS
<1>4. /\ UNCHANGED <<answers, sent>>
      /\ pending' = pending \ {b}
      /\ shown' = [shown EXCEPT ![b] = found]
      /\ warned' = [warned EXCEPT ![b] =
                       IF r.service \in ListServices THEN names \ found ELSE {}]
  BY <1>1, <1>2, <1>3 DEF ResponseArrives
<1>5. /\ r \in Requests /\ DOMAIN sent[b].batch = 1..Count(r)
      /\ \A k \in 1..Count(r) : /\ sent[b].batch[k] = Instruction(r, k)
                                /\ sent[b].batch[k].error = "none"
  <2>1. b \in 1..Len(sent) /\ sent[b].batch \in Seq(Made) /\ r \in Requests
    BY <1>1, Domains DEF IInv, TypeInv
  <2>. QED
    BY <1>1, <2>1 DEF IInv, SentInv
<1>6. \A k \in 1..Count(r) : r.service \in ListServices \/ k = 1 =>
         /\ sent[b].batch[k].is[1] \in LookedFor(r.service)
         /\ sent[b].batch[k].is[2] \in ShownTypes(r.service)
  BY <1>5, InstructionShape
<1>7. r \in Listing <=> r.service \in ListServices
  BY <1>5 DEF Listing
<1>8. CASE r.service \in ListServices
  <2>1. names = 1..Count(r) /\ found = answered
    BY <1>2, <1>3, <1>5, <1>6, <1>8
  <2>2. Abstract!Respond(b, answered)
    BY <1>1, <1>4, <1>5, <1>7, <1>8, <2>1 DEF Abstract!Respond
  <2>. QED
    BY <2>2 DEF Abstract!SvcNext
<1>9. CASE r.service \notin ListServices
  <2>1. \A k \in 1..Count(r) : k # 1 => sent[b].batch[k].is[1] \notin LookedFor(r.service)
    BY <1>5, <1>9, OnlyTheFirst
  <2>2. found = answered \cap {1}
    BY <1>2, <1>3, <1>5, <1>6, <1>9, <2>1
  <2>3. Abstract!Respond(b, answered)
    BY <1>1, <1>4, <1>7, <1>9, <2>2 DEF Abstract!Respond
  <2>. QED
    BY <2>3 DEF Abstract!SvcNext
<1>. QED
  BY <1>8, <1>9

LEMMA StepRefines ==
    ASSUME IInv, [Next]_vars
    PROVE  [Abstract!SvcNext]_Abstract!svcVars
<1>1. CASE Handler
  BY <1>1, ServeRefines, ServiceIsMissingRefines, AllocateRefines, AddRequestRefines,
     SendBatchRefines DEF Handler
<1>2. CASE Responses
  BY <1>2, ResponseArrivesRefines DEF Responses
<1>3. CASE UNCHANGED vars
  BY <1>3 DEF vars, responseVars, Abstract!svcVars
<1>. QED
  BY <1>1, <1>2, <1>3 DEF Next

\* A request has all its effect on its own sensor or none at all, as if it were served in
\* one step, and its answer tells which; a response is shown once, as its request asked.
THEOREM InstructionsAreAtomic == Spec => ImplementsInstructionServices
<1>1. Init => Abstract!SvcInit
  BY DEF Init, Abstract!SvcInit
<1>2. IInv /\ [Next]_vars => [Abstract!SvcNext]_Abstract!svcVars
  BY StepRefines
<1>. QED
  BY <1>1, <1>2, InstructionsInvariance, PTL
     DEF Spec, ImplementsInstructionServices, Abstract!SvcSpec
=============================================================================
