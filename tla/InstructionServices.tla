------------------------- MODULE InstructionServices -------------------------
(***************************************************************************)
(* What a client of the instruction services may expect, as if a request    *)
(* were served in one step: its instructions reach the sensor it names, all *)
(* of them, or the answer tells why none does.  What the sensor responds    *)
(* is shown once per batch.  Instructions implements this.                  *)
(***************************************************************************)
EXTENDS Naturals, Sequences

CONSTANTS Requests,            \* the requests clients may send
          Rejection(_),        \* what the node finds wrong with a request, or "none"
          Count(_),            \* how many things a request asks for
          Instruction(_, _),   \* for each of them, an instruction or an error
          Listing              \* the requests whose responses are all looked for

VARIABLES answers,    \* each request with its answer
          sent,       \* the batches the sensors were handed, with their requests
          open,       \* the batches without a response
          shown,      \* for each batch, the responses shown
          warned      \* for each batch, the names warned about

svcVars == <<answers, sent, open, shown, warned>>

SvcInit ==
    /\ answers = <<>>
    /\ sent = <<>>
    /\ open = {}
    /\ shown = <<>>
    /\ warned = <<>>

Good(r, k) == Instruction(r, k).error = "none"

\* Everything the request asks for makes an instruction.
Executable(r) == Rejection(r) = "none" /\ \A k \in 1..Count(r) : Good(r, k)

\* The answers that may refuse a request: what the node finds wrong with it, else the first
\* entry that makes no instruction, or the library.
Refusals(r) ==
    IF Rejection(r) # "none" THEN {Rejection(r)}
    ELSE {"instruction service", "allocate"}
         \cup {text \in {"add instruction"} : Count(r) > 0 /\ Good(r, 1)}
         \cup {text \in {"send"} : Executable(r)}
         \cup {Instruction(r, k).error :
                  k \in {j \in 1..Count(r) : ~Good(r, j) /\ \A i \in 1..(j - 1) : Good(r, i)}}

Execute(r) ==
    /\ answers' = Append(answers, [request |-> r, text |-> "Success"])
    /\ Executable(r)
    /\ sent' = Append(sent, [request |-> r, sensor |-> r.sensor_id,
                           batch |-> [k \in 1..Count(r) |-> Instruction(r, k)]])
    /\ open' = open \cup {Len(sent')}
    /\ shown' = Append(shown, {})
    /\ warned' = Append(warned, {})

Refuse(r, text) ==
    /\ answers' = Append(answers, [request |-> r, text |-> text])
    /\ UNCHANGED <<sent, open, shown, warned>>

\* A list service shows all the sensor responded and warns about the rest, the others show
\* the response to their one instruction of interest, which is the first.
Respond(b, seen) ==
    LET all == sent[b].request \in Listing
    IN  /\ open' = open \ {b}
        /\ shown' = [shown EXCEPT ![b] = IF all THEN seen ELSE seen \cap {1}]
        /\ warned' = [warned EXCEPT ![b] = IF all THEN DOMAIN sent[b].batch \ seen ELSE {}]
        /\ UNCHANGED <<answers, sent>>

SvcNext ==
    \/ \E r \in Requests : Execute(r) \/ \E text \in Refusals(r) : Refuse(r, text)
    \/ \E b \in open : \E seen \in SUBSET DOMAIN sent[b].batch : Respond(b, seen)

SvcSpec == SvcInit /\ [][SvcNext]_svcVars
=============================================================================
