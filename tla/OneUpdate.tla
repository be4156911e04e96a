------------------------------ MODULE OneUpdate ------------------------------
(***************************************************************************)
(* What UpdateService promises its callers: one update at a time, a second *)
(* caller is told so at once, no download runs once its caller has been     *)
(* answered, and the answer is the outcome of the caller's own download, or *)
(* that it took too long.                                                  *)
(***************************************************************************)
CONSTANTS Callers, Failures, EarlyErrors, HandleResult(_)

VARIABLES phase,   \* where each caller is: out, before, downloading or leaving
          last,    \* the status of the download started last ("none": there was none)
          answer   \* what each caller was answered last

vars == <<phase, last, answer>>

Move(c, to) == phase' = [phase EXCEPT ![c] = to]

Answered(c, value) == answer' = [answer EXCEPT ![c] = value]

Init ==
    /\ phase = [c \in Callers |-> "out"]
    /\ last = "none"
    /\ answer = [c \in Callers |-> "kUnknownError"]

Begin(c) ==
    /\ \A other \in Callers : phase[other] = "out"
    /\ Move(c, "before")
    /\ UNCHANGED <<last, answer>>

Reject(c) ==
    /\ phase[c] = "out"
    /\ \E other \in Callers : phase[other] # "out"
    /\ Answered(c, "kBusy")
    /\ UNCHANGED <<phase, last>>

GiveUp(c) ==
    /\ phase[c] = "before"
    /\ Move(c, "out")
    /\ \E error \in EarlyErrors \cup {"kStartFailed"} : Answered(c, error)
    /\ UNCHANGED last

StartDownload(c) ==
    /\ phase[c] = "before"
    /\ last # "RUNNING"
    /\ last' = "RUNNING"
    /\ Move(c, "downloading")
    /\ UNCHANGED answer

EndDownload ==
    /\ last = "RUNNING"
    /\ \E c \in Callers : phase[c] = "downloading"
    /\ last' \in Failures \cup {"READY_SUCCESS", "STOPPED_BY_MASTER"}
    /\ UNCHANGED <<phase, answer>>

Answer(c) ==
    /\ phase[c] = "downloading"
    /\ last # "RUNNING"
    /\ \/ Move(c, "leaving") /\ Answered(c, HandleResult(last))
       \/ Move(c, "out") /\ Answered(c, "kTimeout")
    /\ UNCHANGED last

Leave(c) ==
    /\ phase[c] = "leaving"
    /\ Move(c, "out")
    /\ UNCHANGED <<last, answer>>

Next ==
    \/ EndDownload
    \/ \E c \in Callers :
        Begin(c) \/ Reject(c) \/ GiveUp(c) \/ StartDownload(c) \/ Answer(c) \/ Leave(c)

\* Whoever is let in is answered.
Answers == \A c \in Callers : (phase[c] # "out") ~> (phase[c] = "out")

Spec == Init /\ [][Next]_vars /\ Answers
=============================================================================
