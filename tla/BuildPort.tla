------------------------------ MODULE BuildPort ------------------------------
(***************************************************************************)
(* The appliance entry: the guest opens the build port, asks for its       *)
(* input, decodes one answer, runs the pipeline, reports the outcome and   *)
(* waits for the acknowledgement (src/src/appliance).  The other end of    *)
(* the port, the launcher on the host, is outside the repository: besides  *)
(* answering what it reads it may send anything at any moment, and         *)
(* disconnect.                                                             *)
(*                                                                         *)
(* The port carries whole messages; "short" stands for a part of one,      *)
(* which a decoder cannot finish without the bytes that follow it.         *)
(***************************************************************************)
EXTENDS Naturals, Sequences, SequencesExt

CONSTANT MaxBabble      \* bound: messages the host sends unasked

ASSUME BabbleAssumption == MaxBabble \in Nat

VARIABLES
  pc,         \* where the guest is in run()
  result,     \* what the closure of run() returned: "ok" or an error
  exit,       \* "running", "ok", or the error the process ended with
  builds,     \* outcomes of the pipelines that ran, in order
  down,       \* host to guest: the messages in the port
  up,         \* guest to host: the messages in the port
  connected,  \* the host end of the port is open
  heard,      \* every message the host read, in order
  answered,   \* how many of them it answered
  babbled,    \* how many messages it sent unasked
  sent        \* every message the host sent, in order

guest == <<pc, result, exit, builds>>
host  == <<connected, heard, answered, babbled, sent>>
vars  == <<pc, result, exit, builds, down, up, connected, heard, answered, babbled, sent>>

\* Requests of the guest: Start, and Finish(null) or Finish(message).
Start == [name |-> "start", body |-> "null"]
Finish(outcome) == [name |-> "finish", body |-> outcome]

\* [true, Input]; the same with a path no context can hold; [false, message];
\* [true, null]; any other value; the beginning of a value.
Replies == {"input", "badpath", "refusal", "ack", "garbage", "short"}

Errors == {"decode", "trailing", "rejected", "path", "request", "pipeline"}

Init ==
  /\ pc = "open" /\ result = "none" /\ exit = "running" /\ builds = <<>>
  /\ down = <<>> /\ up = <<>>
  /\ connected = TRUE /\ heard = <<>> /\ answered = 0 /\ babbled = 0 /\ sent = <<>>

--------------------------------------------------------------------------
(* The guest. *)

Exits(code) == pc' = "end" /\ exit' = code

\* The closure of run() returns: a failure skips the rest of it, not the report.
Returns(outcome) == pc' = "report" /\ result' = outcome

\* A write waits for a listening host; it fails only once the host has gone.
Writes(message) == connected /\ up' = Append(up, message)

\* No port of that name, or it cannot be opened: nothing can be reported.
OpenFails ==
  /\ pc = "open"
  /\ Exits("console")
  /\ UNCHANGED <<result, builds, down, up, host>>

Request ==
  /\ pc = "open"
  /\ Writes(Start)
  /\ pc' = "await"
  /\ UNCHANGED <<result, exit, builds, down, host>>

\* The end of the stream, before a whole message.
Ended == ~connected /\ down \in {<<>>, <<"short">>}

\* A decoder has a message when its last byte is in the port.
Complete == down # <<>> /\ down # <<"short">>

\* What remains after n messages, and perhaps a part of the next, were read.
Left(n, part) ==
  LET rest == SubSeq(down, n + 1, Len(down))
  IN  IF part /\ rest # <<>> THEN <<"short">> \o Tail(rest) ELSE rest

\* Response<Input> through a BufReader, which fetches whatever else is in the
\* port and loses it when it is dropped.  An answer that does not decode comes
\* first, then the bytes fetched after it, then what the answer says.
Decode ==
  /\ pc = "await" /\ Complete
  /\ \E n \in 1..Len(down), part \in BOOLEAN :
       /\ down' = Left(n, part)
       /\ CASE down[1] \in {"ack", "garbage", "short"} -> Returns("decode")
            [] down[1] \notin {"ack", "garbage", "short"} /\ down' # Tail(down) -> Returns("trailing")
            [] down[1] = "refusal" /\ down' = Tail(down) -> Returns("rejected")
            [] down[1] = "badpath" /\ down' = Tail(down) -> Returns("path")
            [] down[1] = "input" /\ down' = Tail(down) -> pc' = "poll" /\ UNCHANGED result
  /\ UNCHANGED <<exit, builds, up, host>>

DecodeFails ==
  /\ pc = "await" /\ Ended
  /\ Returns("decode")
  /\ down' = <<>>
  /\ UNCHANGED <<exit, builds, up, host>>

\* Mutant: the poll waits for a byte or a hangup.
PollBlocking ==
  /\ pc = "poll"
  /\ \/ down = <<>> /\ ~connected /\ pc' = "resolve" /\ UNCHANGED <<result, down>>
     \/ down # <<>> /\ Returns("trailing") /\ down' = <<"short">> \o Tail(down)
  /\ UNCHANGED <<exit, builds, up, host>>

\* A poll that does not wait.  A hangup reads as no more bytes; a byte that is
\* there is read, and what it began is lost.
Poll ==
  /\ pc = "poll"
  /\ \/ down = <<>> /\ pc' = "resolve" /\ UNCHANGED <<result, down>>
     \/ down # <<>> /\ Returns("trailing") /\ down' = <<"short">> \o Tail(down)
     \/ ~connected /\ Returns("decode") /\ UNCHANGED down
  /\ UNCHANGED <<exit, builds, up, host>>

\* The commit of the reference, and the location.
Resolve ==
  /\ pc = "resolve"
  /\ \/ pc' = "build" /\ UNCHANGED result
     \/ Returns("request")
  /\ UNCHANGED <<exit, builds, down, up, host>>

Pipeline ==
  /\ pc = "build"
  /\ \E outcome \in {"ok", "pipeline"} :
       Returns(outcome) /\ builds' = Append(builds, outcome)
  /\ UNCHANGED <<exit, down, up, host>>

Report ==
  /\ pc = "report"
  /\ Writes(Finish(result))
  /\ pc' = "acknowledge"
  /\ UNCHANGED <<result, exit, builds, down, host>>

\* The failure of the build precedes the failure to report it.
Outcome(reported) == IF result # "ok" THEN result ELSE reported

Acknowledged ==
  /\ pc = "acknowledge" /\ Complete
  /\ down' = Tail(down)
  /\ Exits(Outcome(IF down[1] = "ack" THEN "ok" ELSE "report"))
  /\ UNCHANGED <<result, builds, up, host>>

AcknowledgementLost ==
  /\ pc = "acknowledge" /\ Ended
  /\ Exits(Outcome("report"))
  /\ UNCHANGED <<result, builds, down, up, host>>

\* Writing to a port whose host has gone: an error, unless it waits for another.
WriteFails ==
  /\ ~connected
  /\ \/ pc = "open" /\ Exits("console")
     \/ pc = "report" /\ Exits(Outcome("report"))
  /\ UNCHANGED <<result, builds, down, up, host>>

Guest ==
  \/ Request \/ Decode \/ DecodeFails \/ Poll \/ Resolve \/ Pipeline
  \/ Report \/ Acknowledged \/ AcknowledgementLost

--------------------------------------------------------------------------
(* The launcher. *)

HostReads ==
  /\ connected /\ up # <<>>
  /\ heard' = Append(heard, Head(up)) /\ up' = Tail(up)
  /\ UNCHANGED <<guest, down, connected, answered, babbled, sent>>

Sends(message) == down' = Append(down, message) /\ sent' = Append(sent, message)

HostAnswers ==
  /\ connected /\ answered < Len(heard)
  /\ answered' = answered + 1
  /\ \E message \in IF heard[answered + 1] = Start THEN {"input", "badpath", "refusal"}
                                                   ELSE {"ack", "refusal"} : Sends(message)
  /\ UNCHANGED <<guest, up, connected, heard, babbled>>

HostBabbles ==
  /\ connected /\ babbled < MaxBabble
  /\ babbled' = babbled + 1
  /\ \E message \in Replies : Sends(message)
  /\ UNCHANGED <<guest, up, connected, heard, answered>>

HostLeaves ==
  /\ connected /\ connected' = FALSE
  /\ UNCHANGED <<guest, down, up, heard, answered, babbled, sent>>

Next ==
  \/ Guest \/ OpenFails \/ WriteFails
  \/ HostReads \/ HostAnswers \/ HostBabbles \/ HostLeaves

\* The guest runs until it waits for the port, and a pipeline ends; a launcher
\* that stays reads what it is sent and answers it.
Fairness == WF_vars(Guest) /\ WF_vars(HostReads) /\ WF_vars(HostAnswers)

Spec == Init /\ [][Next]_vars /\ Fairness

--------------------------------------------------------------------------
(* Properties. *)

TypeOK ==
  /\ pc \in {"open", "await", "poll", "resolve", "build", "report", "acknowledge", "end"}
  /\ result \in {"none", "ok"} \cup Errors
  /\ exit \in {"running", "ok", "console", "report"} \cup Errors
  /\ builds \in Seq({"ok", "pipeline"})
  /\ down \in Seq(Replies) /\ sent \in Seq(Replies)
  /\ up \in Seq({Start} \cup {Finish(o) : o \in {"ok"} \cup Errors})
  /\ heard \in Seq({Start} \cup {Finish(o) : o \in {"ok"} \cup Errors})
  /\ connected \in BOOLEAN
  /\ answered \in 0..Len(heard) /\ babbled \in 0..MaxBabble

\* The host and the guest tell one story of the build: a success the host heard
\* is of one pipeline that published, and a failure it heard is the one the
\* process ends with, whatever went wrong in reporting it (run keeps the
\* failure of the build when the host disconnects).
OneStory ==
  \A outcome \in {"ok"} \cup Errors : Finish(outcome) \in Range(heard) =>
    /\ outcome = "ok" <=> builds = <<"ok">>
    /\ outcome = "pipeline" <=> builds = <<"pipeline">>
    /\ exit # "running" => exit = outcome \/ (outcome = "ok" /\ exit = "report")

\* A build starts only on a lone answer: until the acknowledgement is read,
\* whatever else the host sent is still in the port.  Nothing that was sent
\* after the input was swallowed by the decoder's buffer or by the poll.
NothingSwallowed ==
  builds # <<>> /\ exit = "running" => sent = <<"input">> \o down

\* Where the host only answers what it reads, a process that succeeds was
\* acknowledged: the host read the success before the appliance shuts down.
SuccessIsHeard ==
  exit = "ok" /\ babbled = 0 => Finish("ok") \in Range(heard) /\ builds = <<"ok">>

\* A host that stays reads an outcome for every request it read, also when its
\* answer did not decode, had bytes after it, or could not be resolved.
OutcomeReported ==
  (Start \in Range(heard)) ~>
    (~connected \/ \E outcome \in {"ok"} \cup Errors : Finish(outcome) \in Range(heard))

\* A guest whose host stays ends: neither end waits for the other for ever,
\* whatever the host sent besides its answers.
GuestEnds == <>(~connected \/ pc = "end")
=============================================================================
