--------------------------- MODULE ApplianceProofs ---------------------------
(***************************************************************************)
(* Proofs about the whole appliance, for every launcher that sends up to   *)
(* any number of unasked messages, any attachment points and domains, and  *)
(* any number of failing calls.                                            *)
(*                                                                         *)
(* The port: the inductive invariant relates its two ends.  What the guest *)
(* wrote so far is what the host read and what is on the way; what the     *)
(* host sent is what the guest read and what is in the port, as long as    *)
(* the guest may go on; and the host never answers more than it read.      *)
(*                                                                         *)
(* The runtime: the inductive invariant says what exists at each step.     *)
(* While closing goes down, what was passed is gone, and what rests on     *)
(* another thing is never there without it.                                *)
(*                                                                         *)
(* Both keep in the appliance the invariant they have alone, because every *)
(* step of the appliance is a step of one of them; what is left to prove   *)
(* is how the two positions belong together.                               *)
(***************************************************************************)
EXTENDS Appliance, SequenceTheorems, TLAPS

-----------------------------------------------------------------------------
(* The port: its inductive invariant *)


\* What the guest wrote: nothing, its request, or its request and its outcome.
Silent == heard = <<>> /\ up = <<>>
Asked == \/ heard = <<>> /\ up = <<Start>>
         \/ heard = <<Start>> /\ up = <<>>
Told(message) == \/ heard = <<>> /\ up = <<Start, message>>
                 \/ heard = <<Start>> /\ up = <<message>>
                 \/ heard = <<Start, message>> /\ up = <<>>

Wrote ==
  /\ pc = "open" => Silent
  /\ pc \in {"await", "poll", "resolve", "build", "report"} => Asked
  /\ pc = "acknowledge" => Told(Finish(result))
  /\ pc = "end" /\ result = "none" => Silent
  /\ pc = "end" /\ result # "none" => Asked \/ Told(Finish(result))

\* What the guest concluded.
Judged ==
  /\ pc \in {"open", "await", "poll", "resolve", "build"} => builds = <<>> /\ result = "none"
  /\ pc \in {"report", "acknowledge"} => result # "none"
  /\ \/ builds = <<>> /\ result \notin {"ok", "pipeline"}
     \/ builds = <<"ok">> /\ result = "ok"
     \/ builds = <<"pipeline">> /\ result = "pipeline"

Exited ==
  /\ pc # "end" => exit = "running"
  /\ pc = "end" /\ result = "none" => exit = "console"
  /\ pc = "end" /\ result = "ok" => exit \in {"ok", "report"}
  /\ pc = "end" /\ result \notin {"none", "ok"} => exit = result

\* What the host sent.
Behind == sent = <<"input">> \o down
Kept ==
  /\ pc \in {"open", "await"} => sent = down
  /\ pc \in {"poll", "resolve", "build"} => Behind
  /\ pc \in {"report", "acknowledge"} /\ builds # <<>> => Behind
Counted == Len(sent) = answered + babbled

\* Both requests were read by a host that only answers, when a success was acknowledged.
Confirmed == exit = "ok" /\ babbled = 0 => heard = <<Start, Finish("ok")>>

IInv == TypeOK /\ Wrote /\ Judged /\ Exited /\ Kept /\ Counted /\ Confirmed

-----------------------------------------------------------------------------
(* Messages *)

Requests == {Start} \cup {Finish(o) : o \in {"ok"} \cup Errors}

\* Reading a message of two, and of one, and of none (the host's end of the port).
LEMMA Reading ==
  ASSUME NEW a, NEW b
  PROVE  /\ Head(<<a, b>>) = a /\ Tail(<<a, b>>) = <<b>>
         /\ Head(<<a>>) = a /\ Tail(<<a>>) = <<>>
         /\ Append(<<>>, a) = <<a>> /\ Append(<<a>>, b) = <<a, b>>
         /\ <<a>> # <<>> /\ <<a, b>> # <<>>
  <1>1. Head(<<a, b>>) = a
    OBVIOUS
  <1>2. Tail(<<a, b>>) = <<b>>
    OBVIOUS
  <1>3. Head(<<a>>) = a
    OBVIOUS
  <1>4. Tail(<<a>>) = <<>>
    <2>1. <<a>> \in Seq({a}) /\ Len(<<a>>) = 1
      OBVIOUS
    <2>2. Tail(<<a>>) \in Seq({a}) /\ Len(Tail(<<a>>)) = 0
      BY <2>1
    <2> QED
      BY <2>2, EmptySeq
  <1>5. Append(<<>>, a) = <<a>>
    <2>1. <<a>> \in Seq({a}) /\ Len(<<a>>) = 1 /\ <<a>>[1] = a
      OBVIOUS
    <2>2. <<>> \in Seq({a})
      OBVIOUS
    <2>3. Append(<<>>, a) \in Seq({a}) /\ Len(Append(<<>>, a)) = 1 /\ Append(<<>>, a)[1] = a
      BY <2>2
    <2> QED
      BY <2>1, <2>3, SeqEqual
  <1>6. Append(<<a>>, b) = <<a, b>>
    <2>1. <<a>> \in Seq({a, b}) /\ <<a, b>> \in Seq({a, b}) /\ Len(<<a, b>>) = 2
      OBVIOUS
    <2>2. Append(<<a>>, b) \in Seq({a, b}) /\ Len(Append(<<a>>, b)) = 2
      BY <2>1
    <2>3. \A i \in 1..2 : <<a, b>>[i] = Append(<<a>>, b)[i]
      OBVIOUS
    <2> QED
      BY <2>1, <2>2, <2>3, SeqEqual
  <1>7. <<a>> # <<>> /\ <<a, b>> # <<>>
    OBVIOUS
  <1> QED
    BY <1>1, <1>2, <1>3, <1>4, <1>5, <1>6, <1>7

LEMMA Behindness ==
  ASSUME NEW S, NEW d \in Seq(S), NEW x \in S, NEW m \in S
  PROVE  /\ Append(<<x>> \o d, m) = <<x>> \o Append(d, m)
         /\ d # <<>> => d = <<d[1]>> \o Tail(d) /\ Len(d) = 1 + Len(Tail(d)) /\ Tail(d) \in Seq(S)
         /\ Len(Append(d, m)) = Len(d) + 1
  <1> DEFINE one == Append(<<x>> \o d, m)
             two == <<x>> \o Append(d, m)
  <1>1. one \in Seq(S) /\ two \in Seq(S) /\ Len(one) = Len(d) + 2 /\ Len(two) = Len(d) + 2
    OBVIOUS
  <1>2. \A i \in 1..Len(one) : one[i] = two[i]
    OBVIOUS
  <1>3. one = two
    BY <1>1, <1>2, SeqEqual
  <1>4. ASSUME d # <<>>
        PROVE  d = <<d[1]>> \o Tail(d) /\ Len(d) = 1 + Len(Tail(d)) /\ Tail(d) \in Seq(S)
    <2> DEFINE all == <<d[1]>> \o Tail(d)
    <2>1. Len(d) >= 1 /\ Tail(d) \in Seq(S) /\ Len(Tail(d)) = Len(d) - 1 /\ d[1] \in S
      BY <1>4
    <2>2. all \in Seq(S) /\ Len(all) = Len(d)
      BY <2>1
    <2>3. \A i \in 1..Len(d) : d[i] = all[i]
      BY <2>1
    <2> QED
      BY <2>1, <2>2, <2>3, SeqEqual
  <1> QED
    BY <1>3, <1>4

\* What a decoder leaves of the port is messages again (appliance: Response).
LEMMA LeftIsMessages ==
  ASSUME down \in Seq(Replies), NEW n \in 1..Len(down), NEW part
  PROVE  Left(n, part) \in Seq(Replies)
  <1> DEFINE rest == SubSeq(down, n + 1, Len(down))
  <1>1. rest \in Seq(Replies)
    OBVIOUS
  <1>2. rest # <<>> => <<"short">> \o Tail(rest) \in Seq(Replies)
    BY <1>1 DEF Replies
  <1> QED
    BY <1>1, <1>2 DEF Left

\* A decoded answer (appliance: Response): either the input, alone, or a failure.
LEMMA Decoded ==
  ASSUME TypeOK, Decode
  PROVE  /\ pc = "await" /\ down \in Seq(Replies) /\ down # <<>> /\ down' \in Seq(Replies)
         /\ \/ pc' = "poll" /\ result' = result /\ down[1] = "input" /\ down' = Tail(down)
            \/ pc' = "report" /\ result' \in Errors \ {"pipeline"}
         /\ UNCHANGED <<exit, builds, up, host>>
  <1>1. down \in Seq(Replies) /\ down # <<>> /\ pc = "await"
    BY DEF TypeOK, Decode, Complete
  <1>2. down[1] \in Replies
    BY <1>1
  <1>3. PICK n \in 1..Len(down), part \in BOOLEAN :
          /\ down' = Left(n, part)
          /\ CASE down[1] \in {"ack", "garbage", "short"} -> Returns("decode")
               [] down[1] \notin {"ack", "garbage", "short"} /\ down' # Tail(down) -> Returns("trailing")
               [] down[1] = "refusal" /\ down' = Tail(down) -> Returns("rejected")
               [] down[1] = "badpath" /\ down' = Tail(down) -> Returns("path")
               [] down[1] = "input" /\ down' = Tail(down) -> pc' = "poll" /\ UNCHANGED result
    BY DEF Decode
  <1>4. down' \in Seq(Replies)
    BY <1>1, <1>3, LeftIsMessages
  <1>5. \/ Returns("decode") \/ Returns("trailing") \/ Returns("rejected") \/ Returns("path")
        \/ pc' = "poll" /\ result' = result /\ down[1] = "input" /\ down' = Tail(down)
    BY <1>2, <1>3 DEF Replies
  <1>6. UNCHANGED <<exit, builds, up, host>>
    BY DEF Decode
  <1> QED
    BY <1>1, <1>4, <1>5, <1>6 DEF Returns, Errors

-----------------------------------------------------------------------------
(* One lemma for each action, with a step for each part of the invariant. *)

\* An outcome is a message of the guest (appliance: Finish).
LEMMA OutcomeIsRequest ==
  ASSUME NEW o \in {"ok"} \cup Errors
  PROVE  Finish(o) \in Requests
  BY DEF Requests

\* The request alone, read by the host.
LEMMA AskedReads ==
  ASSUME Asked, up # <<>>, heard' = Append(heard, Head(up)), up' = Tail(up)
  PROVE  Asked'
  <1>1. heard = <<>> /\ up = <<Start>>
    BY DEF Asked
  <1>2. heard' = <<Start>> /\ up' = <<>>
    BY <1>1, Reading
  <1> QED
    BY <1>2 DEF Asked

\* The build port could not be opened (appliance: Console::open_named).
LEMMA OpenFailsKeeps ==
  ASSUME IInv, OpenFails
  PROVE  IInv'
  <1> USE DEF IInv
  <1>1. TypeOK'
    BY DEF OpenFails, TypeOK, host, guest, Requests, Exits
  <1>2. Wrote'
    BY DEF OpenFails, Wrote, Judged, Silent, Asked, Told, host, Exits
  <1>3. Judged'
    BY DEF OpenFails, Judged, host, guest, Exits
  <1>4. Exited'
    BY DEF OpenFails, Exited, Judged, host, guest, Exits
  <1>5. Kept'
    BY DEF OpenFails, Kept, Behind, Judged, host, guest, Exits
  <1>6. Counted'
    BY DEF OpenFails, Counted, host, guest, Exits
  <1>7. Confirmed'
    BY DEF OpenFails, Confirmed, Exited, host, guest, Exits
  <1> QED
    BY <1>1, <1>2, <1>3, <1>4, <1>5, <1>6, <1>7

\* The guest asks for its input.
LEMMA RequestKeeps ==
  ASSUME IInv, Request
  PROVE  IInv'
  <1> USE DEF IInv
  <1>1. TypeOK'
    BY DEF Request, TypeOK, host, guest, Requests, Writes
  <1>2. Wrote'
    BY DEF Request, TypeOK, Wrote, Silent, Asked, Told, host, guest, Writes
  <1>3. Judged'
    BY DEF Request, Judged, host, guest, Writes
  <1>4. Exited'
    BY DEF Request, Exited, Judged, host, guest, Writes
  <1>5. Kept'
    BY DEF Request, Kept, Behind, Judged, host, guest, Writes
  <1>6. Counted'
    BY DEF Request, Counted, host, guest, Writes
  <1>7. Confirmed'
    BY DEF Request, Confirmed, Exited, host, guest, Writes
  <1> QED
    BY <1>1, <1>2, <1>3, <1>4, <1>5, <1>6, <1>7

\* The port ended before an answer.
LEMMA DecodeFailsKeeps ==
  ASSUME IInv, DecodeFails
  PROVE  IInv'
  <1> USE DEF IInv
  <1>1. TypeOK'
    BY DEF DecodeFails, TypeOK, host, guest, Requests, Returns, Errors
  <1>2. Wrote'
    BY DEF DecodeFails, TypeOK, Wrote, Silent, Asked, Told, host, guest, Returns, Errors
  <1>3. Judged'
    BY DEF DecodeFails, Judged, host, guest, Returns, Errors
  <1>4. Exited'
    BY DEF DecodeFails, Exited, Judged, host, guest, Returns, Errors
  <1>5. Kept'
    BY DEF DecodeFails, Kept, Behind, Judged, host, guest, Returns, Errors
  <1>6. Counted'
    BY DEF DecodeFails, Counted, host, guest, Returns, Errors
  <1>7. Confirmed'
    BY DEF DecodeFails, Confirmed, Exited, host, guest, Returns, Errors
  <1> QED
    BY <1>1, <1>2, <1>3, <1>4, <1>5, <1>6, <1>7

\* The poll after the answer (appliance: finished).
LEMMA PollKeeps ==
  ASSUME IInv, Poll
  PROVE  IInv'
  <1> USE DEF IInv
  <1>1. TypeOK'
    <2>1. down \in Seq(Replies) /\ (down # <<>> => Tail(down) \in Seq(Replies))
      BY DEF TypeOK
    <2>2. down # <<>> => <<"short">> \o Tail(down) \in Seq(Replies)
      BY <2>1 DEF Replies
    <2>3. down' \in Seq(Replies)
      BY <2>1, <2>2 DEF Poll
    <2> QED
      BY <2>3 DEF Poll, TypeOK, host, Returns, Errors
  <1>2. Wrote'
    BY DEF Poll, TypeOK, Wrote, Silent, Asked, Told, host, guest, Returns, Errors
  <1>3. Judged'
    BY DEF Poll, Judged, host, guest, Returns, Errors
  <1>4. Exited'
    BY DEF Poll, Exited, Judged, host, guest, Returns, Errors
  <1>5. Kept'
    BY DEF Poll, Kept, Behind, Judged, host, guest, Returns, Errors
  <1>6. Counted'
    BY DEF Poll, Counted, host, guest, Returns, Errors
  <1>7. Confirmed'
    BY DEF Poll, Confirmed, Exited, host, guest, Returns, Errors
  <1> QED
    BY <1>1, <1>2, <1>3, <1>4, <1>5, <1>6, <1>7

\* The reference and the location are resolved.
LEMMA ResolveKeeps ==
  ASSUME IInv, Resolve
  PROVE  IInv'
  <1> USE DEF IInv
  <1>1. TypeOK'
    BY DEF Resolve, TypeOK, host, guest, Requests, Returns, Errors
  <1>2. Wrote'
    BY DEF Resolve, TypeOK, Wrote, Silent, Asked, Told, host, guest, Returns, Errors
  <1>3. Judged'
    BY DEF Resolve, Judged, host, guest, Returns, Errors
  <1>4. Exited'
    BY DEF Resolve, Exited, Judged, host, guest, Returns, Errors
  <1>5. Kept'
    BY DEF Resolve, Kept, Behind, Judged, host, guest, Returns, Errors
  <1>6. Counted'
    BY DEF Resolve, Counted, host, guest, Returns, Errors
  <1>7. Confirmed'
    BY DEF Resolve, Confirmed, Exited, host, guest, Returns, Errors
  <1> QED
    BY <1>1, <1>2, <1>3, <1>4, <1>5, <1>6, <1>7

\* The pipeline ends.
LEMMA PipelineKeeps ==
  ASSUME IInv, Pipeline
  PROVE  IInv'
  <1> USE DEF IInv
  <1>1. TypeOK'
    BY DEF Pipeline, TypeOK, host, guest, Requests, Returns, Errors
  <1>2. Wrote'
    BY DEF Pipeline, TypeOK, Wrote, Silent, Asked, Told, host, guest, Returns, Errors
  <1>3. Judged'
    BY DEF Pipeline, Judged, host, guest, Returns, Errors
  <1>4. Exited'
    BY DEF Pipeline, Exited, Judged, host, guest, Returns, Errors
  <1>5. Kept'
    BY DEF Pipeline, Kept, Behind, Judged, host, guest, Returns, Errors
  <1>6. Counted'
    BY DEF Pipeline, Counted, host, guest, Returns, Errors
  <1>7. Confirmed'
    BY DEF Pipeline, Confirmed, Exited, host, guest, Returns, Errors
  <1> QED
    BY <1>1, <1>2, <1>3, <1>4, <1>5, <1>6, <1>7

\* The outcome is written.
LEMMA ReportKeeps ==
  ASSUME IInv, Report
  PROVE  IInv'
  <1> USE DEF IInv
  <1>1. TypeOK'
    <2>1. result \in {"ok"} \cup Errors
      BY DEF Report, TypeOK, Judged
    <2>2. Finish(result) \in Requests
      BY <2>1, OutcomeIsRequest
    <2>3. up' \in Seq(Requests)
      BY <2>2 DEF Report, Writes, TypeOK, Requests
    <2> QED
      BY <2>3 DEF Report, TypeOK, host, Requests
  <1>2. Wrote'
    <2>1. result # "none"
      BY DEF Report, Judged
    <2>2. Asked
      BY DEF Report, Wrote
    <2>3. Told(Finish(result))'
      <3>1. CASE heard = <<>> /\ up = <<Start>>
        BY <3>1, Reading DEF Report, Writes, Told, host
      <3>2. CASE heard = <<Start>> /\ up = <<>>
        BY <3>2, Reading DEF Report, Writes, Told, host
      <3> QED
        BY <2>2, <3>1, <3>2 DEF Asked
    <2> QED
      BY <2>1, <2>3 DEF Report, Wrote
  <1>3. Judged'
    BY DEF Report, Judged, host, guest, Writes
  <1>4. Exited'
    BY DEF Report, Exited, Judged, host, guest, Writes
  <1>5. Kept'
    BY DEF Report, Kept, Behind, Judged, host, guest, Writes
  <1>6. Counted'
    BY DEF Report, Counted, host, guest, Writes
  <1>7. Confirmed'
    BY DEF Report, Confirmed, Exited, host, guest, Writes
  <1> QED
    BY <1>1, <1>2, <1>3, <1>4, <1>5, <1>6, <1>7

\* The host left without an acknowledgement.
LEMMA LostKeeps ==
  ASSUME IInv, AcknowledgementLost
  PROVE  IInv'
  <1> USE DEF IInv
  <1>1. TypeOK'
    BY DEF AcknowledgementLost, TypeOK, Judged, host, Exits, Outcome
  <1>2. Wrote'
    <2>1. result # "none" /\ Told(Finish(result))
      BY DEF AcknowledgementLost, Judged, Wrote
    <2>2. Told(Finish(result))'
      BY <2>1 DEF AcknowledgementLost, Told, host
    <2> QED
      BY <2>1, <2>2 DEF AcknowledgementLost, Wrote, Exits
  <1>3. Judged'
    BY DEF AcknowledgementLost, Judged, host, guest, Exits, Outcome
  <1>4. Exited'
    BY DEF AcknowledgementLost, Exited, Judged, host, guest, Exits, Outcome
  <1>5. Kept'
    BY DEF AcknowledgementLost, Kept, Behind, Judged, host, guest, Exits, Outcome
  <1>6. Counted'
    BY DEF AcknowledgementLost, Counted, host, guest, Exits, Outcome
  <1>7. Confirmed'
    BY DEF AcknowledgementLost, Confirmed, Exited, host, guest, Exits, Outcome
  <1> QED
    BY <1>1, <1>2, <1>3, <1>4, <1>5, <1>6, <1>7

\* A write fails, the host having left.
LEMMA WriteFailsKeeps ==
  ASSUME IInv, WriteFails
  PROVE  IInv'
  <1> USE DEF IInv
  <1>1. TypeOK'
    BY DEF WriteFails, TypeOK, Judged, host, Exits, Outcome, Errors
  <1>2. Wrote'
    <2>1. pc = "open" => result = "none" /\ Silent
      BY DEF Judged, Wrote
    <2>2. pc = "report" => result # "none" /\ Asked
      BY DEF Judged, Wrote
    <2>3. (Silent <=> Silent') /\ (Asked <=> Asked')
      BY DEF WriteFails, Silent, Asked, host
    <2> QED
      BY <2>1, <2>2, <2>3 DEF WriteFails, Wrote, Exits
  <1>3. Judged'
    BY DEF WriteFails, Judged, host, guest, Exits, Outcome
  <1>4. Exited'
    BY DEF WriteFails, Exited, Judged, host, guest, Exits, Outcome
  <1>5. Kept'
    BY DEF WriteFails, Kept, Behind, Judged, host, guest, Exits, Outcome
  <1>6. Counted'
    BY DEF WriteFails, Counted, host, guest, Exits, Outcome
  <1>7. Confirmed'
    BY DEF WriteFails, Confirmed, Exited, host, guest, Exits, Outcome
  <1> QED
    BY <1>1, <1>2, <1>3, <1>4, <1>5, <1>6, <1>7

\* The host reads a message.
LEMMA ReadsKeeps ==
  ASSUME IInv, HostReads
  PROVE  IInv'
  <1> USE DEF IInv
  <1>1. TypeOK'
    BY DEF HostReads, TypeOK, host, guest, Requests
  <1>2. Wrote'
    <2>1. up # <<>> /\ heard' = Append(heard, Head(up)) /\ up' = Tail(up) /\ UNCHANGED <<pc, result>>
      BY DEF HostReads, guest
    <2>2. ~Silent
      BY <2>1 DEF Silent
    <2>3. Asked => Asked'
      BY <2>1, AskedReads
    <2>4. Told(Finish(result)) => Told(Finish(result))'
      <3> DEFINE m == Finish(result)
      <3>1. Told(m) => /\ \/ heard' = <<>> /\ up' = <<Start, m>>
                          \/ heard' = <<Start>> /\ up' = <<m>>
                          \/ heard' = <<Start, m>> /\ up' = <<>>
        <4>1. CASE heard = <<>> /\ up = <<Start, m>>
          BY ONLY <4>1, <2>1, Reading
        <4>2. CASE heard = <<Start>> /\ up = <<m>>
          BY ONLY <4>2, <2>1, Reading
        <4> QED
          BY <2>1, <4>1, <4>2 DEF Told
      <3> QED
        BY <2>1, <3>1 DEF Told
    <2> QED
      BY <2>1, <2>2, <2>3, <2>4 DEF Wrote
  <1>3. Judged'
    BY DEF HostReads, Judged, host, guest
  <1>4. Exited'
    BY DEF HostReads, Exited, Judged, host, guest
  <1>5. Kept'
    BY DEF HostReads, Kept, Behind, Judged, host, guest
  <1>6. Counted'
    BY DEF HostReads, Counted, host, guest
  <1>7. Confirmed'
    <2>1. SUFFICES ASSUME exit = "ok", babbled = 0
                   PROVE  FALSE
      BY DEF HostReads, guest, Confirmed
    <2>2. heard = <<Start, Finish("ok")>>
      BY <2>1 DEF Confirmed
    <2>3. pc = "end" /\ result # "none"
      BY <2>1 DEF Exited, TypeOK, Errors
    <2>4. Asked \/ Told(Finish(result))
      BY <2>3 DEF Wrote
    <2>5. Len(heard) = 2 /\ heard # <<>> /\ heard # <<Start>>
      BY <2>2
    <2> QED
      BY <2>4, <2>5 DEF HostReads, Asked, Told
  <1> QED
    BY <1>1, <1>2, <1>3, <1>4, <1>5, <1>6, <1>7

\* The host disconnects.
LEMMA LeavesKeeps ==
  ASSUME IInv, HostLeaves
  PROVE  IInv'
  <1> USE DEF IInv
  <1>1. TypeOK'
    BY DEF HostLeaves, TypeOK, host, guest, Requests
  <1>2. Wrote'
    BY DEF HostLeaves, TypeOK, Wrote, Silent, Asked, Told, host, guest
  <1>3. Judged'
    BY DEF HostLeaves, Judged, host, guest
  <1>4. Exited'
    BY DEF HostLeaves, Exited, Judged, host, guest
  <1>5. Kept'
    BY DEF HostLeaves, Kept, Behind, Judged, host, guest
  <1>6. Counted'
    BY DEF HostLeaves, Counted, host, guest
  <1>7. Confirmed'
    BY DEF HostLeaves, Confirmed, Exited, host, guest
  <1> QED
    BY <1>1, <1>2, <1>3, <1>4, <1>5, <1>6, <1>7

\* An answer is decoded.
LEMMA DecodeKeeps ==
  ASSUME IInv, Decode
  PROVE  IInv'
  <1> USE DEF IInv
  <1>d. /\ pc = "await" /\ down \in Seq(Replies) /\ down # <<>> /\ down' \in Seq(Replies)
        /\ \/ pc' = "poll" /\ result' = result /\ down[1] = "input" /\ down' = Tail(down)
           \/ pc' = "report" /\ result' \in Errors \ {"pipeline"}
        /\ UNCHANGED <<exit, builds, up, host>>
    BY Decoded
  <1>1. TypeOK'
    BY <1>d DEF TypeOK, host, Errors
  <1>2. Wrote'
    BY <1>d DEF Wrote, Asked, host
  <1>3. Judged'
    BY <1>d DEF Judged, Errors
  <1>4. Exited'
    BY <1>d DEF Exited
  <1>5. Kept'
    <2>1. sent = down /\ sent' = sent /\ builds = <<>> /\ builds' = builds
      BY <1>d DEF Kept, Judged, host
    <2>2. CASE pc' = "poll" /\ down[1] = "input" /\ down' = Tail(down)
      <3>1. down = <<down[1]>> \o Tail(down)
        BY <1>d, Behindness, "input" \in Replies DEF Replies
      <3> QED
        BY <2>1, <2>2, <3>1 DEF Kept, Behind
    <2>3. CASE pc' = "report"
      BY <2>1, <2>3 DEF Kept
    <2> QED
      BY <1>d, <2>2, <2>3
  <1>6. Counted'
    BY <1>d DEF Counted, host
  <1>7. Confirmed'
    BY <1>d DEF Confirmed, host
  <1> QED
    BY <1>1, <1>2, <1>3, <1>4, <1>5, <1>6, <1>7

\* The acknowledgement is read: by then an answering host read both requests.
LEMMA AcknowledgedKeeps ==
  ASSUME IInv, Acknowledged
  PROVE  IInv'
  <1> USE DEF IInv
  <1>r. result \in {"ok"} \cup Errors /\ Told(Finish(result)) /\ pc = "acknowledge"
    BY DEF Acknowledged, TypeOK, Judged, Wrote
  <1>d. down \in Seq(Replies) /\ down # <<>> /\ Tail(down) \in Seq(Replies) /\ Len(down) >= 1
    BY DEF Acknowledged, Complete, TypeOK
  <1>1. TypeOK'
    BY <1>r, <1>d DEF Acknowledged, TypeOK, host, Exits, Outcome, Errors
  <1>2. Wrote'
    <2>1. Told(Finish(result))'
      BY <1>r DEF Acknowledged, Told, host
    <2> QED
      BY <1>r, <2>1 DEF Acknowledged, Wrote, Exits, Errors
  <1>3. Judged'
    BY DEF Acknowledged, Judged, host, Exits
  <1>4. Exited'
    BY <1>r DEF Acknowledged, Exited, Exits, Outcome, Errors
  <1>5. Kept'
    BY DEF Acknowledged, Kept, Exits
  <1>6. Counted'
    BY DEF Acknowledged, Counted, host
  <1>7. Confirmed'
    <2>1. SUFFICES ASSUME exit' = "ok", babbled = 0
                   PROVE  heard = <<Start, Finish("ok")>>
      BY DEF Acknowledged, Confirmed, host
    <2>2. result = "ok"
      BY <1>r, <2>1 DEF Acknowledged, Exits, Outcome, Errors
    <2>3. builds # <<>>
      BY <2>2 DEF Judged
    <2>4. sent = <<"input">> \o down
      BY <1>r, <2>3 DEF Kept, Behind
    <2>5. Len(sent) >= 2
      BY <1>d, <2>4
    <2>6. Len(heard) >= 2
      BY <2>1, <2>5 DEF Counted, TypeOK
    <2>7. heard # <<>> /\ heard # <<Start>>
      <3>1. Len(<<>>) = 0 /\ Len(<<Start>>) = 1
        OBVIOUS
      <3> QED
        BY ONLY <2>6, <3>1
    <2> QED
      BY <1>r, <2>2, <2>7 DEF Told
  <1> QED
    BY <1>1, <1>2, <1>3, <1>4, <1>5, <1>6, <1>7

\* The host answers a request.
LEMMA AnswersKeeps ==
  ASSUME IInv, HostAnswers
  PROVE  IInv'
  <1> USE DEF IInv
  <1>m. PICK message \in Replies : Sends(message)
    BY DEF HostAnswers, Replies
  <1>s. /\ down \in Seq(Replies) /\ sent \in Seq(Replies)
        /\ down' = Append(down, message) /\ sent' = Append(sent, message)
    BY <1>m DEF Sends, TypeOK
  <1>u. UNCHANGED <<pc, result, exit, builds, up, connected, heard>>
    BY DEF HostAnswers, guest
  <1>1. TypeOK'
    <2>1. down' \in Seq(Replies) /\ sent' \in Seq(Replies)
      BY <1>s
    <2>2. answered' \in 0..Len(heard) /\ babbled' \in 0..MaxBabble
      BY BabbleAssumption DEF HostAnswers, TypeOK
    <2> QED
      BY <1>u, <2>1, <2>2 DEF TypeOK
  <1>2. Wrote'
    BY <1>u DEF Wrote, Silent, Asked, Told
  <1>3. Judged'
    BY <1>u DEF Judged
  <1>4. Exited'
    BY <1>u DEF Exited
  <1>5. Kept'
    <2>1. sent = down => sent' = down'
      BY <1>s
    <2>2. Behind => Behind'
      <3>1. Append(<<"input">> \o down, message) = <<"input">> \o Append(down, message)
        BY <1>s, Behindness DEF Replies
      <3> QED
        BY <1>s, <3>1 DEF Behind
    <2> QED
      BY <1>u, <2>1, <2>2 DEF Kept
  <1>6. Counted'
    <2>1. Len(sent') = Len(sent) + 1
      BY <1>s
    <2> QED
      BY <2>1 DEF HostAnswers, Counted, TypeOK
  <1>7. Confirmed'
    BY <1>u DEF HostAnswers, Confirmed, TypeOK
  <1> QED
    BY <1>1, <1>2, <1>3, <1>4, <1>5, <1>6, <1>7

\* The host sends a message unasked.
LEMMA BabblesKeeps ==
  ASSUME IInv, HostBabbles
  PROVE  IInv'
  <1> USE DEF IInv
  <1>m. PICK message \in Replies : Sends(message)
    BY DEF HostBabbles, Replies
  <1>s. /\ down \in Seq(Replies) /\ sent \in Seq(Replies)
        /\ down' = Append(down, message) /\ sent' = Append(sent, message)
    BY <1>m DEF Sends, TypeOK
  <1>u. UNCHANGED <<pc, result, exit, builds, up, connected, heard>>
    BY DEF HostBabbles, guest
  <1>1. TypeOK'
    <2>1. down' \in Seq(Replies) /\ sent' \in Seq(Replies)
      BY <1>s
    <2>2. answered' \in 0..Len(heard) /\ babbled' \in 0..MaxBabble
      BY BabbleAssumption DEF HostBabbles, TypeOK
    <2> QED
      BY <1>u, <2>1, <2>2 DEF TypeOK
  <1>2. Wrote'
    BY <1>u DEF Wrote, Silent, Asked, Told
  <1>3. Judged'
    BY <1>u DEF Judged
  <1>4. Exited'
    BY <1>u DEF Exited
  <1>5. Kept'
    <2>1. sent = down => sent' = down'
      BY <1>s
    <2>2. Behind => Behind'
      <3>1. Append(<<"input">> \o down, message) = <<"input">> \o Append(down, message)
        BY <1>s, Behindness DEF Replies
      <3> QED
        BY <1>s, <3>1 DEF Behind
    <2> QED
      BY <1>u, <2>1, <2>2 DEF Kept
  <1>6. Counted'
    <2>1. Len(sent') = Len(sent) + 1
      BY <1>s
    <2> QED
      BY <2>1 DEF HostBabbles, Counted, TypeOK
  <1>7. Confirmed'
    BY <1>u DEF HostBabbles, Confirmed, TypeOK
  <1> QED
    BY <1>1, <1>2, <1>3, <1>4, <1>5, <1>6, <1>7

LEMMA Initial == Init => IInv
  <1> SUFFICES ASSUME Init
               PROVE  IInv
    OBVIOUS
  <1>1. TypeOK
    BY BabbleAssumption DEF Init, TypeOK
  <1>2. Wrote /\ Judged /\ Exited /\ Kept /\ Counted /\ Confirmed
    BY DEF Init, Wrote, Silent, Judged, Exited, Kept, Counted, Confirmed
  <1> QED
    BY <1>1, <1>2 DEF IInv

LEMMA Step == IInv /\ [Next]_vars => IInv'
  <1> SUFFICES ASSUME IInv, [Next]_vars
               PROVE  IInv'
    OBVIOUS
  <1>1. CASE Guest
    BY <1>1, RequestKeeps, DecodeKeeps, DecodeFailsKeeps, PollKeeps, ResolveKeeps, PipelineKeeps,
       ReportKeeps, AcknowledgedKeeps, LostKeeps DEF Guest
  <1>2. CASE OpenFails \/ WriteFails
    BY <1>2, OpenFailsKeeps, WriteFailsKeeps
  <1>3. CASE HostReads \/ HostAnswers \/ HostBabbles \/ HostLeaves
    BY <1>3, ReadsKeeps, AnswersKeeps, BabblesKeeps, LeavesKeeps
  <1>4. CASE UNCHANGED vars
    <2>1. TypeOK' /\ Wrote'
      BY <1>4 DEF vars, IInv, TypeOK, Wrote, Silent, Asked, Told
    <2>2. Judged' /\ Exited' /\ Kept' /\ Counted' /\ Confirmed'
      BY <1>4 DEF vars, IInv, Judged, Exited, Kept, Behind, Counted, Confirmed
    <2> QED
      BY <2>1, <2>2 DEF IInv
  <1> QED
    BY <1>1, <1>2, <1>3, <1>4 DEF Next

LEMMA Inductive == Spec => []IInv
  BY Initial, Step, PTL DEF Spec

-----------------------------------------------------------------------------
(* Theorems *)

\* What the host heard, at any moment (appliance: run writes at most two requests).
LEMMA HeardIs ==
  ASSUME IInv
  PROVE  \/ heard = <<>>
         \/ heard = <<Start>>
         \/ heard = <<Start, Finish(result)>> /\ result # "none" /\ pc \in {"acknowledge", "end"}
  <1>1. pc \in {"open", "await", "poll", "resolve", "build", "report", "acknowledge", "end"}
    BY DEF IInv, TypeOK
  <1>2. pc = "acknowledge" => result # "none"
    BY DEF IInv, Judged
  <1>3. Silent \/ Asked \/ (Told(Finish(result)) /\ result # "none" /\ pc \in {"acknowledge", "end"})
    BY <1>1, <1>2 DEF IInv, Wrote
  <1> QED
    BY <1>3 DEF Silent, Asked, Told

\* The variables have their types, for every number of unasked messages
\* (appliance: run).
THEOREM PortTypes == Spec => []TypeOK
  BY Inductive, PTL DEF IInv

LEMMA StoryHolds ==
  ASSUME IInv
  PROVE  OneStory
  <1>1. SUFFICES ASSUME NEW outcome \in {"ok"} \cup Errors, Finish(outcome) \in Range(heard)
                 PROVE  /\ outcome = "ok" <=> builds = <<"ok">>
                        /\ outcome = "pipeline" <=> builds = <<"pipeline">>
                        /\ exit # "running" => exit = outcome \/ (outcome = "ok" /\ exit = "report")
    BY DEF OneStory
  <1>2. Finish(outcome) # Start
    BY DEF Finish, Start
  <1>3. PICK i \in DOMAIN heard : heard[i] = Finish(outcome)
    BY <1>1 DEF Range
  <1>4. heard = <<Start, Finish(result)>> /\ result # "none" /\ pc \in {"acknowledge", "end"}
    <2>1. heard # <<>>
      BY <1>3
    <2>2. heard # <<Start>>
      BY <1>2, <1>3
    <2> QED
      BY <2>1, <2>2, HeardIs
  <1>5. Finish(outcome) = Finish(result)
    <2>1. i \in 1..2
      BY <1>4
    <2> QED
      BY <1>2, <1>3, <1>4, <2>1
  <1>6. outcome = result
    BY <1>5 DEF Finish
  <1>7. (outcome = "ok" <=> builds = <<"ok">>) /\ (outcome = "pipeline" <=> builds = <<"pipeline">>)
    <2>1. <<"ok">> # <<"pipeline">> /\ <<"ok">> # <<>> /\ <<"pipeline">> # <<>>
      <3>1. <<"ok">>[1] # <<"pipeline">>[1]
        OBVIOUS
      <3> QED
        BY <3>1
    <2> QED
      BY ONLY IInv, <1>6, <2>1 DEF IInv, Judged
  <1>8. exit # "running" => exit = outcome \/ (outcome = "ok" /\ exit = "report")
    BY <1>4, <1>6 DEF IInv, Exited
  <1> QED
    BY <1>7, <1>8

\* The host and the guest tell one story of the build (appliance: run, and
\* the order of its two errors).
THEOREM PortTellsOneStory == Spec => []OneStory
  BY StoryHolds, Inductive, PTL

LEMMA SwallowingHolds ==
  ASSUME IInv
  PROVE  NothingSwallowed
  <1>1. SUFFICES ASSUME builds # <<>>, exit = "running"
                 PROVE  Behind
    BY DEF NothingSwallowed, Behind
  <1>2. pc # "end"
    BY <1>1 DEF IInv, Exited, TypeOK, Errors
  <1>3. pc \in {"report", "acknowledge"}
    BY <1>1, <1>2 DEF IInv, TypeOK, Judged
  <1> QED
    BY <1>1, <1>3 DEF IInv, Kept

\* Nothing sent after the input was swallowed by the buffer of the decoder or
\* by the poll (appliance: finished, Poll).
THEOREM PortNothingSwallowed == Spec => []NothingSwallowed
  BY SwallowingHolds, Inductive, PTL

LEMMA HearingHolds ==
  ASSUME IInv
  PROVE  SuccessIsHeard
  <1>1. SUFFICES ASSUME exit = "ok", babbled = 0
                 PROVE  Finish("ok") \in Range(heard) /\ builds = <<"ok">>
    BY DEF SuccessIsHeard
  <1>2. heard = <<Start, Finish("ok")>>
    BY <1>1 DEF IInv, Confirmed
  <1>3. 2 \in DOMAIN heard /\ heard[2] = Finish("ok")
    BY <1>2
  <1>4. Finish("ok") \in Range(heard)
    BY <1>3 DEF Range
  <1>5. pc = "end" /\ result = "ok"
    BY <1>1 DEF IInv, Exited, TypeOK, Errors
  <1>6. builds = <<"ok">>
    BY <1>5 DEF IInv, Judged
  <1> QED
    BY <1>4, <1>6

\* A success was read by a host that only answers, before the appliance shuts
\* down (appliance: Console::report).
THEOREM PortSuccessIsHeard == Spec => []SuccessIsHeard
  BY HearingHolds, Inductive, PTL

-----------------------------------------------------------------------------
(* The runtime: its inductive invariant *)

AllFree == \A p \in Points : R!Free(p)

\* What exists before each step of the setup.
Built ==
  CASE step \in {"var", "scratch"} -> {}
    [] step = "tmpfs" -> {"scratch"}
    [] step \in {"run", "scope", "target"} -> {"scratch", "tmpfs"}
    [] step = "workspace" -> {"scratch", "tmpfs", "target"}
    [] step = "recovery" -> {"scratch", "tmpfs", "target", "workspace"}
    [] step = "volumes" -> {"scratch", "tmpfs", "target", "workspace", "recovery"}
    [] step = "cgroups" -> {"scratch", "tmpfs", "target", "workspace", "recovery", "volumes"}
    [] step = "cgroup2" -> {"scratch", "tmpfs", "target", "workspace", "recovery", "volumes", "cgroups"}
    [] step = "group" -> {"scratch", "tmpfs", "target", "workspace", "recovery", "volumes", "cgroups", "cgroup2"}
    [] step \in {"lease", "stages"} -> R!Things
    [] OTHER -> exists

Exact == exists = Built

\* What rests on another thing.
Nested ==
  /\ "workspace" \in exists => "target" \in exists
  /\ "recovery" \in exists => "workspace" \in exists
  /\ "volumes" \in exists => "workspace" \in exists
  /\ "cgroups" \in exists => "workspace" \in exists
  /\ "cgroup2" \in exists => "cgroups" \in exists
  /\ "group" \in exists => "cgroup2" \in exists

\* What closing has passed.
Gone ==
  /\ step \in {"no_volumes", "no_group", "no_cgroup2", "no_cgroups", "no_workspace", "no_target", "finish", "assemble"}
       => "recovery" \notin exists
  /\ step \in {"no_group", "no_cgroup2", "no_cgroups", "no_workspace", "no_target", "finish", "assemble"}
       => "volumes" \notin exists /\ AllFree
  /\ step \in {"no_cgroup2", "no_cgroups", "no_workspace", "no_target", "finish", "assemble"}
       => "group" \notin exists /\ domains = {}
  /\ step \in {"no_cgroups", "no_workspace", "no_target", "finish", "assemble"} => "cgroup2" \notin exists
  /\ step \in {"no_workspace", "no_target", "finish", "assemble"} => "cgroups" \notin exists
  /\ step \in {"no_target", "finish", "assemble"} => "workspace" \notin exists
  /\ step \in {"finish", "assemble"} => "target" \notin exists

\* Before the stages nothing is attached, and the lease is held by them alone.
Before == step \in R!Making => AllFree /\ domains = {} /\ stages = "none"
Leased == lease = "held" <=> step = "stages"

\* How a build may end.
Ends ==
  /\ step = "drop" /\ cleanup = "whole" /\ domains = {} /\ AllFree => exists \subseteq {"scratch", "tmpfs"}
  /\ step = "done" /\ cleanup = "whole" /\ domains = {} /\ AllFree => exists = {}
  /\ stages = "ready" => step \in {"drop", "done"} /\ exists \subseteq {"scratch", "tmpfs"} /\ domains = {} /\ AllFree
  /\ output = "public" => step = "done" /\ exists = {} /\ domains = {} /\ AllFree

RInv == R!TypeOK /\ Exact /\ Nested /\ Gone /\ Before /\ Leased /\ R!NothingPulledAway /\ Ends

-----------------------------------------------------------------------------
USE DEF R!Making, R!Undoing, R!Things

(* The conjuncts of the invariant, for each kind of step *)

\* A step of the setup (Workspace::create, Runtime::create) keeps the invariant.
LEMMA MakeStepKeeps == ASSUME RInv, R!MakeStep PROVE RInv'
  <1> USE DEF RInv
  <1>1. R!TypeOK'
    BY DEF R!TypeOK, R!MakeStep, R!Make, R!Checked, R!Lock
  <1>2. Exact'
    BY DEF R!TypeOK, Exact, Built, Gone, R!MakeStep, R!Make, R!Checked, R!Lock
  <1>3. Nested'
    BY DEF R!TypeOK, Exact, Built, Nested, Gone, R!MakeStep, R!Make, R!Checked, R!Lock
  <1>4. Gone'
    BY DEF R!TypeOK, Exact, Built, Nested, Gone, Before, R!NothingPulledAway, AllFree, R!Free, R!MakeStep, R!Make, R!Checked, R!Lock
  <1>5. Before' /\ Leased'
    BY DEF R!TypeOK, Before, Leased, AllFree, R!Free, R!MakeStep, R!Make, R!Checked, R!Lock
  <1>6. R!NothingPulledAway'
    BY DEF R!TypeOK, Exact, Built, Gone, Before, R!NothingPulledAway, AllFree, R!Free, R!MakeStep, R!Make, R!Checked, R!Lock
  <1>7. Ends'
    BY DEF R!TypeOK, Exact, Built, Nested, Gone, Before, Ends, R!NothingPulledAway, AllFree, R!Free, R!MakeStep, R!Make, R!Checked, R!Lock
  <1> QED
    BY <1>1, <1>2, <1>3, <1>4, <1>5, <1>6, <1>7

\* So does a setup that fails, and is undone (Runtime::create).
LEMMA MakeFailsKeeps == ASSUME RInv, R!MakeLate \/ R!MakeFault PROVE RInv'
  <1> USE DEF RInv
  <1>1. R!TypeOK'
    <2>1. CASE R!MakeLate
      BY <2>1 DEF R!TypeOK, R!MakeLate, R!MakeEnds, R!Checked
    <2>2. CASE R!MakeFault
      <3>1. PICK half \in R!Half(step) : exists' = exists \cup half
        BY <2>2 DEF R!MakeFault
      <3>2. half \subseteq R!Things
        BY <3>1 DEF R!Half
      <3>3. exists' \subseteq R!Things
        BY <3>1, <3>2 DEF R!TypeOK
      <3>4. faults' \in Nat
        BY <2>2 DEF R!TypeOK, R!MakeFault
      <3>5. step' \in {"begin", "drop"} /\ clock' = "ahead" /\ UNCHANGED <<points, domains, lease, cleanup, stages, output>>
        BY <2>2 DEF R!MakeFault, R!MakeEnds
      <3> QED
        BY <3>3, <3>4, <3>5 DEF R!TypeOK
    <2> QED
      BY <2>1, <2>2
  <1>2. Exact'
    BY DEF R!TypeOK, Exact, Built, Gone, R!MakeLate, R!MakeFault, R!MakeEnds, R!Half, R!Checked
  <1>3. Nested'
    BY DEF R!TypeOK, Exact, Built, Nested, Gone, R!MakeLate, R!MakeFault, R!MakeEnds, R!Half, R!Checked
  <1>4. Gone'
    BY DEF R!TypeOK, Exact, Built, Nested, Gone, Before, R!NothingPulledAway, AllFree, R!Free, R!MakeLate, R!MakeFault, R!MakeEnds, R!Half, R!Checked
  <1>5. Before' /\ Leased'
    BY DEF R!TypeOK, Before, Leased, AllFree, R!Free, R!MakeLate, R!MakeFault, R!MakeEnds, R!Half, R!Checked
  <1>6. R!NothingPulledAway'
    BY DEF R!TypeOK, Exact, Built, Gone, Before, R!NothingPulledAway, AllFree, R!Free, R!MakeLate, R!MakeFault, R!MakeEnds, R!Half, R!Checked
  <1>7. Ends'
    BY DEF R!TypeOK, Exact, Built, Nested, Gone, Before, Ends, R!NothingPulledAway, AllFree, R!Free, R!MakeLate, R!MakeFault, R!MakeEnds, R!Half, R!Checked
  <1> QED
    BY <1>1, <1>2, <1>3, <1>4, <1>5, <1>6, <1>7

\* The stages, their return and the clock keep it (Runtime::scoped).
LEMMA StageKeeps == ASSUME RInv, R!Stage \/ R!Return \/ R!Late PROVE RInv'
  <1> USE DEF RInv
  <1>1. R!TypeOK'
    BY DEF R!TypeOK, R!Stage, R!Attach, R!Detach, R!Enter, R!Leave, R!Return, R!Late, R!things
  <1>2. Exact'
    BY DEF R!TypeOK, Exact, Built, Gone, R!Stage, R!Attach, R!Detach, R!Enter, R!Leave, R!Return, R!Late, R!things
  <1>3. Nested'
    BY DEF R!TypeOK, Exact, Built, Nested, Gone, R!Stage, R!Attach, R!Detach, R!Enter, R!Leave, R!Return, R!Late, R!things
  <1>4. Gone'
    BY DEF R!TypeOK, Exact, Built, Nested, Gone, Before, R!NothingPulledAway, AllFree, R!Free, R!Stage, R!Attach, R!Detach, R!Enter, R!Leave, R!Return, R!Late, R!things
  <1>5. Before' /\ Leased'
    BY DEF R!TypeOK, Before, Leased, AllFree, R!Free, R!Stage, R!Attach, R!Detach, R!Enter, R!Leave, R!Return, R!Late, R!things
  <1>6. R!NothingPulledAway'
    BY DEF R!TypeOK, Exact, Built, Gone, Before, R!NothingPulledAway, AllFree, R!Free, R!Stage, R!Attach, R!Detach, R!Enter, R!Leave, R!Return, R!Late, R!things
  <1>7. Ends'
    BY DEF R!TypeOK, Exact, Built, Nested, Gone, Before, Ends, R!NothingPulledAway, AllFree, R!Free, R!Stage, R!Attach, R!Detach, R!Enter, R!Leave, R!Return, R!Late, R!things
  <1> QED
    BY <1>1, <1>2, <1>3, <1>4, <1>5, <1>6, <1>7

\* So does each thing removed (RuntimeMounts::close).
LEMMA UndoStepKeeps == ASSUME RInv, R!UndoStep PROVE RInv'
  <1> USE DEF RInv
  <1>1. R!TypeOK'
    BY DEF R!TypeOK, R!UndoStep, R!Undo, R!Refused
  <1>2. Exact'
    BY DEF R!TypeOK, Exact, Built, Gone, R!UndoStep, R!Undo, R!Refused
  <1>3. Nested'
    BY DEF R!TypeOK, Exact, Built, Nested, Gone, R!UndoStep, R!Undo, R!Refused
  <1>4. Gone'
    BY DEF R!TypeOK, Exact, Built, Nested, Gone, Before, R!NothingPulledAway, AllFree, R!Free, R!UndoStep, R!Undo, R!Refused
  <1>5. Before' /\ Leased'
    BY DEF R!TypeOK, Before, Leased, AllFree, R!Free, R!UndoStep, R!Undo, R!Refused
  <1>6. R!NothingPulledAway'
    BY DEF R!TypeOK, Exact, Built, Gone, Before, R!NothingPulledAway, AllFree, R!Free, R!UndoStep, R!Undo, R!Refused
  <1>7. Ends'
    BY DEF R!TypeOK, Exact, Built, Nested, Gone, Before, Ends, R!NothingPulledAway, AllFree, R!Free, R!UndoStep, R!Undo, R!Refused
  <1> QED
    BY <1>1, <1>2, <1>3, <1>4, <1>5, <1>6, <1>7

\* A clean-up that stops leaves what it reached (Runtime::close).
LEMMA UndoEndsKeeps == ASSUME RInv, R!UndoStops \/ R!UndoFault PROVE RInv'
  <1> USE DEF RInv
  <1>1. R!TypeOK'
    BY DEF R!TypeOK, R!UndoStops, R!UndoFault, R!GiveUp, R!Refused, R!things
  <1>2. Exact'
    BY DEF R!TypeOK, Exact, Built, Gone, R!UndoStops, R!UndoFault, R!GiveUp, R!Refused, R!things
  <1>3. Nested'
    BY DEF R!TypeOK, Exact, Built, Nested, Gone, R!UndoStops, R!UndoFault, R!GiveUp, R!Refused, R!things
  <1>4. Gone'
    BY DEF R!TypeOK, Exact, Built, Nested, Gone, Before, R!NothingPulledAway, AllFree, R!Free, R!UndoStops, R!UndoFault, R!GiveUp, R!Refused, R!things
  <1>5. Before' /\ Leased'
    BY DEF R!TypeOK, Before, Leased, AllFree, R!Free, R!UndoStops, R!UndoFault, R!GiveUp, R!Refused, R!things
  <1>6. R!NothingPulledAway'
    BY DEF R!TypeOK, Exact, Built, Gone, Before, R!NothingPulledAway, AllFree, R!Free, R!UndoStops, R!UndoFault, R!GiveUp, R!Refused, R!things
  <1>7. Ends'
    BY DEF R!TypeOK, Exact, Built, Nested, Gone, Before, Ends, R!NothingPulledAway, AllFree, R!Free, R!UndoStops, R!UndoFault, R!GiveUp, R!Refused, R!things
  <1> QED
    BY <1>1, <1>2, <1>3, <1>4, <1>5, <1>6, <1>7

\* Assembly, the end of the workspace and a build without stages keep it (Pipeline::run).
LEMMA BuildKeeps == ASSUME RInv, R!Assemble \/ R!DropWorkspace \/ R!Direct PROVE RInv'
  <1> USE DEF RInv
  <1>1. R!TypeOK'
    BY DEF R!TypeOK, R!Assemble, R!DropWorkspace, R!Direct, R!things
  <1>2. Exact'
    BY DEF R!TypeOK, Exact, Built, Gone, R!Assemble, R!DropWorkspace, R!Direct, R!things
  <1>3. Nested'
    BY DEF R!TypeOK, Exact, Built, Nested, Gone, R!Assemble, R!DropWorkspace, R!Direct, R!things
  <1>4. Gone'
    BY DEF R!TypeOK, Exact, Built, Nested, Gone, Before, R!NothingPulledAway, AllFree, R!Free, R!Assemble, R!DropWorkspace, R!Direct, R!things
  <1>5. Before' /\ Leased'
    BY DEF R!TypeOK, Before, Leased, AllFree, R!Free, R!Assemble, R!DropWorkspace, R!Direct, R!things
  <1>6. R!NothingPulledAway'
    BY DEF R!TypeOK, Exact, Built, Gone, Before, R!NothingPulledAway, AllFree, R!Free, R!Assemble, R!DropWorkspace, R!Direct, R!things
  <1>7. Ends'
    BY DEF R!TypeOK, Exact, Built, Nested, Gone, Before, Ends, R!NothingPulledAway, AllFree, R!Free, R!Assemble, R!DropWorkspace, R!Direct, R!things
  <1> QED
    BY <1>1, <1>2, <1>3, <1>4, <1>5, <1>6, <1>7

-----------------------------------------------------------------------------
(* The theorems *)

\* Before anything exists (Pipeline::run).
LEMMA RuntimeStarts == ASSUME R!Init PROVE RInv
  BY DEF R!Init, RInv, R!TypeOK, Exact, Built, Nested, Gone, Before, Leased, R!NothingPulledAway, Ends,
    AllFree, R!Free

\* Every step of the build.
LEMMA RuntimeStep == ASSUME RInv, [R!Next]_runtime PROVE RInv'
  <1>1. CASE R!MakeStep
    BY <1>1, MakeStepKeeps
  <1>2. CASE R!MakeLate \/ R!MakeFault
    BY <1>2, MakeFailsKeeps
  <1>3. CASE R!Stage \/ R!Return \/ R!Late
    BY <1>3, StageKeeps
  <1>4. CASE R!UndoStep
    BY <1>4, UndoStepKeeps
  <1>5. CASE R!UndoStops \/ R!UndoFault
    BY <1>5, UndoEndsKeeps
  <1>6. CASE R!Assemble \/ R!DropWorkspace \/ R!Direct
    BY <1>6, BuildKeeps
  <1>7. CASE UNCHANGED runtime
    BY <1>7 DEF runtime, RInv, R!TypeOK, Exact, Built, Nested, Gone, Before, Leased, R!NothingPulledAway, Ends, AllFree, R!Free
  <1> QED
    BY <1>1, <1>2, <1>3, <1>4, <1>5, <1>6, <1>7 DEF R!Next, R!Steps

\* The invariant holds of every behaviour of a build with its runtime (Runtime::scoped).
THEOREM RuntimeInvariant == R!Spec => []RInv
  BY RuntimeStarts, RuntimeStep, PTL DEF R!Spec, R!vars, runtime

\* What the invariant says of each property.
LEMMA RuntimeHolds == RInv => R!RuntimeSound
  <1>1. RInv => R!TypeOK /\ R!NothingPulledAway
    BY DEF RInv
  <1>2. RInv => R!ReadyForStages
    BY DEF RInv, Exact, Built, Leased, R!ReadyForStages
  <1>3. RInv => R!PublishedIsClean
    BY DEF RInv, R!TypeOK, Ends, Leased, AllFree, R!PublishedIsClean
  <1>4. RInv => R!RetainedForCause
    BY DEF RInv, R!TypeOK, Ends, Leased, AllFree, R!RetainedForCause
  <1> QED
    BY <1>1, <1>2, <1>3, <1>4 DEF R!RuntimeSound

\* The state of Runtime and of its clean-up stays well formed (runtime.rs: Runtime::create, close).
THEOREM RuntimeTypes == R!Spec => []R!TypeOK
  BY RuntimeHolds, RuntimeInvariant, PTL DEF R!RuntimeSound

\* Whatever a stage left behind keeps the directories and mounts below it, whichever calls
\* fail and whenever a deadline passes (RuntimeMounts::close).
THEOREM RuntimeNothingPulledAway == R!Spec => []R!NothingPulledAway
  BY RuntimeHolds, RuntimeInvariant, PTL DEF R!RuntimeSound

\* The stages are started with all of the control resources and the lease (Runtime::create).
THEOREM RuntimeReadyForStages == R!Spec => []R!ReadyForStages
  BY RuntimeHolds, RuntimeInvariant, PTL DEF R!RuntimeSound

\* A published build left nothing: the explicit close comes before publication (Pipeline::run).
THEOREM RuntimePublishedIsClean == R!Spec => []R!PublishedIsClean
  BY RuntimeHolds, RuntimeInvariant, PTL DEF R!RuntimeSound

\* What stays behind does so for what a stage left or a clean-up that failed (Runtime::scoped).
THEOREM RuntimeRetainedForCause == R!Spec => []R!RetainedForCause
  BY RuntimeHolds, RuntimeInvariant, PTL DEF R!RuntimeSound

-----------------------------------------------------------------------------
(* The two positions *)

\* No runtime before the build, and a finished one behind it.
Joint ==
  /\ builds = <<>> /\ pc # "build" => step = "var" /\ output = "private"
  /\ builds # <<>> => step = "done" /\ (output = "public" <=> builds = <<"ok">>)

AInv == IInv /\ RInv /\ Joint

LEMMA Different ==
  \A s : /\ Append(<<>>, s) = <<s>> /\ Append(<<>>, s) # <<>>
         /\ <<"ok">> # <<"pipeline">> /\ <<"ok">> # <<>>
  <1>1. <<"ok">>[1] # <<"pipeline">>[1]
    OBVIOUS
  <1> QED
    BY <1>1

LEMMA InitAInv == ApplianceInit => AInv
  <1> SUFFICES ASSUME ApplianceInit PROVE AInv
    OBVIOUS
  <1>1. IInv
    BY Initial DEF ApplianceInit
  <1>2. RInv
    BY RuntimeStarts DEF ApplianceInit
  <1>3. Joint
    BY DEF ApplianceInit, Init, R!Init, Joint
  <1> QED
    BY <1>1, <1>2, <1>3 DEF AInv

\* A step of the port leaves the runtime alone, and what it says of the build.
LEMMA RuntimeRests ==
  ASSUME AInv, UNCHANGED runtime
  PROVE  RInv'
  BY RuntimeStep DEF AInv

LEMMA ExchangeKeeps == ASSUME AInv, Exchange PROVE AInv'
  <1>1. UNCHANGED runtime
    BY DEF Exchange
  <1>2. Next
    BY DEF Exchange, Next, Guest
  <1>3. UNCHANGED builds
    BY DEF Exchange, Request, Decode, DecodeFails, Poll, Resolve, Report, Acknowledged,
      AcknowledgementLost
  <1>4. pc # "build"
    BY DEF Exchange, Request, Decode, DecodeFails, Poll, Resolve, Report, Acknowledged,
      AcknowledgementLost
  <1>5. Joint'
    BY <1>1, <1>3, <1>4 DEF AInv, Joint, runtime
  <1> QED
    BY <1>1, <1>2, <1>5, Step, RuntimeRests DEF AInv

LEMMA SurroundingsKeep == ASSUME AInv, Surroundings PROVE AInv'
  <1>1. UNCHANGED runtime
    BY DEF Surroundings
  <1>2. Next
    BY DEF Surroundings, Next
  <1>3. UNCHANGED builds /\ (pc' = pc \/ (pc # "build" /\ pc' # "build"))
    BY DEF Surroundings, OpenFails, WriteFails, HostReads, HostAnswers, HostBabbles, HostLeaves,
      guest, host, Exits
  <1>4. Joint'
    BY <1>1, <1>3 DEF AInv, Joint, runtime
  <1> QED
    BY <1>1, <1>2, <1>4, Step, RuntimeRests DEF AInv

\* A step of the build is hidden from the port.
LEMMA WorkKeeps == ASSUME AInv, Work PROVE AInv'
  <1>1. IInv'
    BY Step DEF AInv, Work
  <1>2. RInv'
    BY RuntimeStep DEF AInv, Work
  <1>3. builds = <<>> /\ UNCHANGED <<pc, builds>> /\ pc = "build"
    BY DEF AInv, IInv, Judged, Work, vars
  <1>4. Joint'
    BY <1>3 DEF Joint
  <1> QED
    BY <1>1, <1>2, <1>4 DEF AInv

\* The end of the build is the pipeline's one step at the port.
LEMMA ConcludeKeeps == ASSUME AInv, Conclude PROVE AInv'
  <1>1. UNCHANGED runtime
    BY DEF Conclude
  <1>2. Pipeline
    BY DEF Conclude, Pipeline
  <1>3. Next
    BY <1>2 DEF Next, Guest
  <1>4. builds = <<>>
    BY DEF AInv, IInv, Judged, Conclude
  <1>5. builds' = <<IF output = "public" THEN "ok" ELSE "pipeline">>
    BY <1>4, Different DEF Conclude
  <1>6. Joint'
    BY <1>1, <1>5, Different DEF Joint, Conclude, runtime
  <1> QED
    BY <1>1, <1>3, <1>6, Step, RuntimeRests DEF AInv

LEMMA AStep == AInv /\ [ApplianceNext]_<<vars, runtime>> => AInv'
  <1> SUFFICES ASSUME AInv, [ApplianceNext]_<<vars, runtime>> PROVE AInv'
    OBVIOUS
  <1>1. CASE UNCHANGED <<vars, runtime>>
    <2>1. IInv'
      BY <1>1, Step DEF AInv
    <2>2. Joint'
      BY <1>1 DEF AInv, Joint, vars, runtime
    <2> QED
      BY <1>1, <2>1, <2>2, RuntimeRests DEF AInv
  <1> QED
    BY <1>1, ExchangeKeeps, WorkKeeps, ConcludeKeeps, SurroundingsKeep DEF ApplianceNext

LEMMA ApplianceInductive == ApplianceSpec => []AInv
  BY InitAInv, AStep, PTL DEF ApplianceSpec

-----------------------------------------------------------------------------
(* Theorems *)

\* The control resources of the build keep their order, whatever the launcher
\* does meanwhile (Runtime::create, RuntimeMounts::close under appliance::run).
THEOREM ApplianceRuntime == ApplianceSpec => []RuntimeIsSound
  <1>1. AInv => RuntimeIsSound
    BY RuntimeHolds DEF AInv, RuntimeIsSound
  <1> QED
    BY <1>1, ApplianceInductive, PTL

LEMMA DoneHolds == ASSUME AInv PROVE HeardIsDone
  <1>1. ASSUME NEW o \in {"ok"} \cup Errors, Finish(o) \in Range(heard)
        PROVE  pc \in {"acknowledge", "end"}
    <2>1. Finish(o) # Start
      BY DEF Finish, Start
    <2>2. PICK i \in DOMAIN heard : heard[i] = Finish(o)
      BY <1>1 DEF Range
    <2>3. heard # <<>> /\ heard # <<Start>>
      BY <2>1, <2>2
    <2> QED
      BY <2>3, HeardIs DEF AInv
  <1>2. exit # "running" => pc = "end"
    BY DEF AInv, IInv, Exited
  <1>3. ASSUME pc \in {"acknowledge", "end"}
        PROVE  step \in {"var", "done"} /\ (output = "public" <=> builds = <<"ok">>)
    BY <1>3, Different DEF AInv, Joint
  <1>4. ASSUME Finish("ok") \in Range(heard)
        PROVE  output = "public" /\ exists = {} /\ domains = {} /\ lease = "free"
    <2>1. builds = <<"ok">>
      BY <1>4, StoryHolds DEF AInv, OneStory
    <2>2. output = "public"
      BY <2>1, Different DEF AInv, Joint
    <2>3. R!PublishedIsClean
      BY RuntimeHolds DEF AInv, R!RuntimeSound
    <2> QED
      BY <2>2, <2>3 DEF R!PublishedIsClean
  <1> QED
    BY <1>1, <1>2, <1>3, <1>4 DEF HeardIsDone

\* Launcher and guest tell one story, and the launcher hears of a success only
\* when the image is public and the build has left nothing (appliance::run,
\* Pipeline::run).
THEOREM ApplianceStory == ApplianceSpec => []ApplianceIsSound
  <1>1. AInv => PortIsHonest
    BY StoryHolds, SwallowingHolds, HearingHolds DEF AInv, IInv, PortIsHonest
  <1>2. AInv => ApplianceIsSound
    BY <1>1, DoneHolds, RuntimeHolds DEF AInv, RuntimeIsSound, ApplianceIsSound
  <1> QED
    BY <1>2, ApplianceInductive, PTL
=============================================================================
