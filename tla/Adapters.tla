------------------------------- MODULE Adapters -------------------------------
(***************************************************************************)
(* Sending artifacts through an adapter: retry, circuit breaker and         *)
(* fallback of the base class (engine/profile.py), and the three adapters   *)
(* that come with the engine (adapters/file_adapter.py).                    *)
(*                                                                         *)
(* Several sends share one adapter object on one event loop, and give way   *)
(* while they post and between two attempts.  "base" stands for an adapter  *)
(* whose _send raises TransientError or PermanentError.  The others name    *)
(* their files by the second.                                               *)
(***************************************************************************)
EXTENDS Naturals, FiniteSets

CONSTANTS
  Sending,     \* calls of send, each with an artifact of its own
  Retries,     \* values of max_retries
  Threshold,   \* circuit_breaker_threshold
  Part,        \* parts of an artifact that the Buffer adapter posts one by one
  MaxSecond    \* bound: seconds

ASSUME AdaptersAssumption ==
  /\ Retries \subseteq Nat \ {0} /\ Threshold \in Nat \ {0} /\ MaxSecond \in Nat
  /\ IsFiniteSet(Part) /\ Part \subseteq Nat

VARIABLES
  adapter,    \* which one: "base", "file", "buffer", "github"
  retries,    \* its max_retries
  failed,     \* failure_count
  circuitOpen,
  sends,      \* where each call is
  posted,     \* parts of artifacts that the other side has
  saved,      \* parts of artifacts in files of their own
  named,      \* file named by a second, and by a part, -> the artifact in it
  clobbered,  \* parts whose file another one overwrote
  second

adapterVars == <<adapter, retries, failed, circuitOpen, sends, posted, saved, named, clobbered, second>>

\* An artifact that is not split is one part, 0.
Parts == IF adapter = "buffer" THEN Part ELSE {0}

Idle == [stage |-> "idle", attempt |-> 0, left |-> {}]

AdaptersInit ==
  /\ adapter \in {"base", "file", "buffer", "github"}
  /\ retries \in Retries /\ failed = 0 /\ circuitOpen = FALSE /\ sends = [c \in Sending |-> Idle]
  /\ posted = {} /\ saved = {} /\ named = {} /\ clobbered = {} /\ second = 0

SecondPasses ==
  /\ second < MaxSecond /\ second' = second + 1
  /\ UNCHANGED <<adapter, retries, failed, circuitOpen, sends, posted, saved, named, clobbered>>

-----------------------------------------------------------------------------
\* Adapter.send

CallAt(c, stage) == sends' = [sends EXCEPT ![c].stage = stage]

\* _fallback: a file named by the microsecond; the result says success
Fallback(c) == saved' = saved \cup {<<c, 0>>} /\ CallAt(c, "success")

\* An open circuit sends nothing.
Send(c) ==
  /\ sends[c] = Idle
  /\ IF circuitOpen
     THEN Fallback(c)
     ELSE /\ sends' = [sends EXCEPT ![c] = [stage |-> "trying", attempt |-> 0, left |-> Parts]]
          /\ saved' = saved
  /\ UNCHANGED <<adapter, retries, failed, circuitOpen, posted, named, clobbered, second>>

\* Variant: an attempt after the breathing space counts as the same one.
NextAttemptSame(c) == sends[c].attempt

NextAttempt(c) == sends[c].attempt + 1

\* _send returned: the count of failures starts again.
Sent(c) ==
  /\ adapter = "base" /\ sends[c].stage = "trying"
  /\ failed' = 0 /\ posted' = posted \cup {<<c, 0>>} /\ CallAt(c, "success")
  /\ UNCHANGED <<adapter, retries, circuitOpen, saved, named, clobbered, second>>

\* TransientError, after which the other side may or may not have the artifact.  The
\* first three attempts are followed by a pause; a later one is a failure.
Transient(c) ==
  /\ adapter = "base" /\ sends[c].stage = "trying"
  /\ posted' \in {posted, posted \cup {<<c, 0>>}}
  /\ IF sends[c].attempt < 3
     THEN CallAt(c, "pausing") /\ UNCHANGED <<failed, circuitOpen, saved>>
     ELSE Fallback(c) /\ failed' = failed + 1 /\ circuitOpen' = (circuitOpen \/ failed' >= Threshold)
  /\ UNCHANGED <<adapter, retries, named, clobbered, second>>

\* Variant: a send that has used up its attempts just ends.
GivesUpSilently(c) == saved' = saved /\ CallAt(c, "success")

\* The loop over the attempts is left.
GivesUp(c) == Fallback(c)

PauseEnds(c) ==
  /\ sends[c].stage = "pausing"
  /\ IF NextAttempt(c) < retries
     THEN /\ sends' = [sends EXCEPT ![c].stage = "trying", ![c].attempt = NextAttempt(c)]
          /\ saved' = saved
     ELSE GivesUp(c)
  /\ UNCHANGED <<adapter, retries, failed, circuitOpen, posted, named, clobbered, second>>

Permanent(c) ==
  /\ adapter = "base" /\ sends[c].stage = "trying"
  /\ failed' = failed + 1 /\ circuitOpen' = (circuitOpen \/ failed' >= Threshold)
  /\ Fallback(c)
  /\ UNCHANGED <<adapter, retries, posted, named, clobbered, second>>

\* Any other exception is not caught.
Raises(c) ==
  /\ adapter = "base" /\ sends[c].stage = "trying" /\ CallAt(c, "raised")
  /\ UNCHANGED <<adapter, retries, failed, circuitOpen, posted, saved, named, clobbered, second>>

-----------------------------------------------------------------------------
\* The adapters that come with the engine.  Each returns from _send or raises an exception
\* of another kind, so that none of them counts a failure or tries again.

\* A file named by the part and the second takes the place of one with that name.
SaveNamed(c, p) ==
  LET old == {f \in named : f.part = p /\ f.at = second}
  IN  /\ named' = (named \ old) \cup {[call |-> c, part |-> p, at |-> second]}
      /\ clobbered' = clobbered \cup {<<f.call, f.part>> : f \in old}

FileSend(c) ==
  /\ adapter = "file" /\ sends[c].stage = "trying"
  /\ SaveNamed(c, 0) /\ failed' = 0 /\ CallAt(c, "success")
  /\ UNCHANGED <<adapter, retries, circuitOpen, posted, saved, second>>

\* 201, 422, or anything else, which is saved
GitHubSend(c) ==
  /\ adapter = "github" /\ sends[c].stage = "trying" /\ failed' = 0
  /\ \/ posted' = posted \cup {<<c, 0>>} /\ CallAt(c, "success") /\ UNCHANGED <<named, clobbered>>
     \/ CallAt(c, "refused") /\ UNCHANGED <<posted, named, clobbered>>
     \/ posted' \in {posted, posted \cup {<<c, 0>>}} /\ SaveNamed(c, 0) /\ CallAt(c, "refused")
  /\ UNCHANGED <<adapter, retries, circuitOpen, saved, second>>

\* One tweet after the other, each posted or saved
BufferPost(c) ==
  /\ adapter = "buffer" /\ sends[c].stage = "trying" /\ sends[c].left # {}
  /\ LET p == CHOOSE q \in sends[c].left : \A r \in sends[c].left : q <= r
     IN  /\ sends' = [sends EXCEPT ![c].left = @ \ {p}]
         /\ \/ posted' = posted \cup {<<c, p>>} /\ UNCHANGED <<named, clobbered>>
            \/ posted' \in {posted, posted \cup {<<c, p>>}} /\ SaveNamed(c, p)
  /\ UNCHANGED <<adapter, retries, failed, circuitOpen, saved, second>>

\* AdapterResult has no field "details": its constructor raises TypeError.
BufferEnds(c) ==
  /\ adapter = "buffer" /\ sends[c].stage = "trying" /\ sends[c].left = {}
  /\ CallAt(c, "raised")
  /\ UNCHANGED <<adapter, retries, failed, circuitOpen, posted, saved, named, clobbered, second>>

SendStep(c) ==
  \/ Sent(c) \/ Transient(c) \/ PauseEnds(c) \/ Permanent(c) \/ Raises(c)
  \/ FileSend(c) \/ GitHubSend(c) \/ BufferPost(c) \/ BufferEnds(c)

AdaptersNext == SecondPasses \/ \E c \in Sending : Send(c) \/ SendStep(c)

\* Posts are answered and pauses end.
AdaptersFairness == \A c \in Sending : WF_adapterVars(SendStep(c))

-----------------------------------------------------------------------------
\* Properties

\* Calls and files keep their types; failure_count reaches the threshold with the circuit.
AdaptersTypeOK ==
  /\ \A c \in Sending :
       /\ sends[c].stage \in {"idle", "trying", "pausing", "success", "refused", "raised"}
       /\ sends[c].attempt \in 0..(retries - 1)
  /\ \A f \in named : f.call \in Sending /\ f.at \in 0..second
  /\ failed >= Threshold => circuitOpen

\* "Circuit breaker + fallback": what was reported as sent is with the other side or in a
\* file, whatever attempts fail and however the sends of one adapter are interleaved;
\* only an artifact of the same second may have taken the file's place.
SentOrSaved ==
  \A c \in Sending : sends[c].stage = "success" =>
    \A p \in Parts : \/ <<c, p>> \in posted \cup saved \cup clobbered
                     \/ \E f \in named : f.call = c /\ f.part = p

\* A send ends: it does not try for ever.
SendEnds ==
  \A c \in Sending :
    (sends[c].stage = "trying") ~> (sends[c].stage \in {"success", "refused", "raised"})
=============================================================================
