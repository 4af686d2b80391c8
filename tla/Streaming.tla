------------------------------ MODULE Streaming ------------------------------
(***************************************************************************)
(* Streaming (client.LLMClient.stream over OpenAICompatibleAdapter.stream  *)
(* and _parse_stream): a generator walks the plan of the planner at hand,  *)
(* and hands its caller the chunks of the first candidate that answers.    *)
(* It asks no breaker and reports to no health tracker, so streams share   *)
(* nothing and one of them is the whole system: the generator, a provider  *)
(* that may fail at any line, and a caller that may walk away.             *)
(*                                                                         *)
(*   idle --> select --> flowing --> returned   (end, or connection cut)   *)
(*              |  ^--------|  \---> raised     (failed after a chunk)     *)
(*              |--> raised  (plan exhausted)                              *)
(***************************************************************************)
EXTENDS Integers, Sequences

CONSTANTS
    StreamProviders,   \* provider names
    StreamPlans,       \* plans: sequences of providers; <<>> when the planner finds no candidate
    StreamAdapters,    \* the providers that have an adapter
    MaxLines           \* bound: lines with content that one provider sends

ASSUME StreamingAssumption ==
    /\ StreamPlans \subseteq Seq(StreamProviders)
    /\ MaxLines \in Nat

VARIABLES
    at,           \* where the generator is
    plan,         \* the plan it walks
    pos,          \* the candidate at hand
    yielded,      \* whether the candidate at hand has yielded a chunk
    sent,         \* lines with content the candidate at hand has sent
    delivered,    \* history: the chunks the caller got, each its candidate and line
    failed,       \* history: the candidates that raised
    cut           \* history: the connection broke while the body was read

streamVars == <<at, plan, pos, yielded, sent, delivered, failed, cut>>

StreamInit ==
    /\ at = "idle" /\ plan = <<>> /\ pos = 1
    /\ yielded = FALSE /\ sent = 0
    /\ delivered = <<>> /\ failed = {} /\ cut = FALSE

StreamEnded == at \in {"returned", "raised", "closed"}
-----------------------------------------------------------------------------
\* The first next() plans; without a candidate it raises PlanningError.
StartStream(p) ==
    /\ at = "idle"
    /\ plan' = p
    /\ at' = IF p = <<>> THEN "raised" ELSE "select"
    /\ UNCHANGED <<pos, yielded, sent, delivered, failed, cut>>

\* Mutant of PassAdapterless: the candidate is not left.
PassStaying ==
    /\ at = "select" /\ pos <= Len(plan) /\ plan[pos] \notin StreamAdapters
    /\ UNCHANGED streamVars

PassAdapterless ==
    /\ at = "select" /\ pos <= Len(plan) /\ plan[pos] \notin StreamAdapters
    /\ pos' = pos + 1
    /\ UNCHANGED <<at, plan, yielded, sent, delivered, failed, cut>>

\* The provider answers with a status below 400.
Connect ==
    /\ at = "select" /\ pos <= Len(plan) /\ plan[pos] \in StreamAdapters
    /\ at' = "flowing"
    /\ yielded' = FALSE /\ sent' = 0
    /\ UNCHANGED <<plan, pos, delivered, failed, cut>>

\* Mutants of Abandon: fall back whatever was yielded; raise whatever was yielded;
\* pass over the next candidate as well.
AbandonFallingBack(committed) == at' = "select" /\ pos' = pos + 1
AbandonRaising(committed) == at' = "raised" /\ pos' = pos
AbandonSkipping(committed) ==
    IF committed THEN at' = "raised" /\ pos' = pos
                 ELSE at' = "select" /\ pos' = pos + 2

\* The handler of an exception: a committed stream re-raises it, another one
\* goes on with the next candidate.
Abandon(committed) ==
    IF committed THEN at' = "raised" /\ pos' = pos
                 ELSE at' = "select" /\ pos' = pos + 1

\* No connection, a timeout, or a status of 400 and more.
ConnectFails ==
    /\ at = "select" /\ pos <= Len(plan) /\ plan[pos] \in StreamAdapters
    /\ yielded' = FALSE /\ sent' = 0
    /\ failed' = failed \cup {pos}
    /\ Abandon(FALSE)
    /\ UNCHANGED <<plan, delivered, cut>>

\* A line with content reaches the caller.
Chunk ==
    /\ at = "flowing" /\ sent < MaxLines
    /\ sent' = sent + 1
    /\ delivered' = Append(delivered, [of |-> pos, line |-> sent'])
    /\ yielded' = TRUE
    /\ UNCHANGED <<at, plan, pos, failed, cut>>

\* A data line that is not JSON is passed over.
Undecodable ==
    /\ at = "flowing" /\ sent < MaxLines
    /\ sent' = sent + 1
    /\ UNCHANGED <<at, plan, pos, yielded, delivered, failed, cut>>

\* A line that is JSON of another shape raises, as AttributeError or TypeError.
Malformed ==
    /\ at = "flowing"
    /\ failed' = failed \cup {pos}
    /\ Abandon(yielded)
    /\ UNCHANGED <<plan, yielded, sent, delivered, cut>>

\* "[DONE]", or the end of the body.
Finish ==
    /\ at = "flowing"
    /\ at' = "returned"
    /\ UNCHANGED <<plan, pos, yielded, sent, delivered, failed, cut>>

\* The connection breaks or times out while the body is read: _parse_stream
\* swallows the error and the generator returns as after "[DONE]".
Cut ==
    /\ at = "flowing"
    /\ at' = "returned"
    /\ cut' = TRUE
    /\ UNCHANGED <<plan, pos, yielded, sent, delivered, failed>>

\* Nothing is left to try: KernelError.
ExhaustStream ==
    /\ at = "select" /\ pos > Len(plan)
    /\ at' = "raised"
    /\ UNCHANGED <<plan, pos, yielded, sent, delivered, failed, cut>>

\* The caller closes the generator between two chunks.
Close ==
    /\ at = "flowing" /\ yielded
    /\ at' = "closed"
    /\ UNCHANGED <<plan, pos, yielded, sent, delivered, failed, cut>>

AdvanceStream ==
    \/ PassAdapterless \/ Connect \/ ConnectFails
    \/ Chunk \/ Undecodable \/ Malformed \/ Finish \/ Cut
    \/ ExhaustStream

StreamNext ==
    \/ \E p \in StreamPlans : StartStream(p)
    \/ AdvanceStream
    \/ Close

StreamSpec == StreamInit /\ [][StreamNext]_streamVars

\* The caller goes on asking and every wait on the connection is bounded by the
\* HTTP timeout; the body ends.
FairStreamSpec == StreamSpec /\ WF_streamVars(AdvanceStream)
-----------------------------------------------------------------------------
StreamTypeOK ==
    /\ at \in {"idle", "select", "flowing", "returned", "raised", "closed"}
    /\ plan \in StreamPlans \cup {<<>>}
    /\ pos \in 1 .. Len(plan) + 1
    /\ at = "flowing" => pos <= Len(plan)
    /\ yielded \in BOOLEAN /\ cut \in BOOLEAN
    /\ sent \in 0 .. MaxLines
    /\ failed \subseteq DOMAIN plan

\* What the caller got comes from one candidate, in the order it was sent, each
\* line at most once.
OneVoice ==
    \A i, j \in DOMAIN delivered : i < j =>
        /\ delivered[i].of = delivered[j].of
        /\ delivered[i].line < delivered[j].line

\* A candidate is passed over only when it has no adapter, or raised with nothing
\* delivered; and the stream gives up only after its last one, or on a candidate
\* that raised when the caller already had some of it.
NothingGivenUpEarly ==
    /\ \A i \in 1 .. pos - 1 :
        /\ plan[i] \notin StreamAdapters \/ i \in failed
        /\ \A k \in DOMAIN delivered : delivered[k].of # i
    /\ at = "raised" => pos > Len(plan) \/ (pos \in failed /\ delivered # <<>>)

\* A stream whose caller stays ends.
EveryStreamEnds == at = "select" ~> StreamEnded

\* client.stream: "If a provider fails before yielding any chunks, falls back to
\* the next candidate": a stream that returns with nothing was not cut.
EmptyMeansEmpty == at = "returned" /\ delivered = <<>> => ~ cut
=============================================================================
