------------------------------ MODULE LzWindow ------------------------------
(***************************************************************************)
(* What the trait LzBuffer promises the symbol decoder: the bytes appended *)
(* so far, from which matches copy at a distance counted from the end, and *)
(* a sink that receives exactly these bytes, in order.  There is no buffer *)
(* here: how the bytes are stored is what the implementations decide.      *)
(***************************************************************************)
EXTENDS Integers, Sequences

CONSTANTS
    Byte,         \* the values of a byte
    Reach,        \* the largest distance the window serves
    MaxLen,       \* the longest match
    LimitMatches, \* the limit is looked at for matches too
    SinkMayFail   \* the output sink may return an error

VARIABLES
    memlimit,  \* bytes the window may hold
    produced,  \* the bytes of the appends that succeeded
    base,      \* those before the last reset: no match reaches them
    sink,      \* what the output sink has received
    asked,     \* the match that was asked for and is not answered yet
    status     \* "open", then the error an operation met, or "closed"

vars == <<memlimit, produced, base, sink, asked, status>>

NoMatch == [n |-> 0, dist |-> 0]

IsPrefixOf(s, t) == Len(s) <= Len(t) /\ s = SubSeq(t, 1, Len(s))

\* From position k + 1 on, t repeats what it has dist bytes before: a match,
\* its own first bytes included when it is longer than the distance.
Repeats(t, k, dist) == \A i \in (k + 1)..Len(t) : t[i] = t[i - dist]

\* Bytes a match may copy from.
Available == Len(produced) - base

\* n more bytes are within the limit: a window no larger than the limit
\* stops growing before it gets there.
Fits(n) == Reach <= memlimit \/ Available + n <= memlimit

Init ==
    /\ memlimit \in Nat
    /\ produced = <<>> /\ base = 0 /\ sink = <<>>
    /\ asked = NoMatch /\ status = "open"

Idle == status = "open" /\ asked = NoMatch

\* The sink receives some of the bytes it has not seen.
Drain ==
    /\ status = "open"
    /\ IsPrefixOf(sink, sink') /\ IsPrefixOf(sink', produced)
    /\ UNCHANGED <<memlimit, produced, base, asked, status>>

\* Bytes are appended; the sink may follow, but never overtakes them.
Extends ==
    /\ IsPrefixOf(produced, produced')
    /\ IsPrefixOf(sink, sink') /\ IsPrefixOf(sink', produced')
    /\ UNCHANGED <<memlimit, base, status>>

AppendLiteral ==
    /\ Idle /\ Fits(1)
    /\ \E b \in Byte : produced' = Append(produced, b)
    /\ Extends /\ UNCHANGED asked

Servable(dist) == dist <= Reach /\ dist <= Available

\* A match may be asked for first and answered later, step by step; or it is
\* answered at once.
AskLz(n, dist) ==
    /\ Idle /\ Servable(dist)
    /\ asked' = [n |-> n, dist |-> dist]
    /\ UNCHANGED <<memlimit, produced, base, sink, status>>

Asked(n, dist) == asked \in {NoMatch, [n |-> n, dist |-> dist]}

\* The match appends what it was asked for, and nothing else answers it.
AppendLz(n, dist) ==
    /\ status = "open" /\ Asked(n, dist)
    /\ Servable(dist) /\ (LimitMatches => Fits(n))
    /\ Len(produced') = Len(produced) + n
    /\ Repeats(produced', Len(produced), dist)
    /\ Extends /\ asked' = NoMatch

\* The sink has everything once the window is finished.
Finish ==
    /\ Idle /\ status' = "closed"
    /\ sink' = produced
    /\ UNCHANGED <<memlimit, produced, base, asked>>

\* An operation that fails: the window is dropped, and what has reached the
\* sink is a part of what should have.
Fails(error) ==
    /\ status = "open" /\ status' = error
    /\ IsPrefixOf(sink, sink') /\ asked' = NoMatch
    /\ UNCHANGED <<memlimit, produced, base>>

FailDistance == Idle /\ Fails("distance") /\ UNCHANGED sink

FailLiteral ==
    /\ Idle
    /\ \/ Fails("limit") /\ ~Fits(1) /\ UNCHANGED sink
       \/ Fails("io") /\ SinkMayFail
          /\ \E b \in Byte : IsPrefixOf(sink', Append(produced, b))

FailLz(n, dist) ==
    /\ Asked(n, dist) /\ Servable(dist)
    /\ \/ Fails("limit") /\ LimitMatches /\ ~Fits(n)
       \/ Fails("io") /\ SinkMayFail
    /\ \/ IsPrefixOf(sink', produced)
       \/ /\ IsPrefixOf(produced, sink')
          /\ Len(sink') <= Len(produced) + n
          /\ Repeats(sink', Len(produced), dist)

FailFlush == Idle /\ Fails("io") /\ SinkMayFail /\ IsPrefixOf(sink', produced)

\* What every window does: the operations of the trait.
Next ==
    \/ Drain \/ AppendLiteral \/ Finish
    \/ FailDistance \/ FailLiteral \/ FailFlush
    \/ \E n \in 1..MaxLen, dist \in 1..Reach :
          AskLz(n, dist) \/ AppendLz(n, dist) \/ FailLz(n, dist)

Spec == Init /\ [][Next]_vars

-----------------------------------------------------------------------------
(* What only the window of the LZMA2 decoder does besides. *)

\* Bytes that are copied as they are (uncompressed data).
AppendBytes ==
    /\ Idle /\ produced' \in Seq(Byte)
    /\ Extends /\ UNCHANGED asked

\* The dictionary is forgotten once it is written out.
Reset ==
    /\ Idle
    /\ sink' = produced /\ base' = Len(produced)
    /\ UNCHANGED <<memlimit, produced, asked, status>>

SpecWithRaw == Init /\ [][Next \/ AppendBytes \/ Reset]_vars

=============================================================================
