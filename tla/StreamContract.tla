--------------------------- MODULE StreamContract ---------------------------
(***************************************************************************)
(* What decode::stream::Stream promises its caller, whatever its buffers   *)
(* do: the caller offers chunks, each call to write accepts a prefix of    *)
(* the chunk or fails, and finish answers what the one-shot decoder would  *)
(* answer for the bytes accepted so far, however they were cut into        *)
(* chunks.  The module keeps no decoder state at all.                      *)
(***************************************************************************)
EXTENDS LzmaInput

CONSTANTS
    AllowIncomplete,  \* Options.allow_incomplete
    SinkMayFail       \* the output sink may return an error

VARIABLES
    file,      \* the input the caller has, fixed at the start
    accepted,  \* how many of its bytes write has accepted
    offered,   \* the length of the chunk of the call to write under way
    phase,     \* what the caller is waiting for
    dead,      \* a write has failed
    result     \* what the last call answered

vars == <<file, accepted, offered, phase, dead, result>>

None      == [call |-> "none"]
Wrote(k)  == [call |-> "write", ok |-> TRUE, n |-> k]
WriteErr  == [call |-> "write", ok |-> FALSE]
Done(n)   == [call |-> "finish", ok |-> TRUE, out |-> n]
FinishErr == [call |-> "finish", ok |-> FALSE]

\* The output a successful finish stands for.  An empty stream is accepted
\* and yields nothing, although lzma_decompress rejects an empty input.
\* Without end-of-stream checks any prefix of the decoded data will do.
Delivers(f, n, out) ==
    \/ n = 0 /\ out = 0
    \/ ~AllowIncomplete /\ \E i \in 0..f.count :
                              AcceptsWith(f, n, i) /\ out = f.outs[i]
    \/ AllowIncomplete /\ f.props /\ n >= Prefix
         /\ \E i \in 0..f.count : f.ends[i] <= n - Prefix /\ out = f.outs[i]

Init ==
    /\ WellFormed(file)
    /\ accepted = 0 /\ offered = 0
    /\ phase = "ready" /\ dead = FALSE /\ result = None

BeginWrite ==
    /\ phase = "ready"
    /\ offered' \in 0..(file.len - accepted)
    /\ phase' = "writing"
    /\ UNCHANGED <<file, accepted, dead, result>>

\* A write that succeeds accepts a prefix of the chunk.  It accepts nothing
\* of a nonempty chunk only if no byte will ever be needed again: otherwise
\* write_all would give up (ErrorKind::WriteZero) on a good stream.
EndWrite ==
    /\ phase = "writing"
    /\ \E k \in 0..offered :
          /\ k = 0 => offered = 0 \/ dead \/ Satisfied(file, accepted)
          /\ dead => k = 0
          /\ accepted' = accepted + k
          /\ result' = Wrote(k)
    /\ phase' = "ready" /\ offered' = 0
    /\ UNCHANGED <<file, dead>>

\* A write fails only if nothing the caller may still send can help.
FailWrite ==
    /\ phase = "writing" /\ ~dead
    /\ SinkMayFail \/ Hopeless(file, accepted + offered)
    /\ dead' = TRUE /\ phase' = "ready" /\ offered' = 0
    /\ result' = WriteErr
    /\ UNCHANGED <<file, accepted>>

BeginFinish ==
    /\ phase = "ready"
    /\ phase' = "finishing"
    /\ UNCHANGED <<file, accepted, offered, dead, result>>

EndFinish ==
    /\ phase = "finishing"
    /\ \/ \E out \in {file.outs[i] : i \in 0..file.count} :
             ~dead /\ Delivers(file, accepted, out) /\ result' = Done(out)
       \/ /\ dead \/ SinkMayFail
             \/ ~\E out \in {file.outs[i] : i \in 0..file.count} :
                   Delivers(file, accepted, out)
          /\ result' = FinishErr
    /\ phase' = "closed"
    /\ UNCHANGED <<file, accepted, offered, dead>>

Next == BeginWrite \/ EndWrite \/ FailWrite \/ BeginFinish \/ EndFinish

\* Every call returns.
Fairness == WF_vars(EndWrite \/ FailWrite) /\ WF_vars(EndFinish)

Spec == Init /\ [][Next]_vars /\ Fairness

=============================================================================
