--------------------------- MODULE HarnessProtocol ---------------------------
(***************************************************************************)
(* What the harness coordinator promises its fuzzer, as the sequence of    *)
(* messages it sends and receives (spec sections 4.6 and 5): a handshake   *)
(* (Initialize, SharedMem), then iterations of Ready, Run, Stopped and     *)
(* Reset or Stop.  The coordinator may stop at any point (an abort ends    *)
(* the log).  After Stop the code announces Ready as after Reset; the      *)
(* protocol here is the one the code keeps, and the clean_shutdown run     *)
(* shows where that departs from spec S5.                                  *)
(***************************************************************************)
EXTENDS Naturals, Sequences

VARIABLE log    \* the messages the harness has sent or received, in order

Events == {"Initialize", "SharedMem", "Ready", "Run", "Stopped", "Reset", "Stop"}

\* The message that ends the iteration: Reset for another input, or Stop.
Verdicts == {"Reset", "Stop"}

LastOf(s) == s[Len(s)]

TypeOK == log \in Seq(Events)

Init == log = <<>>

\* Initialize received, SharedMem sent in reply.
Handshake ==
    /\ log = <<>>
    /\ log' = <<"Initialize", "SharedMem">>

\* The first Ready, once the guest reached its start.
Announce ==
    /\ log # <<>>
    /\ LastOf(log) = "SharedMem"
    /\ log' = Append(log, "Ready")

\* A Run accepted in answer to Ready.
Accept ==
    /\ log # <<>>
    /\ LastOf(log) = "Ready"
    /\ log' = Append(log, "Run")

\* Stopped reported for the run in progress.
Report ==
    /\ log # <<>>
    /\ LastOf(log) = "Run"
    /\ log' = Append(log, "Stopped")

\* The fuzzer's Reset or Stop received, and the harness ends there.
Conclude(t) ==
    /\ log # <<>>
    /\ LastOf(log) = "Stopped"
    /\ log' = Append(log, t)

\* The fuzzer's Reset or Stop received and the next Ready sent.
ConcludeAndAnnounce(t) ==
    /\ log # <<>>
    /\ LastOf(log) = "Stopped"
    /\ log' = log \o <<t, "Ready">>

Next ==
    \/ Handshake \/ Announce \/ Accept \/ Report
    \/ \E t \in Verdicts : Conclude(t) \/ ConcludeAndAnnounce(t)

Spec == Init /\ [][Next]_log

(***************************************************************************)
(* Properties.                                                             *)
(***************************************************************************)

\* Which message may follow which (spec §4.6, §8 invariants 1 and 2).
Steps ==
    {<<"Initialize", "SharedMem">>, <<"SharedMem", "Ready">>,
     <<"Ready", "Run">>, <<"Run", "Stopped">>, <<"Stopped", "Reset">>,
     <<"Stopped", "Stop">>, <<"Reset", "Ready">>, <<"Stop", "Ready">>}

\* A sequence of messages starts with Initialize and every message follows
\* its predecessor by one of the Steps.
Follows(s) ==
    /\ s # <<>> => s[1] = "Initialize"
    /\ \A i \in 2..Len(s) : <<s[i - 1], s[i]>> \in Steps

\* The log is well formed: every Ready is answered by one Run, every
\* Stopped is preceded by a Run and followed by one Reset or Stop before
\* the next Ready.
WellFormed == Follows(log)

=============================================================================
