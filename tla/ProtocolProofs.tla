---------------------------- MODULE ProtocolProofs ----------------------------
(***************************************************************************)
(* The abstract protocol keeps its log well formed.  Every step extends    *)
(* the log at its end by messages that may follow its last one, so the     *)
(* pairs already in the log are untouched and each new pair is a Step.     *)
(***************************************************************************)
EXTENDS HarnessProtocol, SequenceTheorems, TLAPS

\* Appending a message that may follow the last one keeps a well-formed
\* sequence well formed.
LEMMA AppendFollows ==
    ASSUME NEW s \in Seq(Events), NEW e \in Events,
           s # <<>>, Follows(s), <<s[Len(s)], e>> \in Steps
    PROVE  Follows(Append(s, e))
<1> DEFINE t == Append(s, e)
<1>1. Len(t) = Len(s) + 1 /\ t[Len(s) + 1] = e
      /\ \A i \in 1..Len(s) : t[i] = s[i]
    BY AppendProperties
<1>2. Len(s) >= 1
    BY EmptySeq, LenProperties
<1>3. t[1] = "Initialize"
    BY <1>1, <1>2 DEF Follows
<1>4. ASSUME NEW i \in 2..Len(t) PROVE <<t[i - 1], t[i]>> \in Steps
    <2>1. CASE i <= Len(s)
        <3>1. i \in 2..Len(s) /\ i - 1 \in 1..Len(s)
            BY <2>1
        <3>2. t[i - 1] = s[i - 1] /\ t[i] = s[i]
            BY <1>1, <3>1
        <3>3. <<s[i - 1], s[i]>> \in Steps
            BY <3>1 DEF Follows
        <3>4. QED
            BY <3>2, <3>3
    <2>2. CASE i = Len(s) + 1
        <3>1. t[i - 1] = s[Len(s)] /\ t[i] = e
            BY <1>1, <1>2, <2>2
        <3>2. QED
            BY <3>1
    <2>3. i <= Len(s) \/ i = Len(s) + 1
        BY <1>1
    <2>4. QED
        BY <2>1, <2>2, <2>3
<1>5. QED
    BY <1>3, <1>4 DEF Follows

\* Every message of a log is one of the Events.
LEMMA TypeStepLemma == TypeOK /\ [Next]_log => TypeOK'
<1> SUFFICES ASSUME TypeOK, [Next]_log PROVE TypeOK'
    OBVIOUS
<1>1. CASE Handshake
    BY <1>1 DEF Handshake, TypeOK, Events
<1>2. CASE Announce \/ Accept \/ Report
    BY <1>2, AppendProperties DEF Announce, Accept, Report, TypeOK, Events
<1>3. ASSUME NEW t \in Verdicts, Conclude(t) PROVE TypeOK'
    BY <1>3, AppendProperties DEF Conclude, TypeOK, Events, Verdicts
<1>6. ASSUME NEW t \in Verdicts, ConcludeAndAnnounce(t) PROVE TypeOK'
    <2>1. <<t, "Ready">> \in Seq(Events)
        BY DEF Events, Verdicts
    <2>2. QED
        BY <1>6, <2>1, ConcatProperties DEF ConcludeAndAnnounce, TypeOK
<1>4. CASE UNCHANGED log
    BY <1>4 DEF TypeOK
<1>5. QED
    BY <1>1, <1>2, <1>3, <1>4, <1>6 DEF Next

LEMMA WellFormedStep == TypeOK /\ WellFormed /\ [Next]_log => WellFormed'
<1> SUFFICES ASSUME TypeOK, WellFormed, [Next]_log PROVE WellFormed'
    OBVIOUS
<1> USE DEF TypeOK, WellFormed
<1>1. CASE Handshake
    BY <1>1 DEF Handshake, Follows, Steps
<1>2. CASE Announce
    BY <1>2, AppendFollows DEF Announce, LastOf, Steps, Events
<1>3. CASE Accept
    BY <1>3, AppendFollows DEF Accept, LastOf, Steps, Events
<1>4. CASE Report
    BY <1>4, AppendFollows DEF Report, LastOf, Steps, Events
<1>5. ASSUME NEW t \in Verdicts, Conclude(t) PROVE WellFormed'
    BY <1>5, AppendFollows DEF Conclude, LastOf, Steps, Events, Verdicts
<1>6. ASSUME NEW t \in Verdicts, ConcludeAndAnnounce(t) PROVE WellFormed'
    <2>1. log \o <<t, "Ready">> = Append(Append(log, t), "Ready")
        BY AppendIsConcat, ConcatAssociative, ConcatProperties DEF Events, Verdicts
    <2>2. Follows(Append(log, t))
        BY <1>6, AppendFollows DEF ConcludeAndAnnounce, LastOf, Steps, Events, Verdicts
    <2>3. Append(log, t) \in Seq(Events) /\ Append(log, t) # <<>>
          /\ Append(log, t)[Len(Append(log, t))] = t
        BY AppendProperties, EmptySeq DEF Events, Verdicts
    <2>4. Follows(Append(Append(log, t), "Ready"))
        BY <2>2, <2>3, AppendFollows DEF Steps, Events, Verdicts
    <2>5. QED
        BY <1>6, <2>1, <2>4 DEF ConcludeAndAnnounce
<1>7. CASE UNCHANGED log
    BY <1>7
<1>8. QED
    BY <1>1, <1>2, <1>3, <1>4, <1>5, <1>6, <1>7 DEF Next

\* The abstract protocol never produces a log that breaks the order of
\* Initialize, SharedMem, Ready, Run, Stopped, Reset or Stop, Ready, ...
LEMMA WellFormedHolds == Spec => []WellFormed
<1>1. Init => TypeOK /\ WellFormed
    BY DEF Init, TypeOK, WellFormed, Follows
<1>2. TypeOK /\ WellFormed /\ [Next]_log => (TypeOK /\ WellFormed)'
    BY TypeStepLemma, WellFormedStep
<1>3. QED
    BY <1>1, <1>2, PTL DEF Spec

=============================================================================
