---------------------------- MODULE VoiceActivity ----------------------------
(***************************************************************************)
(* The voice activity detector: it cuts the microphone's frames into       *)
(* utterances.  A frame is loud (its level reaches the threshold) or not;  *)
(* levels, the adaptive floor and the filter behind that verdict are left  *)
(* out, so any sequence of verdicts may come.  Attack, release, hangover,  *)
(* pre-roll, shortest and longest utterance are counts of frames.          *)
(*                                                                         *)
(* The detector is a generator: after an utterance it stands still until   *)
(* the listener has transcribed and answered it and asks for the next one. *)
(* The microphone goes on, and frames that nobody reads are lost.          *)
(***************************************************************************)
EXTENDS Naturals, Sequences, FiniteSets

CONSTANTS Setups,        \* configurations to run the detector with
          MaxFrame       \* bound on the frames that the microphone makes

ASSUME SetupsAssumption ==
    Setups \subseteq [pre : Nat, attack : Nat \ {0}, release : Nat \ {0},
                      hangover : Nat, max : Nat, min : Nat]
ASSUME MaxFrameAssumption == MaxFrame \in Nat

VARIABLES setup,
          phase,           \* reading, yielded (an utterance is out), or ended
          frame,           \* the last frame that the microphone made
          prebuf,          \* the last frames read, oldest first
          in_speech,
          above_cnt, below_cnt, hangover,
          cur,             \* frames of the utterance so far
          recording,       \* what on_recording last said
          stop_requested,
          read,            \* every frame read, with its verdict
          utterances       \* every utterance that ended

machine == <<prebuf, in_speech, above_cnt, below_cnt, hangover, cur>>
vars == <<setup, phase, frame, machine, recording, stop_requested, read, utterances>>

Init ==
    /\ setup \in Setups
    /\ phase = "reading"
    /\ frame = 0
    /\ prebuf = <<>>
    /\ in_speech = FALSE
    /\ above_cnt = 0 /\ below_cnt = 0 /\ hangover = 0
    /\ cur = <<>>
    /\ recording = FALSE
    /\ stop_requested = FALSE
    /\ read = <<>>
    /\ utterances = <<>>

Newest(seq, count) ==
    SubSeq(seq, IF Len(seq) > count THEN Len(seq) - count + 1 ELSE 1, Len(seq))

\* Mutation: the ring of past frames is one short.
PreRollOneShort(f) == Newest(Append(prebuf, f), IF setup.pre > 0 THEN setup.pre - 1 ELSE 0)

PreRoll(f) == Newest(Append(prebuf, f), setup.pre)

-----------------------------------------------------------------------------
(* One frame *)

_read_frame(is_above) ==
    /\ phase = "reading" /\ ~stop_requested
    /\ frame < MaxFrame
    /\ frame' = frame + 1
    /\ prebuf' = PreRoll(frame + 1)
    /\ read' = Append(read, [id |-> frame + 1, above |-> is_above, idle |-> ~in_speech])
    /\ UNCHANGED <<setup, stop_requested>>

Wait(is_above) ==
    /\ _read_frame(is_above)
    /\ ~in_speech
    /\ above_cnt' = IF is_above THEN above_cnt + 1 ELSE 0
    /\ above_cnt' < setup.attack
    /\ UNCHANGED <<phase, in_speech, below_cnt, hangover, cur, recording, utterances>>

\* The frame that starts an utterance is the last of the pre-roll, and is
\* appended once more.
Start(is_above) ==
    /\ _read_frame(is_above)
    /\ ~in_speech /\ is_above
    /\ above_cnt' = above_cnt + 1
    /\ above_cnt' >= setup.attack
    /\ in_speech' = TRUE
    /\ recording' = TRUE
    /\ hangover' = 0 /\ below_cnt' = 0
    /\ cur' = Append(prebuf', frame')
    /\ UNCHANGED <<phase, utterances>>

HangoverLeft(is_above) ==
    IF is_above THEN setup.hangover ELSE IF hangover > 0 THEN hangover - 1 ELSE 0

\* Mutation: a frame of the hangover counts as a quiet one.
QuietAtOnce(is_above) == IF is_above THEN 0 ELSE below_cnt + 1

\* Quiet frames are counted once the hangover is used up.
QuietFrames(is_above) == IF is_above \/ hangover > 0 THEN 0 ELSE below_cnt + 1

StopReason(frames, quiet) == quiet >= setup.release \/ Len(frames) >= setup.max

Speak(is_above) ==
    /\ _read_frame(is_above)
    /\ in_speech
    /\ cur' = Append(cur, frame')
    /\ hangover' = HangoverLeft(is_above)
    /\ below_cnt' = QuietFrames(is_above)
    /\ ~StopReason(cur', below_cnt')
    /\ UNCHANGED <<phase, in_speech, above_cnt, recording, utterances>>

Reset ==
    /\ in_speech' = FALSE
    /\ above_cnt' = 0 /\ below_cnt' = 0 /\ hangover' = 0
    /\ cur' = <<>>

\* An utterance that is long enough is handed out; another is dropped.
Finish(is_above) ==
    LET frames == Append(cur, frame + 1)
    IN /\ _read_frame(is_above)
       /\ in_speech
       /\ StopReason(frames, QuietFrames(is_above))
       /\ recording' = FALSE
       /\ utterances' = Append(utterances, [frames |-> frames, kept |-> Len(frames) >= setup.min])
       /\ IF Len(frames) >= setup.min
            THEN /\ phase' = "yielded"
                 /\ UNCHANGED <<in_speech, above_cnt, below_cnt, hangover, cur>>
            ELSE Reset /\ UNCHANGED phase

-----------------------------------------------------------------------------
(* The listener, and whoever stops it *)

\* The listener asks for the next utterance.
Resume ==
    /\ phase = "yielded"
    /\ Reset
    /\ phase' = IF stop_requested THEN "ended" ELSE "reading"
    /\ UNCHANGED <<setup, frame, prebuf, recording, stop_requested, read, utterances>>

\* While it does not, the microphone drops the frames that do not fit its buffer.
Overflow ==
    /\ phase = "yielded"
    /\ frame < MaxFrame
    /\ frame' = frame + 1
    /\ UNCHANGED <<setup, phase, machine, recording, stop_requested, read, utterances>>

request_stop ==
    /\ ~stop_requested
    /\ stop_requested' = TRUE
    /\ UNCHANGED <<setup, phase, frame, machine, recording, read, utterances>>

\* What was recorded of an utterance is thrown away, and a frame that arrives
\* with the stop is not looked at.
End ==
    /\ phase = "reading" /\ stop_requested
    /\ phase' = "ended"
    /\ recording' = FALSE
    /\ UNCHANGED <<setup, frame, machine, stop_requested, read, utterances>>

\* A generator that raised is finished: the listener's next call ends its run.
MicrophoneFails ==
    /\ phase = "reading" /\ ~stop_requested
    /\ phase' = "ended"
    /\ recording' = FALSE
    /\ UNCHANGED <<setup, frame, machine, stop_requested, read, utterances>>

Next ==
    \/ \E is_above \in BOOLEAN :
          Wait(is_above) \/ Start(is_above) \/ Speak(is_above) \/ Finish(is_above)
    \/ Resume \/ Overflow \/ request_stop \/ End \/ MicrophoneFails

Spec == Init /\ [][Next]_vars

-----------------------------------------------------------------------------
Frames(seq) == {seq[i] : i \in 1 .. Len(seq)}
Ended == UNION {Frames(utterances[u].frames) : u \in 1 .. Len(utterances)}
Recorded == Frames(cur) \cup Ended

\* The frames from i to j were read while no utterance was going on, and every
\* one of them was loud.
LoudWhileIdle(i, j) == \A l \in i .. j : read[l].idle /\ read[l].above

\* The attack is over: as many frames as it takes were loud.
StartsAt(s) == s >= setup.attack /\ LoudWhileIdle(s - setup.attack + 1, s)

\* Of speech that is long enough to start an utterance every frame is cut into
\* an utterance, except what is longer than the pre-roll: whatever came before,
\* an utterance that was cut at its greatest length included.  The utterance
\* may then be dropped as too short (not with the default settings) or
\* discarded by a stop.
SpeechKept ==
    \A j \in 1 .. Len(read) :
        StartsAt(j) =>
            \A i \in j - setup.attack + 1 .. j :
                j - i < setup.pre \/ i = j => read[i].id \in Recorded

\* An utterance, written down from the frames that were read: it begins with
\* the pre-roll of the frame that started it and that frame once more; it ends
\* at the first frame by which it is too long or it has been quiet for the
\* release (and, if speech went on after its start, for the hangover before that).
PreRollLength(s) == IF s < setup.pre THEN s ELSE setup.pre

LengthAt(s, e) == PreRollLength(s) + 1 + (e - s)

FrameAt(s, k) ==
    IF k <= PreRollLength(s) THEN s - PreRollLength(s) + k ELSE s + k - PreRollLength(s) - 1

SilentAfter(a, e) == \A i \in a + 1 .. e : ~read[i].above

QuietAt(s, e) ==
    \/ SilentAfter(s, e) /\ e - s >= setup.release
    \/ \E a \in s + 1 .. e : /\ read[a].above /\ SilentAfter(a, e)
                            /\ e - a >= setup.release + setup.hangover

EndsAt(s, e) == QuietAt(s, e) \/ LengthAt(s, e) >= setup.max

\* The frames from start to end, all of them read while it went on.
FramesFrom(frames, s, e) ==
    /\ \A i \in s + 1 .. e : ~read[i].idle
    /\ Len(frames) = LengthAt(s, e)
    /\ \A k \in 1 .. Len(frames) : frames[k] = read[FrameAt(s, k)].id

IsUtterance(u, s, e) ==
    /\ StartsAt(s) /\ FramesFrom(u.frames, s, e)
    /\ EndsAt(s, e) /\ \A i \in s + 1 .. e - 1 : ~EndsAt(s, i)
    /\ u.kept <=> LengthAt(s, e) >= setup.min

\* The frame that starts utterance u is newer than any of an earlier utterance.
BeginsAfter(u, s) ==
    \A v \in 1 .. u - 1 : \A f \in Frames(utterances[v].frames) : f < read[s].id

\* Every utterance is exactly that: it has no frame missing, foreign or out of
\* order, ends neither early nor late, and is handed out unless it is too short.
\* None is cut twice: it shares at most its pre-roll with those before it.
UtteranceExact ==
    \A u \in 1 .. Len(utterances) :
        \E s \in 1 .. Len(read) : \E e \in s + 1 .. Len(read) :
            IsUtterance(utterances[u], s, e) /\ BeginsAfter(u, s)

-----------------------------------------------------------------------------
(* Why they hold *)

Frame == [id : Nat, above : BOOLEAN, idle : BOOLEAN]
Utterance == [frames : Seq(Nat), kept : BOOLEAN]

TypeOK ==
    /\ setup \in Setups
    /\ phase \in {"reading", "yielded", "ended"}
    /\ frame \in Nat
    /\ prebuf \in Seq(Nat) /\ cur \in Seq(Nat)
    /\ above_cnt \in Nat /\ below_cnt \in Nat /\ hangover \in Nat
    /\ in_speech \in BOOLEAN /\ recording \in BOOLEAN /\ stop_requested \in BOOLEAN
    /\ read \in Seq(Frame)
    /\ utterances \in Seq(Utterance)

\* The ring of past frames holds the newest of those that were read.
PreRollExact ==
    /\ Len(prebuf) = PreRollLength(Len(read))
    /\ \A k \in 1 .. Len(prebuf) : prebuf[k] = read[Len(read) - Len(prebuf) + k].id

\* Between utterances above_cnt counts the loud frames since the last one that
\* was not, or since the last utterance.
IdleExact ==
    LET first == Len(read) - above_cnt
    IN phase = "reading" /\ ~in_speech =>
          /\ above_cnt < setup.attack /\ above_cnt <= Len(read)
          /\ LoudWhileIdle(first + 1, Len(read))
          /\ first > 0 => ~(read[first].idle /\ read[first].above)
          /\ cur = <<>>

\* The silence at frame e, as hangover and below_cnt count it: since the last loud
\* frame, the hangover first.
Silence(s, e, left, quiet) ==
    \/ SilentAfter(s, e) /\ left = 0 /\ quiet = e - s
    \/ \E a \in s + 1 .. e :
          /\ read[a].above /\ SilentAfter(a, e)
          /\ IF e - a <= setup.hangover
               THEN left = setup.hangover - (e - a) /\ quiet = 0
               ELSE left = 0 /\ quiet = e - a - setup.hangover

\* An utterance goes on that a frame started and none has ended.
SpeechExact ==
    phase = "reading" /\ in_speech =>
        \E s \in 1 .. Len(read) :
            /\ StartsAt(s) /\ FramesFrom(cur, s, Len(read))
            /\ \A f \in Ended : f < read[s].id
            /\ \A i \in s + 1 .. Len(read) : ~EndsAt(s, i)
            /\ Silence(s, Len(read), hangover, below_cnt)

\* What is handed out has been written down, and the frame that ended it was its own.
YieldedExact ==
    phase = "yielded" =>
        /\ Len(read) > 0 /\ ~read[Len(read)].idle
        /\ Frames(cur) \subseteq Ended

\* No frame is known that the microphone has not made.
NotAhead ==
    /\ \A i \in 1 .. Len(read) : read[i].id \in 0 .. frame
    /\ Recorded \subseteq 0 .. frame

VoiceInv ==
    /\ TypeOK /\ NotAhead /\ PreRollExact /\ IdleExact /\ SpeechExact /\ YieldedExact
    /\ SpeechKept /\ UtteranceExact
=============================================================================
