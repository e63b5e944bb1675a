------------------------ MODULE VoiceActivityProofs ------------------------
(***************************************************************************)
(* Proofs about VoiceActivity: its type invariant, that no frame of speech *)
(* is lost, and that every utterance is what the frames that were read say *)
(* it is.                                                                  *)
(***************************************************************************)
EXTENDS VoiceActivity, SequenceTheorems, TLAPS

USE SetupsAssumption, MaxFrameAssumption

-----------------------------------------------------------------------------
(* Sequences and types *)

\* A configuration's counts.
LEMMA SetupType ==
    ASSUME setup \in Setups
    PROVE  /\ setup.pre \in Nat /\ setup.attack \in Nat \ {0} /\ setup.release \in Nat \ {0}
           /\ setup.hangover \in Nat /\ setup.max \in Nat /\ setup.min \in Nat
OBVIOUS

\* One more element.
LEMMA Appended ==
    ASSUME NEW S, NEW seq \in Seq(S), NEW x \in S, NEW n \in Nat, n = Len(seq)
    PROVE  /\ Append(seq, x) \in Seq(S)
           /\ Len(Append(seq, x)) = n + 1
           /\ \A i \in 1 .. n : Append(seq, x)[i] = seq[i]
           /\ Append(seq, x)[n + 1] = x
OBVIOUS

\* The newest elements of a sequence.
LEMMA LastElements ==
    ASSUME NEW seq \in Seq(Nat), NEW n \in Nat, NEW m \in 0 .. n, n = Len(seq)
    PROVE  /\ SubSeq(seq, n - m + 1, n) \in Seq(Nat)
           /\ Len(SubSeq(seq, n - m + 1, n)) = m
           /\ \A k \in 1 .. m : SubSeq(seq, n - m + 1, n)[k] = seq[n - m + k]
<1>1. PICK f \in Int : f = n - m + 1
  <2>1. n - m + 1 \in Int
    OBVIOUS
  <2> QED
    BY <2>1
<1>2. f >= 1 /\ n - f + 1 = m
  BY <1>1
<1>3. \A i \in f .. n : seq[i] \in Nat
  <2>1. \A i \in 1 .. n : seq[i] \in Nat
    OBVIOUS
  <2> QED
    BY <1>2, <2>1
<1>4. /\ SubSeq(seq, f, n) \in Seq(Nat)
      /\ Len(SubSeq(seq, f, n)) = IF f <= n THEN n - f + 1 ELSE 0
      /\ \A i \in 1 .. n - f + 1 : SubSeq(seq, f, n)[i] = seq[f + i - 1]
  BY <1>3, SubSeqProperties
<1>5. Len(SubSeq(seq, f, n)) = m
  <2>1. CASE f <= n
    BY <1>2, <1>4, <2>1
  <2>2. CASE ~(f <= n)
    BY <1>2, <1>4, <2>2
  <2> QED
    BY <2>1, <2>2
<1>6. ASSUME NEW k \in 1 .. m PROVE SubSeq(seq, f, n)[k] = seq[n - m + k]
  <2>1. f + k - 1 = n - m + k
    BY <1>1
  <2>2. SubSeq(seq, f, n)[k] = seq[f + k - 1]
    BY <1>2, <1>4
  <2> QED
    BY <2>1, <2>2
<1> QED
  BY <1>1, <1>4, <1>5, <1>6

\* A frame that is read.
LEMMA ReadGrows ==
    ASSUME NEW is_above \in BOOLEAN, NEW n \in Nat,
           TypeOK, _read_frame(is_above), n = Len(read)
    PROVE  /\ setup' = setup /\ stop_requested' = stop_requested
           /\ phase = "reading" /\ frame' = frame + 1 /\ frame' \in Nat
           /\ read' \in Seq(Frame) /\ Len(read') = n + 1
           /\ \A i \in 1 .. n : read'[i] = read[i]
           /\ read'[n + 1].id = frame' /\ read'[n + 1].above = is_above
           /\ read'[n + 1].idle = ~in_speech
<1> DEFINE new == [id |-> frame + 1, above |-> is_above, idle |-> ~in_speech]
<1>1. frame' = frame + 1 /\ frame' \in Nat /\ read' = Append(read, new)
  BY DEF _read_frame, TypeOK
<1>2. new \in Frame
  BY <1>1 DEF Frame, TypeOK
<1>3. read \in Seq(Frame) /\ frame' = new.id
  BY <1>1 DEF TypeOK
<1>4. new.id = frame' /\ new.above = is_above /\ new.idle = ~in_speech
  BY <1>1
<1> HIDE DEF new
<1>5. /\ read' \in Seq(Frame) /\ Len(read') = n + 1
      /\ \A i \in 1 .. n : read'[i] = read[i]
      /\ read'[n + 1] = new
  BY <1>1, <1>2, <1>3, Appended
<1> QED
  BY <1>1, <1>4, <1>5 DEF _read_frame

\* The length of the pre-roll.
LEMMA PreRollIs ==
    ASSUME NEW n \in Nat, setup \in Setups
    PROVE  /\ PreRollLength(n) \in Nat
           /\ n < setup.pre => PreRollLength(n) = n
           /\ ~(n < setup.pre) => PreRollLength(n) = setup.pre
BY SetupType DEF PreRollLength

\* The ring after it.
LEMMA RingGrows ==
    ASSUME NEW is_above \in BOOLEAN, TypeOK, PreRollExact, _read_frame(is_above)
    PROVE  prebuf' \in Seq(Nat) /\ PreRollExact'
<1>1. PICK n \in Nat : n = Len(read)
  BY DEF TypeOK
<1>2. PICK p \in Nat : p = setup.pre
  BY SetupType DEF TypeOK
<1>3. PICK l \in Nat : l = PreRollLength(n) /\ (n < p => l = n) /\ (~(n < p) => l = p)
  BY <1>2, PreRollIs DEF TypeOK
<1>4. /\ setup' = setup /\ frame' = frame + 1 /\ frame' \in Nat
      /\ Len(read') = n + 1
      /\ \A i \in 1 .. n : read'[i] = read[i]
      /\ read'[n + 1].id = frame'
  BY <1>1, ReadGrows
<1>5. /\ prebuf \in Seq(Nat) /\ Len(prebuf) = l
      /\ \A k \in 1 .. l : prebuf[k] = read[n - l + k].id
  BY <1>1, <1>3 DEF PreRollExact, TypeOK
<1>6. PICK grown : grown = Append(prebuf, frame')
  OBVIOUS
<1>7. /\ grown \in Seq(Nat) /\ Len(grown) = l + 1
      /\ \A k \in 1 .. l : grown[k] = prebuf[k]
      /\ grown[l + 1] = frame'
  BY <1>4, <1>5, <1>6, Appended
<1>8. prebuf' = Newest(grown, p)
  BY <1>2, <1>4, <1>6 DEF _read_frame, PreRoll
<1>9. PICK g \in Nat : g = l + 1
  OBVIOUS
<1>10. PICK m \in Nat : m = IF g < p THEN g ELSE p
  OBVIOUS
<1>11. Newest(grown, p) = SubSeq(grown, g - m + 1, g)
  <2>1. g = Len(grown)
    BY <1>7, <1>9
  <2>2. CASE g > p
    <3>1. m = p
      BY <1>10, <2>2
    <3> QED
      BY <2>1, <2>2, <3>1 DEF Newest
  <2>3. CASE ~(g > p)
    <3>1. m = g
      BY <1>10, <2>3
    <3>2. g - m + 1 = 1
      BY <3>1
    <3> QED
      BY <2>1, <2>3, <3>2 DEF Newest
  <2> QED
    BY <2>2, <2>3
<1>12. /\ prebuf' \in Seq(Nat) /\ Len(prebuf') = m
       /\ \A k \in 1 .. m : prebuf'[k] = grown[l + 1 - m + k]
  <2>1. g = Len(grown) /\ grown \in Seq(Nat)
    BY <1>7, <1>9
  <2>2. m \in 0 .. g
    BY <1>10
  <2>3. /\ SubSeq(grown, g - m + 1, g) \in Seq(Nat)
        /\ Len(SubSeq(grown, g - m + 1, g)) = m
        /\ \A k \in 1 .. m : SubSeq(grown, g - m + 1, g)[k] = grown[g - m + k]
    BY <2>1, <2>2, LastElements
  <2> QED
    BY <1>8, <1>9, <1>11, <2>3
<1>13. m <= l + 1
  BY <1>3, <1>9, <1>10
<1>14. ASSUME NEW k \in 1 .. m PROVE prebuf'[k] = read'[n + 1 - m + k].id
  <2>1. CASE k = m
    <3>1. l + 1 - m + k = l + 1 /\ n + 1 - m + k = n + 1
      BY <2>1
    <3> QED
      BY <1>4, <1>7, <1>12, <3>1
  <2>2. CASE k # m
    <3>1. l + 1 - m + k \in 1 .. l
      BY <1>13, <2>2
    <3>2. n - l + (l + 1 - m + k) = n + 1 - m + k
      OBVIOUS
    <3>3. l <= n
      BY <1>3
    <3>4. n + 1 - m + k \in 1 .. n
      BY <1>13, <2>2, <3>3
    <3>5. prebuf'[k] = prebuf[l + 1 - m + k]
      BY <1>7, <1>12, <3>1
    <3>6. prebuf[l + 1 - m + k] = read[n - l + (l + 1 - m + k)].id
      BY <1>5, <3>1
    <3> QED
      BY <1>4, <3>2, <3>4, <3>5, <3>6
  <2> QED
    BY <2>1, <2>2
<1>15. PreRollLength(Len(read))' = m
  <2>1. m = IF n + 1 < p THEN n + 1 ELSE p
    BY <1>3, <1>9, <1>10
  <2> QED
    BY <1>2, <1>4, <2>1 DEF PreRollLength
<1>16. PreRollExact'
  <2>1. Len(prebuf') = PreRollLength(Len(read))'
    BY <1>12, <1>15
  <2>2. \A k \in 1 .. Len(prebuf') : prebuf'[k] = read'[Len(read') - Len(prebuf') + k].id
    BY <1>4, <1>12, <1>14
  <2> QED
    BY <2>1, <2>2 DEF PreRollExact
<1> QED
  BY <1>12, <1>16

-----------------------------------------------------------------------------
(* What was read stays as it was *)

\* The frames that were read are still there, and the detector's setup is the same.
Kept(n) ==
    /\ setup \in Setups /\ setup' = setup
    /\ \A i \in 1 .. n : read'[i] = read[i]

LEMMA StartsKept ==
    ASSUME NEW n \in Nat, NEW s \in 1 .. n, Kept(n)
    PROVE  StartsAt(s)' <=> StartsAt(s)
<1>1. setup.attack \in Nat \ {0} /\ setup' = setup
  BY SetupType DEF Kept
<1>2. CASE s >= setup.attack
  <2>1. ASSUME NEW l \in s - setup.attack + 1 .. s PROVE read'[l] = read[l]
    <3>1. l \in 1 .. n
      BY <1>1, <1>2
    <3> QED
      BY <3>1 DEF Kept
  <2> QED
    BY <1>1, <2>1 DEF StartsAt, LoudWhileIdle
<1>3. CASE ~(s >= setup.attack)
  BY <1>1, <1>3 DEF StartsAt
<1> QED
  BY <1>2, <1>3

LEMMA SilentKept ==
    ASSUME NEW n \in Nat, NEW a \in 1 .. n, NEW e \in 1 .. n, Kept(n)
    PROVE  SilentAfter(a, e)' <=> SilentAfter(a, e)
<1>1. ASSUME NEW i \in a + 1 .. e PROVE read'[i] = read[i]
  <2>1. i \in 1 .. n
    OBVIOUS
  <2> QED
    BY <2>1 DEF Kept
<1> QED
  BY <1>1 DEF SilentAfter

LEMMA EndsKept ==
    ASSUME NEW n \in Nat, NEW s \in 1 .. n, NEW e \in 1 .. n, Kept(n)
    PROVE  EndsAt(s, e)' <=> EndsAt(s, e)
<1>1. setup' = setup
  BY DEF Kept
<1>2. SilentAfter(s, e)' <=> SilentAfter(s, e)
  BY SilentKept
<1>3. ASSUME NEW a \in s + 1 .. e
      PROVE  /\ read'[a].above = read[a].above
             /\ SilentAfter(a, e)' <=> SilentAfter(a, e)
  <2>1. a \in 1 .. n
    OBVIOUS
  <2> QED
    BY <2>1, SilentKept DEF Kept
<1>4. QuietAt(s, e)' <=> QuietAt(s, e)
  BY <1>1, <1>2, <1>3 DEF QuietAt
<1> QED
  BY <1>1, <1>4 DEF EndsAt, LengthAt, PreRollLength

LEMMA PreRollType ==
    ASSUME NEW s \in Nat, setup \in Setups
    PROVE  PreRollLength(s) \in 0 .. s
BY SetupType DEF PreRollLength

LEMMA PreRollTypeNext ==
    ASSUME NEW s \in Nat, setup' \in Setups
    PROVE  PreRollLength(s)' \in 0 .. s
BY DEF PreRollLength

LEMMA LengthType ==
    ASSUME NEW s \in Nat, NEW e \in Nat, setup \in Setups, s <= e
    PROVE  LengthAt(s, e) \in Nat
<1> PICK p \in 0 .. s : p = PreRollLength(s)
  BY PreRollType
<1> QED
  BY DEF LengthAt

\* Every frame of an utterance was read.
LEMMA FrameAtType ==
    ASSUME NEW s \in Nat \ {0}, NEW e \in Nat, NEW k \in Nat \ {0}, setup \in Setups,
           s <= e, k <= LengthAt(s, e)
    PROVE  FrameAt(s, k) \in 1 .. e
<1>1. PICK p \in 0 .. s : p = PreRollLength(s)
  BY PreRollType
<1>2. k <= p + 1 + (e - s)
  BY <1>1 DEF LengthAt
<1>3. CASE k <= p
  <2>1. FrameAt(s, k) = s - p + k
    BY <1>1, <1>3 DEF FrameAt
  <2> QED
    BY <1>3, <2>1
<1>4. CASE ~(k <= p)
  <2>1. FrameAt(s, k) = s + k - p - 1
    BY <1>1, <1>4 DEF FrameAt
  <2> QED
    BY <1>2, <1>4, <2>1
<1> QED
  BY <1>3, <1>4

LEMMA FramesKept ==
    ASSUME NEW n \in Nat, NEW s \in 1 .. n, NEW e \in s .. n, NEW frames,
           Kept(n), FramesFrom(frames, s, e)
    PROVE  FramesFrom(frames, s, e)'
<1>1. setup \in Setups /\ setup' = setup
  BY DEF Kept
<1>2. /\ LengthAt(s, e)' = LengthAt(s, e)
      /\ \A k : FrameAt(s, k)' = FrameAt(s, k)
  BY <1>1 DEF LengthAt, FrameAt, PreRollLength
<1>3. ASSUME NEW i \in s + 1 .. e PROVE ~read'[i].idle
  <2>1. i \in 1 .. n
    OBVIOUS
  <2> QED
    BY <1>3, <2>1 DEF Kept, FramesFrom
<1>4. ASSUME NEW k \in 1 .. Len(frames) PROVE frames[k] = read'[FrameAt(s, k)].id
  <2>1. LengthAt(s, e) \in Nat /\ Len(frames) = LengthAt(s, e)
    BY <1>1, LengthType DEF FramesFrom
  <2>2. FrameAt(s, k) \in 1 .. e
    BY <1>1, <2>1, FrameAtType
  <2>3. read'[FrameAt(s, k)] = read[FrameAt(s, k)]
    BY <2>2 DEF Kept
  <2> QED
    BY <1>4, <2>3 DEF FramesFrom
<1> QED
  BY <1>2, <1>3, <1>4 DEF FramesFrom

LEMMA UtteranceKept ==
    ASSUME NEW n \in Nat, NEW s \in 1 .. n, NEW e \in s + 1 .. n, NEW u,
           Kept(n), IsUtterance(u, s, e)
    PROVE  IsUtterance(u, s, e)'
<1>1. setup \in Setups /\ setup' = setup
  BY DEF Kept
<1>2. StartsAt(s)'
  BY StartsKept DEF IsUtterance
<1>3. FramesFrom(u.frames, s, e)'
  <2>1. e \in s .. n /\ FramesFrom(u.frames, s, e)
    BY DEF IsUtterance
  <2> QED
    BY <2>1, FramesKept
<1>4. EndsAt(s, e)'
  <2>1. e \in 1 .. n
    OBVIOUS
  <2> QED
    BY <2>1, EndsKept DEF IsUtterance
<1>5. ASSUME NEW i \in s + 1 .. e - 1 PROVE ~EndsAt(s, i)'
  <2>1. i \in 1 .. n
    OBVIOUS
  <2> QED
    BY <1>5, <2>1, EndsKept DEF IsUtterance
<1>6. LengthAt(s, e)' = LengthAt(s, e)
  BY <1>1 DEF LengthAt, PreRollLength
<1> QED
  BY <1>1, <1>2, <1>3, <1>4, <1>5, <1>6 DEF IsUtterance

-----------------------------------------------------------------------------
(* What was recorded stays recorded *)

LEMMA FramesAppended ==
    ASSUME NEW seq \in Seq(Nat), NEW x \in Nat
    PROVE  Frames(seq) \subseteq Frames(Append(seq, x)) /\ x \in Frames(Append(seq, x))
<1>1. PICK n \in Nat : n = Len(seq)
  OBVIOUS
<1>2. PICK new : new = Append(seq, x)
  OBVIOUS
<1>3. /\ Len(new) = n + 1
      /\ \A i \in 1 .. n : new[i] = seq[i]
      /\ new[n + 1] = x
  BY <1>1, <1>2, Appended
<1> QED
  BY <1>1, <1>2, <1>3 DEF Frames

LEMMA EndedGrows ==
    ASSUME NEW u \in Utterance, utterances \in Seq(Utterance), utterances' = Append(utterances, u)
    PROVE  Ended' = Ended \cup Frames(u.frames)
<1>1. PICK n \in Nat : n = Len(utterances)
  OBVIOUS
<1>2. /\ Len(utterances') = n + 1
      /\ \A i \in 1 .. n : utterances'[i] = utterances[i]
      /\ utterances'[n + 1] = u
  BY <1>1, Appended
<1>3. Ended \subseteq Ended' /\ Frames(u.frames) \subseteq Ended'
  BY <1>1, <1>2 DEF Ended, Frames
<1>4. ASSUME NEW f \in Ended' PROVE f \in Ended \cup Frames(u.frames)
  <2>1. PICK i \in 1 .. n + 1 : f \in Frames(utterances'[i].frames)
    BY <1>2 DEF Ended, Frames
  <2>2. CASE i = n + 1
    BY <1>2, <2>1, <2>2
  <2>3. CASE i # n + 1
    <3>1. i \in 1 .. n /\ i \in 1 .. Len(utterances)
      BY <1>1, <2>3
    <3> QED
      BY <1>2, <2>1, <3>1 DEF Ended
  <2> QED
    BY <2>2, <2>3
<1> QED
  BY <1>3, <1>4

\* SpeechKept, of the speech that is loud for long enough at frame j.
RunKept(j) ==
    StartsAt(j) =>
        \A i \in j - setup.attack + 1 .. j :
            j - i < setup.pre \/ i = j => read[i].id \in Recorded

LEMMA RunsKept ==
    ASSUME NEW n \in Nat, NEW j \in 1 .. n,
           n = Len(read), Kept(n), SpeechKept, Recorded \subseteq Recorded'
    PROVE  RunKept(j)'
<1>1. setup.attack \in Nat \ {0} /\ setup' = setup
  BY SetupType DEF Kept
<1>2. StartsAt(j)' <=> StartsAt(j)
  BY StartsKept
<1>3. ASSUME StartsAt(j), NEW i \in j - setup.attack + 1 .. j PROVE read'[i] = read[i]
  <2>1. i \in 1 .. n
    BY <1>1, <1>3 DEF StartsAt
  <2> QED
    BY <2>1 DEF Kept
<1>4. RunKept(j)
  BY DEF SpeechKept, RunKept
<1> QED
  BY <1>1, <1>2, <1>3, <1>4 DEF RunKept

\* An utterance that was one still is, and began after the same ones.
LEMMA UtterancesKept ==
    ASSUME NEW n \in Nat, NEW m \in Nat, NEW u \in 1 .. Len(utterances), NEW x,
           n = Len(read), n <= m, Kept(n), UtteranceExact, x = utterances[u],
           \A v \in 1 .. u - 1 : utterances'[v] = utterances[v]
    PROVE  \E s \in 1 .. m : \E e \in s + 1 .. m : IsUtterance(x, s, e)' /\ BeginsAfter(u, s)'
<1>1. PICK s \in 1 .. n : \E e \in s + 1 .. n : IsUtterance(x, s, e) /\ BeginsAfter(u, s)
  BY DEF UtteranceExact
<1>2. PICK e \in s + 1 .. n : IsUtterance(x, s, e) /\ BeginsAfter(u, s)
  BY <1>1
<1>3. IsUtterance(x, s, e)'
  BY <1>2, UtteranceKept
<1>4. BeginsAfter(u, s)'
  <2>1. read'[s] = read[s]
    BY DEF Kept
  <2> QED
    BY <1>2, <2>1 DEF BeginsAfter, Frames
<1>5. s \in 1 .. m /\ e \in s + 1 .. m
  OBVIOUS
<1> QED
  BY <1>3, <1>4, <1>5

-----------------------------------------------------------------------------
(* Silence *)

\* Another frame: a loud one, one of the hangover or one of the silence.
LEMMA SilenceGrows ==
    ASSUME NEW n \in Nat, NEW s \in 1 .. n, NEW is_above \in BOOLEAN, NEW left, NEW quiet,
           Kept(n), read'[n + 1].above = is_above,
           hangover \in Nat, below_cnt \in Nat, Silence(s, n, hangover, below_cnt),
           left = HangoverLeft(is_above), quiet = QuietFrames(is_above)
    PROVE  Silence(s, n + 1, left, quiet)'
<1>0. PICK h \in Nat : h = setup.hangover /\ h = setup'.hangover
  BY SetupType DEF Kept
<1>1. CASE is_above
  <2>1. left = h /\ quiet = 0
    BY <1>0, <1>1 DEF HangoverLeft, QuietFrames
  <2>2. SilentAfter(n + 1, n + 1)' /\ read'[n + 1].above
    BY <1>1 DEF SilentAfter
  <2>3. n + 1 \in s + 1 .. n + 1 /\ n + 1 - (n + 1) = 0
    OBVIOUS
  <2> QED
    BY <1>0, <2>1, <2>2, <2>3 DEF Silence
<1>2. CASE ~is_above
  <2>1. \A a \in 1 .. n : SilentAfter(a, n) => SilentAfter(a, n + 1)'
    <3> SUFFICES ASSUME NEW a \in 1 .. n, SilentAfter(a, n), NEW i \in a + 1 .. n + 1
                 PROVE  ~read'[i].above
      BY DEF SilentAfter
    <3>1. CASE i = n + 1
      BY <1>2, <3>1
    <3>2. CASE i # n + 1
      <4>1. i \in a + 1 .. n /\ i \in 1 .. n
        BY <3>2
      <4> QED
        BY <4>1 DEF Kept, SilentAfter
    <3> QED
      BY <3>1, <3>2
  <2>2. CASE SilentAfter(s, n) /\ hangover = 0 /\ below_cnt = n - s
    <3>1. left = 0 /\ quiet = n + 1 - s
      BY <1>2, <2>2 DEF HangoverLeft, QuietFrames
    <3> QED
      BY <2>1, <2>2, <3>1 DEF Silence
  <2>3. ASSUME NEW a \in s + 1 .. n, read[a].above, SilentAfter(a, n),
               IF n - a <= setup.hangover
                 THEN hangover = setup.hangover - (n - a) /\ below_cnt = 0
                 ELSE hangover = 0 /\ below_cnt = n - a - setup.hangover
        PROVE  Silence(s, n + 1, left, quiet)'
    <3>1. a \in 1 .. n /\ a \in s + 1 .. n + 1
      OBVIOUS
    <3>2. read'[a].above /\ SilentAfter(a, n + 1)'
      BY <2>1, <2>3, <3>1 DEF Kept
    <3>3. IF n + 1 - a <= h THEN left = h - (n + 1 - a) /\ quiet = 0
                            ELSE left = 0 /\ quiet = n + 1 - a - h
      <4>1. CASE n - a < h
        <5>1. hangover = h - (n - a) /\ hangover > 0
          BY <1>0, <2>3, <4>1
        <5>2. left = hangover - 1 /\ quiet = 0
          BY <1>2, <5>1 DEF HangoverLeft, QuietFrames
        <5> QED
          BY <4>1, <5>1, <5>2
      <4>2. CASE n - a = h
        <5>1. hangover = 0 /\ below_cnt = 0
          BY <1>0, <2>3, <4>2
        <5>2. left = 0 /\ quiet = 1
          BY <1>2, <5>1 DEF HangoverLeft, QuietFrames
        <5> QED
          BY <4>2, <5>2
      <4>3. CASE n - a > h
        <5>1. hangover = 0 /\ below_cnt = n - a - h
          BY <1>0, <2>3, <4>3
        <5>2. left = 0 /\ quiet = n - a - h + 1
          BY <1>2, <5>1 DEF HangoverLeft, QuietFrames
        <5> QED
          BY <4>3, <5>2
      <4> QED
        BY <4>1, <4>2, <4>3
    <3> QED
      BY <1>0, <3>1, <3>2, <3>3 DEF Silence
  <2> QED
    BY <2>2, <2>3 DEF Silence
<1> QED
  BY <1>1, <1>2

\* The count says whether it has been quiet for long enough.
LEMMA SilenceTells ==
    ASSUME NEW s \in Nat \ {0}, NEW e \in Nat, NEW left, NEW quiet,
           s < e, setup' \in Setups, Silence(s, e, left, quiet)'
    PROVE  QuietAt(s, e)' <=> quiet >= setup'.release
<1>1. PICK h \in Nat, r \in Nat \ {0} : h = setup'.hangover /\ r = setup'.release
  OBVIOUS
<1>2. CASE SilentAfter(s, e)' /\ left = 0 /\ quiet = e - s
  <2>1. ~\E a \in s + 1 .. e : read'[a].above
    BY <1>2 DEF SilentAfter
  <2> QED
    BY <1>1, <1>2, <2>1 DEF QuietAt
<1>3. ASSUME NEW a \in s + 1 .. e, read'[a].above, SilentAfter(a, e)',
             IF e - a <= setup'.hangover
               THEN left = setup'.hangover - (e - a) /\ quiet = 0
               ELSE left = 0 /\ quiet = e - a - setup'.hangover
      PROVE  QuietAt(s, e)' <=> quiet >= setup'.release
  <2>1. ~SilentAfter(s, e)'
    BY <1>3 DEF SilentAfter
  <2>2. ASSUME NEW b \in s + 1 .. e, read'[b].above, SilentAfter(b, e)' PROVE b = a
    <3>1. CASE b < a
      <4>1. a \in b + 1 .. e
        BY <3>1
      <4> QED
        BY <1>3, <2>2, <4>1 DEF SilentAfter
    <3>2. CASE a < b
      <4>1. b \in a + 1 .. e
        BY <3>2
      <4> QED
        BY <1>3, <2>2, <4>1 DEF SilentAfter
    <3> QED
      BY <3>1, <3>2
  <2>3. QuietAt(s, e)' <=> e - a >= r + h
    BY <1>1, <1>3, <2>1, <2>2 DEF QuietAt
  <2>4. quiet >= r <=> e - a >= r + h
    <3>1. CASE e - a <= h
      BY <1>1, <1>3, <3>1
    <3>2. CASE ~(e - a <= h)
      BY <1>1, <1>3, <3>2
    <3> QED
      BY <3>1, <3>2
  <2> QED
    BY <1>1, <2>3, <2>4
<1> QED
  BY <1>2, <1>3 DEF Silence

-----------------------------------------------------------------------------
(* A frame is read *)

\* What every such step may rely on.
LEMMA FrameRead ==
    ASSUME NEW is_above \in BOOLEAN, NEW n \in Nat,
           VoiceInv, _read_frame(is_above), n = Len(read)
    PROVE  /\ Kept(n) /\ setup' \in Setups
           /\ stop_requested' = stop_requested /\ phase = "reading"
           /\ frame' = frame + 1 /\ frame' \in Nat
           /\ read' \in Seq(Frame) /\ Len(read') = n + 1
           /\ read'[n + 1].id = frame' /\ read'[n + 1].above = is_above
           /\ read'[n + 1].idle = ~in_speech
           /\ prebuf' \in Seq(Nat) /\ PreRollExact'
<1>1. TypeOK /\ PreRollExact /\ setup \in Setups
  BY DEF VoiceInv, TypeOK
<1>2. /\ setup' = setup /\ stop_requested' = stop_requested
      /\ phase = "reading" /\ frame' = frame + 1 /\ frame' \in Nat
      /\ read' \in Seq(Frame) /\ Len(read') = n + 1
      /\ \A i \in 1 .. n : read'[i] = read[i]
      /\ read'[n + 1].id = frame' /\ read'[n + 1].above = is_above
      /\ read'[n + 1].idle = ~in_speech
  BY <1>1, ReadGrows
<1>3. prebuf' \in Seq(Nat) /\ PreRollExact'
  BY <1>1, RingGrows
<1> QED
  BY <1>1, <1>2, <1>3 DEF Kept

\* Nothing new in what was ended, and no speech or one that is recorded at frame
\* n + 1: both properties hold still.
LEMMA StillExact ==
    ASSUME NEW n \in Nat, VoiceInv, Kept(n), n = Len(read), Len(read') = n + 1,
           utterances' = utterances
    PROVE  UtteranceExact'
<1> SUFFICES ASSUME NEW u \in 1 .. Len(utterances)
             PROVE  \E s \in 1 .. n + 1 : \E e \in s + 1 .. n + 1 :
                        IsUtterance(utterances[u], s, e)' /\ BeginsAfter(u, s)'
  BY DEF UtteranceExact
<1>1. PICK x : x = utterances[u]
  OBVIOUS
<1>2. PICK m \in Nat : m = n + 1
  OBVIOUS
<1>3. \E s \in 1 .. m : \E e \in s + 1 .. m : IsUtterance(x, s, e)' /\ BeginsAfter(u, s)'
  <2>1. n <= m /\ UtteranceExact
    BY <1>2 DEF VoiceInv
  <2> QED
    BY <1>1, <2>1, UtterancesKept
<1>4. utterances'[u] = x
  BY <1>1
<1> QED
  BY <1>2, <1>3, <1>4 DEF IsUtterance

\* The frames known are those that were, the ring and the frame that is read.
LEMMA StillBehind ==
    ASSUME NEW is_above \in BOOLEAN, NEW n \in Nat,
           VoiceInv, _read_frame(is_above), n = Len(read),
           Recorded' \subseteq Recorded \cup Frames(prebuf)' \cup {frame'}
    PROVE  NotAhead'
<1>1. PICK f \in Nat : f = frame
  BY DEF VoiceInv, TypeOK
<1>2. /\ Kept(n) /\ setup' \in Setups /\ frame' = f + 1 /\ Len(read') = n + 1
      /\ read'[n + 1].id = f + 1 /\ PreRollExact'
  BY <1>1, FrameRead
<1>3. \A i \in 1 .. n : read'[i].id \in 0 .. f
  BY <1>1, <1>2 DEF VoiceInv, NotAhead, Kept
<1>4. \A i \in 1 .. n + 1 : read'[i].id \in 0 .. f + 1
  <2> SUFFICES ASSUME NEW i \in 1 .. n + 1 PROVE read'[i].id \in 0 .. f + 1
    OBVIOUS
  <2>1. CASE i = n + 1
    BY <1>2, <2>1
  <2>2. CASE i # n + 1
    <3>1. i \in 1 .. n
      BY <2>2
    <3>2. read'[i].id \in 0 .. f
      BY <1>3, <3>1
    <3> QED
      BY <3>2
  <2> QED
    BY <2>1, <2>2
<1>5. Frames(prebuf)' \subseteq 0 .. f + 1
  <2>1. PICK s \in Nat : s = n + 1
    OBVIOUS
  <2>2. PICK p \in 0 .. s : p = PreRollLength(s)'
    BY <1>2, PreRollTypeNext
  <2>3. /\ Len(prebuf') = p
        /\ \A k \in 1 .. p : prebuf'[k] = read'[s - p + k].id
    BY <1>2, <2>1, <2>2 DEF PreRollExact, PreRollLength
  <2>4. \A k \in 1 .. p : s - p + k \in 1 .. n + 1
    BY <2>1
  <2> QED
    BY <1>4, <2>3, <2>4 DEF Frames
<1>6. Recorded' \subseteq 0 .. f + 1
  <2>1. Recorded \subseteq 0 .. f
    BY <1>1 DEF VoiceInv, NotAhead
  <2>2. 0 .. f \subseteq 0 .. f + 1 /\ f + 1 \in 0 .. f + 1
    OBVIOUS
  <2> QED
    BY <1>2, <1>5, <2>1, <2>2
<1> QED
  BY <1>2, <1>4, <1>6 DEF NotAhead

LEMMA StillKept ==
    ASSUME NEW n \in Nat, VoiceInv, Kept(n), n = Len(read), Len(read') = n + 1,
           Recorded \subseteq Recorded', RunKept(n + 1)'
    PROVE  SpeechKept'
<1>1. \A j \in 1 .. n : RunKept(j)'
  BY RunsKept DEF VoiceInv
<1>2. \A j \in 1 .. n + 1 : RunKept(j)'
  BY <1>1
<1> QED
  BY <1>2 DEF SpeechKept, RunKept

\* A frame of an utterance does not end an attack.
LEMMA NoRunInSpeech ==
    ASSUME NEW n \in Nat, setup' \in Setups, ~read'[n + 1].idle
    PROVE  RunKept(n + 1)'
<1>1. setup'.attack \in Nat \ {0}
  OBVIOUS
<1>2. n + 1 \in n + 1 - setup'.attack + 1 .. n + 1
  BY <1>1
<1> QED
  BY <1>2 DEF RunKept, StartsAt, LoudWhileIdle

-----------------------------------------------------------------------------
(* The steps *)

\* Too few loud frames yet: the run of them is shorter than the attack.
LEMMA WaitKeeps ==
    ASSUME NEW is_above \in BOOLEAN, VoiceInv, Wait(is_above)
    PROVE  VoiceInv'
<1>1. PICK n \in Nat : n = Len(read)
  BY DEF VoiceInv, TypeOK
<1>2. /\ Kept(n) /\ setup' \in Setups
      /\ stop_requested' = stop_requested /\ phase = "reading"
      /\ frame' \in Nat
      /\ read' \in Seq(Frame) /\ Len(read') = n + 1
      /\ read'[n + 1].above = is_above /\ read'[n + 1].idle = ~in_speech
      /\ prebuf' \in Seq(Nat) /\ PreRollExact'
  BY <1>1, FrameRead DEF Wait
<1>3. /\ ~in_speech /\ phase' = "reading" /\ ~in_speech'
      /\ UNCHANGED <<phase, in_speech, below_cnt, hangover, cur, recording, utterances>>
  BY <1>2 DEF Wait
<1>4. PICK c \in Nat : c = above_cnt
  BY DEF VoiceInv, TypeOK
<1>5. /\ c < setup.attack /\ c <= n /\ LoudWhileIdle(n - c + 1, n)
      /\ n - c > 0 => ~(read[n - c].idle /\ read[n - c].above)
      /\ cur = <<>>
  BY <1>1, <1>2, <1>3, <1>4 DEF VoiceInv, IdleExact
<1>6. PICK a \in Nat \ {0} : a = setup.attack /\ a = setup'.attack
  BY <1>2, SetupType DEF Kept
<1>7. PICK c2 \in Nat : c2 = above_cnt' /\ c2 = (IF is_above THEN c + 1 ELSE 0) /\ c2 < a
  BY <1>4, <1>6 DEF Wait
<1>8. TypeOK'
  <2>1. in_speech' \in BOOLEAN /\ recording' \in BOOLEAN /\ stop_requested' \in BOOLEAN
    BY <1>2, <1>3 DEF VoiceInv, TypeOK
  <2>2. /\ above_cnt' \in Nat /\ below_cnt' \in Nat /\ hangover' \in Nat
        /\ cur' \in Seq(Nat) /\ utterances' \in Seq(Utterance)
    BY <1>3, <1>7 DEF VoiceInv, TypeOK
  <2> QED
    BY <1>2, <1>3, <2>1, <2>2 DEF TypeOK
<1>9. \A i \in 1 .. n : read'[i] = read[i]
  BY <1>2 DEF Kept
\* The frame before the run of loud ones.
<1>10. /\ c2 <= n + 1
       /\ \A l \in n + 1 - c2 + 1 .. n + 1 : read'[l].idle /\ read'[l].above
       /\ n + 1 - c2 > 0 => ~(read'[n + 1 - c2].idle /\ read'[n + 1 - c2].above)
  <2>1. CASE is_above
    <3>1. c2 = c + 1 /\ n + 1 - c2 = n - c
      BY <1>7, <2>1
    <3>2. ASSUME NEW l \in n - c + 1 .. n + 1 PROVE read'[l].idle /\ read'[l].above
      <4>1. CASE l = n + 1
        BY <1>2, <1>3, <2>1, <4>1
      <4>2. CASE l # n + 1
        <5>1. l \in n - c + 1 .. n /\ l \in 1 .. n
          BY <1>5, <4>2
        <5> QED
          BY <1>5, <1>9, <5>1 DEF LoudWhileIdle
      <4> QED
        BY <4>1, <4>2
    <3>3. n - c > 0 => ~(read'[n - c].idle /\ read'[n - c].above)
      <4> SUFFICES ASSUME n - c > 0 PROVE read'[n - c] = read[n - c]
        BY <1>5
      <4>1. n - c \in 1 .. n
        BY <1>5
      <4> QED
        BY <1>9, <4>1
    <3>4. c2 <= n + 1
      BY <1>5, <3>1
    <3> QED
      BY <3>1, <3>2, <3>3, <3>4
  <2>2. CASE ~is_above
    BY <1>2, <1>7, <2>2
  <2> QED
    BY <2>1, <2>2
<1>11. IdleExact'
  BY <1>2, <1>3, <1>5, <1>6, <1>7, <1>10 DEF IdleExact, LoudWhileIdle
<1>12. RunKept(n + 1)'
  <2> SUFFICES ASSUME n + 1 >= a, \A l \in n + 1 - a + 1 .. n + 1 : read'[l].idle /\ read'[l].above
               PROVE  FALSE
    BY <1>6 DEF RunKept, StartsAt, LoudWhileIdle
  <2>1. n + 1 - c2 \in n + 1 - a + 1 .. n + 1 /\ n + 1 - c2 > 0
    BY <1>7, <1>10
  <2> QED
    BY <1>10, <2>1
<1>13. Recorded' = Recorded
  BY <1>3 DEF Recorded, Ended, Frames
<1>14. SpeechKept' /\ UtteranceExact'
  BY <1>1, <1>2, <1>3, <1>12, <1>13, StillKept, StillExact
<1>15. SpeechExact' /\ YieldedExact'
  BY <1>3 DEF SpeechExact, YieldedExact
<1>16. NotAhead'
  BY <1>1, <1>13, StillBehind DEF Wait
<1> QED
  BY <1>2, <1>8, <1>11, <1>14, <1>15, <1>16 DEF VoiceInv

\* The attack is over: an utterance begins with the ring and the frame once more.
LEMMA StartKeeps ==
    ASSUME NEW is_above \in BOOLEAN, VoiceInv, Start(is_above)
    PROVE  VoiceInv'
<1>1. PICK n \in Nat : n = Len(read)
  BY DEF VoiceInv, TypeOK
<1>2. /\ Kept(n) /\ setup' \in Setups
      /\ stop_requested' = stop_requested /\ phase = "reading"
      /\ frame' \in Nat
      /\ read' \in Seq(Frame) /\ Len(read') = n + 1
      /\ read'[n + 1].id = frame'
      /\ read'[n + 1].above = is_above /\ read'[n + 1].idle = ~in_speech
      /\ prebuf' \in Seq(Nat) /\ PreRollExact'
  BY <1>1, FrameRead DEF Start
<1>3. /\ ~in_speech /\ is_above /\ phase' = "reading" /\ in_speech' = TRUE
      /\ recording' = TRUE /\ hangover' = 0 /\ below_cnt' = 0
      /\ cur' = Append(prebuf', frame')
      /\ utterances' = utterances
  BY <1>2 DEF Start
<1>4. PICK c \in Nat : c = above_cnt
  BY DEF VoiceInv, TypeOK
<1>5. /\ c < setup.attack /\ c <= n /\ LoudWhileIdle(n - c + 1, n)
      /\ cur = <<>>
  BY <1>1, <1>2, <1>3, <1>4 DEF VoiceInv, IdleExact
<1>6. PICK a \in Nat \ {0} : a = setup.attack /\ a = setup'.attack
  BY <1>2, SetupType DEF Kept
<1>7. above_cnt' = c + 1 /\ c + 1 >= a
  BY <1>4, <1>6 DEF Start
<1>8. c + 1 = a
  BY <1>5, <1>6, <1>7
<1>9. \A i \in 1 .. n : read'[i] = read[i]
  BY <1>2 DEF Kept
<1>10. PICK s \in Nat \ {0} : s = n + 1
  OBVIOUS
<1>11. StartsAt(s)'
  <2>1. s >= a
    BY <1>5, <1>8, <1>10
  <2>2. ASSUME NEW l \in s - a + 1 .. s PROVE read'[l].idle /\ read'[l].above
    <3>1. CASE l = s
      BY <1>2, <1>3, <1>10, <3>1
    <3>2. CASE l # s
      <4>1. l \in n - c + 1 .. n /\ l \in 1 .. n
        BY <1>5, <1>8, <1>10, <3>2
      <4> QED
        BY <1>5, <1>9, <4>1 DEF LoudWhileIdle
    <3> QED
      BY <3>1, <3>2
  <2> QED
    BY <1>6, <2>1, <2>2 DEF StartsAt, LoudWhileIdle
<1>12. PICK p \in 0 .. s : p = PreRollLength(s)'
  BY <1>2, PreRollTypeNext
<1>13. /\ Len(prebuf') = p
       /\ \A k \in 1 .. p : prebuf'[k] = read'[s - p + k].id
  BY <1>2, <1>10, <1>12 DEF PreRollExact, PreRollLength
<1>14. PICK new : new = cur'
  OBVIOUS
<1>15. /\ new \in Seq(Nat) /\ Len(new) = p + 1
       /\ \A k \in 1 .. p : new[k] = prebuf'[k]
       /\ new[p + 1] = frame'
  <2>1. p \in Nat /\ p = Len(prebuf')
    BY <1>13
  <2> QED
    BY <1>2, <1>3, <1>14, <2>1, Appended
<1>16. FramesFrom(new, s, s)'
  <2>1. LengthAt(s, s)' = p + 1
    BY <1>12 DEF LengthAt
  <2>2. ASSUME NEW k \in 1 .. p PROVE new[k] = read'[FrameAt(s, k)'].id
    <3>1. FrameAt(s, k)' = s - p + k
      BY <1>12 DEF FrameAt
    <3> QED
      BY <1>13, <1>15, <3>1
  <2>3. new[p + 1] = read'[FrameAt(s, p + 1)'].id
    <3>1. FrameAt(s, p + 1)' = s
      BY <1>12 DEF FrameAt
    <3> QED
      BY <1>2, <1>10, <1>15, <3>1
  <2>4. \A k \in 1 .. p + 1 : new[k] = read'[FrameAt(s, k)'].id
    BY <2>2, <2>3
  <2> QED
    BY <1>15, <2>1, <2>4 DEF FramesFrom
<1>17. Silence(s, s, 0, 0)'
  BY DEF Silence, SilentAfter
<1>18. SpeechExact'
  <2>1. \A f \in Ended' : f < read'[s].id
    <3>1. PICK now \in Nat : now = frame
      BY DEF VoiceInv, TypeOK
    <3>2. read'[s].id = now + 1
      BY <1>1, <1>2, <1>10, <3>1, FrameRead DEF Start
    <3>3. Ended' \subseteq 0 .. now
      BY <1>3, <3>1 DEF VoiceInv, NotAhead, Recorded, Ended
    <3> QED
      BY <3>2, <3>3
  <2> QED
    BY <1>2, <1>3, <1>10, <1>11, <1>14, <1>16, <1>17, <2>1 DEF SpeechExact
<1>19. Recorded \subseteq Recorded'
  BY <1>3, <1>5 DEF Recorded, Ended, Frames
<1>20. RunKept(n + 1)'
  <2> SUFFICES ASSUME NEW i \in s - a + 1 .. s, s - i < setup'.pre \/ i = s
               PROVE  read'[i].id \in Recorded'
    BY <1>6, <1>10 DEF RunKept
  <2>1. i >= 1
    BY <1>5, <1>8, <1>10
  <2>2. CASE i = s
    <3>1. read'[i].id = frame'
      BY <1>2, <1>10, <2>2
    <3>2. PICK q \in 1 .. Len(new) : q = p + 1
      BY <1>15
    <3>3. new[q] = read'[i].id
      BY <1>15, <3>1, <3>2
    <3> QED
      BY <1>14, <3>2, <3>3 DEF Recorded, Frames
  <2>3. CASE i # s
    <3>1. s - i < p
      <4>1. setup'.pre \in Nat
        BY <1>2
      <4>2. CASE s < setup'.pre
        BY <1>12, <2>1, <4>2 DEF PreRollLength
      <4>3. CASE ~(s < setup'.pre)
        BY <1>12, <2>3, <4>1, <4>3 DEF PreRollLength
      <4> QED
        BY <4>2, <4>3
    <3>2. i - s + p \in 1 .. p /\ s - p + (i - s + p) = i
      BY <3>1
    <3>3. read'[i].id = new[i - s + p] /\ i - s + p \in 1 .. Len(new)
      BY <1>13, <1>15, <3>2
    <3> QED
      BY <1>14, <3>3 DEF Recorded, Frames
  <2> QED
    BY <2>2, <2>3
<1>21. SpeechKept' /\ UtteranceExact'
  BY <1>1, <1>2, <1>3, <1>19, <1>20, StillKept, StillExact
<1>22. TypeOK'
  <2>1. in_speech' \in BOOLEAN /\ recording' \in BOOLEAN /\ stop_requested' \in BOOLEAN
    BY <1>2, <1>3 DEF VoiceInv, TypeOK
  <2>2. /\ above_cnt' \in Nat /\ below_cnt' \in Nat /\ hangover' \in Nat
        /\ cur' \in Seq(Nat)
    BY <1>3, <1>7, <1>14, <1>15
  <2>3. utterances' \in Seq(Utterance)
    BY <1>3 DEF VoiceInv, TypeOK
  <2> QED
    BY <1>2, <1>3, <2>1, <2>2, <2>3 DEF TypeOK
<1>23. IdleExact' /\ YieldedExact'
  BY <1>3 DEF IdleExact, YieldedExact
<1>24. NotAhead'
  <2>1. Ended' = Ended
    BY <1>3 DEF Ended, Frames
  <2>2. Frames(cur)' \subseteq Frames(prebuf)' \cup {frame'}
    <3> SUFFICES ASSUME NEW k \in 1 .. p + 1
                 PROVE  new[k] \in Frames(prebuf)' \cup {frame'}
      BY <1>14, <1>15 DEF Frames
    <3>1. CASE k = p + 1
      BY <1>15, <3>1
    <3>2. CASE k # p + 1
      <4>1. k \in 1 .. p /\ k \in 1 .. Len(prebuf')
        BY <1>13, <3>2
      <4> QED
        BY <1>15, <4>1 DEF Frames
    <3> QED
      BY <3>1, <3>2
  <2> QED
    BY <1>1, <2>1, <2>2, StillBehind DEF Recorded, Start
<1> QED
  BY <1>2, <1>18, <1>21, <1>22, <1>23, <1>24 DEF VoiceInv

\* The frame is appended to an utterance that goes on.
LEMMA SpeechGrows ==
    ASSUME NEW n \in Nat, NEW s \in 1 .. n, NEW old \in Seq(Nat), NEW x \in Nat,
           Kept(n), setup' \in Setups, ~read'[n + 1].idle, read'[n + 1].id = x,
           FramesFrom(old, s, n)
    PROVE  FramesFrom(Append(old, x), s, n + 1)'
<1>1. n \in s .. n /\ setup \in Setups
  BY DEF Kept
<1>2. FramesFrom(old, s, n)'
  BY <1>1, FramesKept
<1>3. PICK p \in 0 .. s : p = PreRollLength(s)'
  BY PreRollTypeNext
<1>4. PICK m \in Nat : m = p + 1 + (n - s)
  OBVIOUS
<1>5. LengthAt(s, n)' = m /\ LengthAt(s, n + 1)' = m + 1
  BY <1>3, <1>4 DEF LengthAt
<1>6. /\ \A i \in s + 1 .. n : ~read'[i].idle
      /\ Len(old) = m
      /\ \A k \in 1 .. m : old[k] = read'[FrameAt(s, k)'].id
  BY <1>2, <1>5 DEF FramesFrom
<1>7. PICK new : new = Append(old, x)
  OBVIOUS
<1>8. /\ Len(new) = m + 1
      /\ \A k \in 1 .. m : new[k] = old[k]
      /\ new[m + 1] = x
  BY <1>6, <1>7, Appended
<1>9. FrameAt(s, m + 1)' = n + 1
  <2>1. ~(m + 1 <= p)
    BY <1>4
  <2>2. FrameAt(s, m + 1)' = s + (m + 1) - p - 1
    BY <1>3, <2>1 DEF FrameAt
  <2>3. s + (m + 1) - p - 1 = n + 1
    BY <1>4
  <2> QED
    BY <2>2, <2>3
<1>10. ASSUME NEW k \in 1 .. m + 1 PROVE new[k] = read'[FrameAt(s, k)'].id
  <2>1. CASE k = m + 1
    BY <1>8, <1>9, <2>1
  <2>2. CASE k # m + 1
    <3>1. k \in 1 .. m
      BY <2>2
    <3> QED
      BY <1>6, <1>8, <3>1
  <2> QED
    BY <2>1, <2>2
<1>11. ASSUME NEW i \in s + 1 .. n + 1 PROVE ~read'[i].idle
  <2>1. CASE i = n + 1
    BY <2>1
  <2>2. CASE i # n + 1
    <3>1. i \in s + 1 .. n
      BY <2>2
    <3> QED
      BY <1>6, <3>1
  <2> QED
    BY <2>1, <2>2
<1> QED
  BY <1>5, <1>7, <1>8, <1>10, <1>11 DEF FramesFrom

\* What a frame read during an utterance makes of it: where it started, its
\* frames, the silence counted, and whether it ends here.
LEMMA SpeechGoesOn ==
    ASSUME NEW is_above \in BOOLEAN, NEW n \in Nat, NEW frames, NEW left, NEW quiet,
           VoiceInv, _read_frame(is_above), in_speech, n = Len(read),
           frames = Append(cur, frame'), left = HangoverLeft(is_above),
           quiet = QuietFrames(is_above)
    PROVE  /\ frames \in Seq(Nat) /\ Frames(cur) \subseteq Frames(frames)
           /\ left \in Nat /\ quiet \in Nat
           /\ Frames(frames) \subseteq Recorded \cup {frame'}
           /\ ~read'[n + 1].idle
           /\ \E s \in 1 .. n :
                /\ StartsAt(s)' /\ FramesFrom(frames, s, n + 1)'
                /\ read'[s] = read[s] /\ \A f \in Ended : f < read[s].id
                /\ \A i \in s + 1 .. n : ~EndsAt(s, i)'
                /\ Silence(s, n + 1, left, quiet)'
                /\ EndsAt(s, n + 1)' <=> StopReason(frames, quiet)
<1>1. /\ Kept(n) /\ setup' \in Setups /\ phase = "reading"
      /\ frame' \in Nat /\ Len(read') = n + 1
      /\ read'[n + 1].id = frame' /\ read'[n + 1].above = is_above
      /\ ~read'[n + 1].idle
  BY FrameRead
<1>2. /\ cur \in Seq(Nat) /\ hangover \in Nat /\ below_cnt \in Nat
      /\ setup \in Setups /\ setup' = setup
  BY <1>1 DEF VoiceInv, TypeOK, Kept
<1>3. PICK s \in 1 .. n :
          /\ StartsAt(s) /\ FramesFrom(cur, s, n)
          /\ \A f \in Ended : f < read[s].id
          /\ \A i \in s + 1 .. n : ~EndsAt(s, i)
          /\ Silence(s, n, hangover, below_cnt)
  BY <1>1 DEF VoiceInv, SpeechExact
<1>4. PICK old : old = cur
  OBVIOUS
<1>5. PICK x : x = frame'
  OBVIOUS
<1>6. frames \in Seq(Nat) /\ Frames(cur) \subseteq Frames(frames)
  BY <1>1, <1>2, FramesAppended
<1>7. left \in Nat /\ quiet \in Nat
  BY <1>2, SetupType DEF HangoverLeft, QuietFrames
<1>8. StartsAt(s)'
  BY <1>1, <1>3, StartsKept
<1>9. FramesFrom(frames, s, n + 1)'
  <2>1. old \in Seq(Nat) /\ x \in Nat /\ FramesFrom(old, s, n) /\ read'[n + 1].id = x
    BY <1>1, <1>2, <1>3, <1>4, <1>5
  <2>2. FramesFrom(Append(old, x), s, n + 1)'
    BY <1>1, <2>1, SpeechGrows
  <2>3. frames = Append(old, x)
    BY <1>4, <1>5
  <2> QED
    BY <2>2, <2>3
<1>10. ASSUME NEW i \in s + 1 .. n PROVE ~EndsAt(s, i)'
  <2>1. i \in 1 .. n
    OBVIOUS
  <2> QED
    BY <1>1, <1>3, <2>1, EndsKept
<1>11. Silence(s, n + 1, left, quiet)'
  BY <1>1, <1>2, <1>3, SilenceGrows
<1>12. EndsAt(s, n + 1)' <=> StopReason(frames, quiet)
  <2>1. PICK e \in Nat : e = n + 1
    OBVIOUS
  <2>2. QuietAt(s, e)' <=> quiet >= setup'.release
    <3>1. s \in Nat \ {0} /\ s < e /\ Silence(s, e, left, quiet)'
      BY <1>11, <2>1
    <3> QED
      BY <1>1, <3>1, SilenceTells
  <2>3. Len(frames) = LengthAt(s, n + 1)'
    BY <1>9 DEF FramesFrom
  <2> QED
    BY <1>2, <2>1, <2>2, <2>3 DEF EndsAt, StopReason
<1>13. Frames(frames) \subseteq Recorded \cup {frame'}
  <2>1. PICK l \in Nat : l = Len(cur)
    BY <1>2
  <2>2. /\ Len(frames) = l + 1
        /\ \A i \in 1 .. l : frames[i] = cur[i]
        /\ frames[l + 1] = frame'
    BY <1>1, <1>2, <2>1, Appended
  <2> SUFFICES ASSUME NEW i \in 1 .. l + 1 PROVE frames[i] \in Frames(cur) \cup {frame'}
    BY <2>2 DEF Frames, Recorded
  <2>3. CASE i = l + 1
    BY <2>2, <2>3
  <2>4. CASE i # l + 1
    <3>1. i \in 1 .. l
      BY <2>4
    <3> QED
      BY <2>1, <2>2, <3>1 DEF Frames
  <2> QED
    BY <2>3, <2>4
<1>14. read'[s] = read[s]
  BY <1>1 DEF Kept
<1> QED
  BY <1>1, <1>3, <1>6, <1>7, <1>8, <1>9, <1>10, <1>11, <1>12, <1>13, <1>14

\* An utterance goes on.
LEMMA SpeakKeeps ==
    ASSUME NEW is_above \in BOOLEAN, VoiceInv, Speak(is_above)
    PROVE  VoiceInv'
<1>1. PICK n \in Nat : n = Len(read)
  BY DEF VoiceInv, TypeOK
<1>2. /\ Kept(n) /\ setup' \in Setups
      /\ stop_requested' = stop_requested /\ phase = "reading"
      /\ frame' \in Nat
      /\ read' \in Seq(Frame) /\ Len(read') = n + 1
      /\ prebuf' \in Seq(Nat) /\ PreRollExact'
  BY <1>1, FrameRead DEF Speak
<1>3. PICK frames : frames = cur'
  OBVIOUS
<1>4. PICK left : left = hangover'
  OBVIOUS
<1>5. PICK quiet : quiet = below_cnt'
  OBVIOUS
<1>6. /\ _read_frame(is_above) /\ in_speech
      /\ frames = Append(cur, frame') /\ left = HangoverLeft(is_above)
      /\ quiet = QuietFrames(is_above)
      /\ ~StopReason(frames, quiet)
      /\ UNCHANGED <<phase, in_speech, above_cnt, recording, utterances>>
  BY <1>3, <1>4, <1>5 DEF Speak
<1>7. /\ frames \in Seq(Nat) /\ Frames(cur) \subseteq Frames(frames)
      /\ left \in Nat /\ quiet \in Nat
      /\ Frames(frames) \subseteq Recorded \cup {frame'}
      /\ ~read'[n + 1].idle
      /\ \E s \in 1 .. n :
           /\ StartsAt(s)' /\ FramesFrom(frames, s, n + 1)'
           /\ read'[s] = read[s] /\ \A f \in Ended : f < read[s].id
           /\ \A i \in s + 1 .. n : ~EndsAt(s, i)'
           /\ Silence(s, n + 1, left, quiet)'
           /\ EndsAt(s, n + 1)' <=> StopReason(frames, quiet)
  BY <1>1, <1>6, SpeechGoesOn
<1>8. PICK s \in 1 .. n :
          /\ StartsAt(s)' /\ FramesFrom(frames, s, n + 1)'
          /\ read'[s] = read[s] /\ \A f \in Ended : f < read[s].id
          /\ \A i \in s + 1 .. n : ~EndsAt(s, i)'
          /\ Silence(s, n + 1, left, quiet)'
          /\ ~EndsAt(s, n + 1)'
  BY <1>6, <1>7
<1>9. \A i \in s + 1 .. n + 1 : ~EndsAt(s, i)'
  BY <1>8
<1>10. SpeechExact'
  <2>1. \A f \in Ended' : f < read'[s].id
    BY <1>6, <1>8 DEF Ended, Frames
  <2>2. s \in 1 .. n + 1
    OBVIOUS
  <2> QED
    BY <1>2, <1>3, <1>4, <1>5, <1>8, <1>9, <2>1, <2>2 DEF SpeechExact
<1>11. Recorded \subseteq Recorded'
  BY <1>3, <1>6, <1>7 DEF Recorded, Ended, Frames
<1>12. RunKept(n + 1)'
  BY <1>2, <1>7, NoRunInSpeech
<1>13. SpeechKept' /\ UtteranceExact'
  BY <1>1, <1>2, <1>6, <1>11, <1>12, StillKept, StillExact
<1>14. TypeOK'
  <2>1. in_speech' \in BOOLEAN /\ recording' \in BOOLEAN /\ stop_requested' \in BOOLEAN
    BY <1>2, <1>6 DEF VoiceInv, TypeOK
  <2>2. cur' \in Seq(Nat) /\ below_cnt' \in Nat /\ hangover' \in Nat
    BY <1>3, <1>4, <1>5, <1>7
  <2>3. phase' = "reading" /\ above_cnt' \in Nat /\ utterances' \in Seq(Utterance)
    BY <1>2, <1>6 DEF VoiceInv, TypeOK
  <2> QED
    BY <1>2, <2>1, <2>2, <2>3 DEF TypeOK
<1>15. IdleExact' /\ YieldedExact'
  BY <1>2, <1>6 DEF IdleExact, YieldedExact
<1>16. NotAhead'
  <2>1. Ended' = Ended /\ Frames(cur)' = Frames(frames)
    BY <1>3, <1>6 DEF Ended, Frames
  <2>2. Recorded' \subseteq Recorded \cup Frames(prebuf)' \cup {frame'}
    BY <1>7, <2>1 DEF Recorded
  <2> QED
    BY <1>1, <1>6, <2>2, StillBehind
<1> QED
  BY <1>2, <1>10, <1>13, <1>14, <1>15, <1>16 DEF VoiceInv

\* The empty sequence has every sequence type.
LEMMA NothingYet == <<>> \in Seq(Nat) /\ <<>> \in Seq(Frame) /\ <<>> \in Seq(Utterance)
OBVIOUS

\* What _reset leaves has its types.
LEMMA ResetTypes ==
    ASSUME Reset
    PROVE  /\ in_speech' \in BOOLEAN /\ cur' \in Seq(Nat)
           /\ above_cnt' \in Nat /\ below_cnt' \in Nat /\ hangover' \in Nat
BY NothingYet DEF Reset

\* An utterance ends, and is handed out or dropped.
LEMMA FinishKeeps ==
    ASSUME NEW is_above \in BOOLEAN, VoiceInv, Finish(is_above)
    PROVE  VoiceInv'
<1>1. PICK n \in Nat : n = Len(read)
  BY DEF VoiceInv, TypeOK
<1>2. /\ Kept(n) /\ setup' \in Setups
      /\ stop_requested' = stop_requested /\ phase = "reading"
      /\ frame' = frame + 1 /\ frame' \in Nat
      /\ read' \in Seq(Frame) /\ Len(read') = n + 1
      /\ prebuf' \in Seq(Nat) /\ PreRollExact'
  BY <1>1, FrameRead DEF Finish
<1>3. PICK frames : frames = Append(cur, frame')
  OBVIOUS
<1>4. PICK left : left = HangoverLeft(is_above)
  OBVIOUS
<1>5. PICK quiet : quiet = QuietFrames(is_above)
  OBVIOUS
<1>6. PICK u : u = [frames |-> frames, kept |-> Len(frames) >= setup.min]
  OBVIOUS
<1>7. /\ _read_frame(is_above) /\ in_speech
      /\ StopReason(frames, quiet)
      /\ recording' = FALSE
      /\ utterances' = Append(utterances, u)
      /\ \/ /\ phase' = "yielded"
            /\ UNCHANGED <<in_speech, above_cnt, below_cnt, hangover, cur>>
         \/ Reset /\ UNCHANGED phase
  BY <1>2, <1>3, <1>5, <1>6 DEF Finish
<1>8. /\ frames \in Seq(Nat) /\ Frames(cur) \subseteq Frames(frames)
      /\ left \in Nat /\ quiet \in Nat
      /\ Frames(frames) \subseteq Recorded \cup {frame'}
      /\ ~read'[n + 1].idle
      /\ \E s \in 1 .. n :
           /\ StartsAt(s)' /\ FramesFrom(frames, s, n + 1)'
           /\ read'[s] = read[s] /\ \A f \in Ended : f < read[s].id
           /\ \A i \in s + 1 .. n : ~EndsAt(s, i)'
           /\ Silence(s, n + 1, left, quiet)'
           /\ EndsAt(s, n + 1)' <=> StopReason(frames, quiet)
  BY <1>1, <1>3, <1>4, <1>5, <1>7, SpeechGoesOn
<1>9. PICK s \in 1 .. n :
          /\ StartsAt(s)' /\ FramesFrom(frames, s, n + 1)'
          /\ read'[s] = read[s] /\ \A f \in Ended : f < read[s].id
          /\ \A i \in s + 1 .. n : ~EndsAt(s, i)'
          /\ EndsAt(s, n + 1)'
  BY <1>7, <1>8
<1>10. u \in Utterance /\ u.frames = frames /\ (u.kept <=> Len(frames) >= setup.min)
  <2>1. PICK b \in BOOLEAN : b <=> Len(frames) >= setup.min
    OBVIOUS
  <2>2. (Len(frames) >= setup.min) = b
    BY <1>8, <2>1, SetupType DEF VoiceInv, TypeOK
  <2>3. u = [frames |-> frames, kept |-> b]
    BY <1>6, <2>2
  <2> QED
    BY <1>8, <2>1, <2>3 DEF Utterance
<1>11. PICK m \in Nat : m = n + 1
  OBVIOUS
<1>12. IsUtterance(u, s, m)'
  <2>1. Len(frames) = LengthAt(s, m)' /\ setup' = setup
    BY <1>2, <1>9, <1>11 DEF FramesFrom, Kept
  <2>2. \A i \in s + 1 .. m - 1 : ~EndsAt(s, i)'
    BY <1>9, <1>11
  <2> QED
    BY <1>9, <1>10, <1>11, <2>1, <2>2 DEF IsUtterance
<1>13. utterances \in Seq(Utterance)
  BY DEF VoiceInv, TypeOK
<1>14. PICK k \in Nat : k = Len(utterances)
  BY <1>13
<1>15. /\ utterances' \in Seq(Utterance) /\ Len(utterances') = k + 1
       /\ \A i \in 1 .. k : utterances'[i] = utterances[i]
       /\ utterances'[k + 1] = u
  BY <1>7, <1>10, <1>13, <1>14, Appended
<1>16. UtteranceExact'
  <2> SUFFICES ASSUME NEW i \in 1 .. k + 1
               PROVE  \E t \in 1 .. m : \E e \in t + 1 .. m :
                          IsUtterance(utterances[i], t, e)' /\ BeginsAfter(i, t)'
    BY <1>2, <1>11, <1>15 DEF UtteranceExact
  <2>1. PICK x : x = utterances'[i]
    OBVIOUS
  <2>2. \E t \in 1 .. m : \E e \in t + 1 .. m : IsUtterance(x, t, e)' /\ BeginsAfter(i, t)'
    <3>1. CASE i = k + 1
      <4>1. x = u /\ s \in 1 .. m /\ m \in s + 1 .. m
        BY <1>11, <1>15, <2>1, <3>1
      <4>2. ASSUME NEW v \in 1 .. k
            PROVE  \A f \in Frames(utterances'[v].frames) : f < read'[s].id
        <5>1. utterances'[v] = utterances[v] /\ v \in 1 .. Len(utterances)
          BY <1>14, <1>15
        <5> QED
          BY <1>9, <5>1 DEF Ended
      <4>3. BeginsAfter(i, s)'
        <5>1. i - 1 = k
          BY <3>1
        <5> QED
          BY <4>2, <5>1 DEF BeginsAfter, Frames
      <4> QED
        BY <1>12, <4>1, <4>3
    <3>2. CASE i # k + 1
      <4>1. i \in 1 .. Len(utterances) /\ x = utterances[i]
        BY <1>14, <1>15, <2>1, <3>2
      <4>2. n <= m /\ UtteranceExact
        BY <1>11 DEF VoiceInv
      <4>3. \A v \in 1 .. i - 1 : utterances'[v] = utterances[v]
        <5>1. \A v \in 1 .. i - 1 : v \in 1 .. k
          BY <1>14, <4>1
        <5> QED
          BY <1>15, <5>1
      <4> QED
        BY <1>1, <1>2, <4>1, <4>2, <4>3, UtterancesKept
    <3> QED
      BY <3>1, <3>2
  <2> QED
    BY <2>1, <2>2 DEF IsUtterance
<1>17. Ended' = Ended \cup Frames(frames)
  BY <1>7, <1>10, <1>13, EndedGrows
<1>18. Recorded \subseteq Recorded'
  BY <1>8, <1>17 DEF Recorded
<1>19. RunKept(n + 1)'
  BY <1>2, <1>8, NoRunInSpeech
<1>20. SpeechKept' /\ NotAhead'
  <2>1. SpeechKept'
    BY <1>1, <1>2, <1>18, <1>19, StillKept
  <2>2. Frames(cur)' \subseteq Frames(cur)
    <3>1. CASE cur' = <<>>
      BY <3>1 DEF Frames
    <3>2. CASE cur' = cur
      BY <3>2 DEF Frames
    <3> QED
      BY <1>7, <3>1, <3>2 DEF Reset
  <2>3. Recorded' \subseteq Recorded \cup Frames(prebuf)' \cup {frame'}
    BY <1>8, <1>17, <2>2 DEF Recorded
  <2> QED
    BY <1>1, <1>7, <2>1, <2>3, StillBehind
<1>21. CASE phase' = "yielded" /\ UNCHANGED <<in_speech, above_cnt, below_cnt, hangover, cur>>
  <2>1. TypeOK'
    BY <1>2, <1>7, <1>15, <1>21 DEF VoiceInv, TypeOK
  <2>2. YieldedExact'
    <3>1. Frames(cur)' = Frames(cur)
      BY <1>21 DEF Frames
    <3> QED
      BY <1>2, <1>8, <1>17, <3>1 DEF YieldedExact
  <2>3. IdleExact' /\ SpeechExact'
    BY <1>21 DEF IdleExact, SpeechExact
  <2> QED
    BY <1>2, <1>16, <1>20, <2>1, <2>2, <2>3 DEF VoiceInv
<1>22. CASE Reset /\ UNCHANGED phase
  <2>1. TypeOK'
    <3>1. /\ in_speech' \in BOOLEAN /\ cur' \in Seq(Nat)
          /\ above_cnt' \in Nat /\ below_cnt' \in Nat /\ hangover' \in Nat
      BY <1>22, ResetTypes
    <3> QED
      BY <1>2, <1>7, <1>15, <1>22, <3>1 DEF VoiceInv, TypeOK
  <2>2. IdleExact'
    <3>1. setup'.attack > 0
      BY <1>2
    <3> QED
      BY <1>2, <1>8, <1>22, <3>1 DEF IdleExact, Reset, LoudWhileIdle
  <2>3. SpeechExact' /\ YieldedExact'
    BY <1>2, <1>22 DEF SpeechExact, YieldedExact, Reset
  <2> QED
    BY <1>2, <1>16, <1>20, <2>1, <2>2, <2>3 DEF VoiceInv
<1> QED
  BY <1>7, <1>21, <1>22

-----------------------------------------------------------------------------
(* No frame is read *)

LEMMA NothingRead ==
    ASSUME VoiceInv, UNCHANGED <<setup, prebuf, read, utterances>>, Recorded' = Recorded,
           frame' = frame \/ frame' = frame + 1
    PROVE  NotAhead' /\ PreRollExact' /\ SpeechKept' /\ UtteranceExact'
<1>1. PICK n \in Nat : n = Len(read)
  BY DEF VoiceInv, TypeOK
<1>2. Kept(n) /\ Len(read') = n
  BY <1>1 DEF Kept, VoiceInv, TypeOK
<1>3. PreRollExact'
  BY DEF VoiceInv, PreRollExact, PreRollLength
<1>4. SpeechKept'
  <2>1. \A j \in 1 .. n : RunKept(j)'
    BY <1>1, <1>2, RunsKept DEF VoiceInv
  <2> QED
    BY <1>2, <2>1 DEF SpeechKept, RunKept
<1>5. UtteranceExact'
  <2> SUFFICES ASSUME NEW u \in 1 .. Len(utterances)
               PROVE  \E s \in 1 .. n : \E e \in s + 1 .. n :
                          IsUtterance(utterances[u], s, e)' /\ BeginsAfter(u, s)'
    BY <1>2 DEF UtteranceExact
  <2>1. PICK x : x = utterances[u]
    OBVIOUS
  <2>2. n <= n /\ UtteranceExact
    BY DEF VoiceInv
  <2>3. \E s \in 1 .. n : \E e \in s + 1 .. n : IsUtterance(x, s, e)' /\ BeginsAfter(u, s)'
    BY <1>1, <1>2, <2>1, <2>2, UtterancesKept
  <2> QED
    BY <2>1, <2>3 DEF IsUtterance
<1>6. NotAhead'
  <2>1. PICK f \in Nat : f = frame
    BY DEF VoiceInv, TypeOK
  <2>2. 0 .. f \subseteq 0 .. f + 1
    OBVIOUS
  <2>3. 0 .. frame \subseteq 0 .. frame'
    BY <2>1, <2>2
  <2> QED
    BY <2>3 DEF VoiceInv, NotAhead
<1> QED
  BY <1>3, <1>4, <1>5, <1>6

\* The listener asks for the next utterance.
LEMMA ResumeKeeps ==
    ASSUME VoiceInv, Resume
    PROVE  VoiceInv'
<1>1. /\ phase = "yielded" /\ Reset /\ phase' \in {"reading", "ended"}
      /\ UNCHANGED <<setup, frame, prebuf, recording, stop_requested, read, utterances>>
  BY DEF Resume
<1>2. Recorded' = Recorded
  <2>1. Frames(cur) \subseteq Ended /\ Ended' = Ended
    BY <1>1 DEF VoiceInv, YieldedExact, Ended, Frames
  <2>2. Frames(cur)' = {}
    BY <1>1 DEF Reset, Frames
  <2> QED
    BY <2>1, <2>2 DEF Recorded
<1>3. NotAhead' /\ PreRollExact' /\ SpeechKept' /\ UtteranceExact'
  BY <1>1, <1>2, NothingRead
<1>4. TypeOK'
  <2>1. /\ in_speech' \in BOOLEAN /\ cur' \in Seq(Nat)
        /\ above_cnt' \in Nat /\ below_cnt' \in Nat /\ hangover' \in Nat
    BY <1>1, ResetTypes
  <2>2. phase' \in {"reading", "yielded", "ended"}
    BY <1>1
  <2> QED
    BY <1>1, <2>1, <2>2 DEF VoiceInv, TypeOK
<1>5. IdleExact'
  <2>1. PICK n \in Nat : n = Len(read)
    BY DEF VoiceInv, TypeOK
  <2>2. setup.attack > 0 /\ ~read[n].idle
    BY <1>1, <2>1, SetupType DEF VoiceInv, TypeOK, YieldedExact
  <2> QED
    BY <1>1, <2>1, <2>2 DEF IdleExact, Reset, LoudWhileIdle
<1>6. SpeechExact' /\ YieldedExact'
  BY <1>1 DEF SpeechExact, YieldedExact, Reset
<1> QED
  BY <1>3, <1>4, <1>5, <1>6 DEF VoiceInv

\* The microphone, the stop and the end leave the detector as it is.
LEMMA QuietKeeps ==
    ASSUME VoiceInv, Overflow \/ request_stop \/ End \/ MicrophoneFails \/ UNCHANGED vars
    PROVE  VoiceInv'
<1>1. /\ UNCHANGED <<setup, machine, read, utterances>>
      /\ phase' = phase \/ phase' = "ended"
      /\ frame' = frame \/ frame' = frame + 1
      /\ frame' \in Nat /\ recording' \in BOOLEAN /\ stop_requested' \in BOOLEAN
  <2>1. frame \in Nat /\ recording \in BOOLEAN /\ stop_requested \in BOOLEAN
    BY DEF VoiceInv, TypeOK
  <2>2. CASE Overflow
    BY <2>1, <2>2 DEF Overflow
  <2>3. CASE request_stop
    BY <2>1, <2>3 DEF request_stop
  <2>4. CASE End \/ MicrophoneFails
    BY <2>1, <2>4 DEF End, MicrophoneFails
  <2>5. CASE UNCHANGED vars
    BY <2>1, <2>5 DEF vars
  <2> QED
    BY <2>2, <2>3, <2>4, <2>5
<1>2. Recorded' = Recorded
  BY <1>1 DEF Recorded, Ended, Frames, machine
<1>3. NotAhead' /\ PreRollExact' /\ SpeechKept' /\ UtteranceExact'
  BY <1>1, <1>2, NothingRead DEF machine
<1>4. TypeOK'
  BY <1>1 DEF VoiceInv, TypeOK, machine
<1>5. CASE phase' = "ended"
  <2>1. IdleExact' /\ SpeechExact' /\ YieldedExact'
    BY <1>5 DEF IdleExact, SpeechExact, YieldedExact
  <2> QED
    BY <1>3, <1>4, <2>1 DEF VoiceInv
<1>6. CASE phase' = phase
  <2>0. Frames(cur)' = Frames(cur) /\ Ended' = Ended
    BY <1>1 DEF Frames, Ended, machine
  <2>1. IdleExact' /\ YieldedExact'
    BY <1>1, <1>6, <2>0 DEF VoiceInv, IdleExact, YieldedExact, LoudWhileIdle, machine
  <2>2. SpeechExact'
    BY <1>1, <1>6, <2>0 DEF VoiceInv, SpeechExact, StartsAt, LoudWhileIdle, FramesFrom, EndsAt, QuietAt,
       Silence, SilentAfter, LengthAt, FrameAt, PreRollLength, machine
  <2> QED
    BY <1>3, <1>4, <2>1, <2>2 DEF VoiceInv
<1> QED
  BY <1>1, <1>5, <1>6

-----------------------------------------------------------------------------
(* Every behaviour *)

LEMMA VoiceInit == Init => VoiceInv
<1> SUFFICES ASSUME Init PROVE VoiceInv
  OBVIOUS
<1>1. TypeOK
  <2>1. prebuf \in Seq(Nat) /\ cur \in Seq(Nat) /\ read \in Seq(Frame) /\ utterances \in Seq(Utterance)
    BY NothingYet DEF Init
  <2>2. /\ above_cnt \in Nat /\ below_cnt \in Nat /\ hangover \in Nat /\ frame \in Nat
        /\ setup \in Setups /\ phase \in {"reading", "yielded", "ended"}
    BY DEF Init
  <2>3. in_speech \in BOOLEAN /\ recording \in BOOLEAN /\ stop_requested \in BOOLEAN
    BY DEF Init
  <2> QED
    BY <2>1, <2>2, <2>3 DEF TypeOK
<1>2. setup.attack > 0 /\ PreRollLength(0) = 0
  BY SetupType DEF Init, PreRollLength
<1>3. PreRollExact /\ IdleExact
  BY <1>2 DEF Init, PreRollExact, IdleExact, LoudWhileIdle
<1>4. SpeechExact /\ YieldedExact /\ SpeechKept /\ UtteranceExact
  BY DEF Init, SpeechExact, YieldedExact, SpeechKept, UtteranceExact
<1>5. NotAhead
  BY DEF Init, NotAhead, Recorded, Ended, Frames
<1> QED
  BY <1>1, <1>3, <1>4, <1>5 DEF VoiceInv

LEMMA VoiceStep == VoiceInv /\ [Next]_vars => VoiceInv'
BY WaitKeeps, StartKeeps, SpeakKeeps, FinishKeeps, ResumeKeeps, QuietKeeps DEF Next

LEMMA VoiceAlways == Spec => []VoiceInv
BY VoiceInit, VoiceStep, PTL DEF Spec

\* The detector's counts, frames and utterances keep their types.
THEOREM VoiceTypeCorrect == Spec => []TypeOK
<1>1. VoiceInv => TypeOK
  BY DEF VoiceInv
<1> QED
  BY <1>1, VoiceAlways, PTL

\* Of speech that is long enough to start an utterance every frame is cut into
\* one, except what is longer than the pre-roll.
THEOREM NoSpeechLost == Spec => []SpeechKept
<1>1. VoiceInv => SpeechKept
  BY DEF VoiceInv
<1> QED
  BY <1>1, VoiceAlways, PTL

\* Every utterance is what the frames that were read say it is.
THEOREM UtterancesExact == Spec => []UtteranceExact
<1>1. VoiceInv => UtteranceExact
  BY DEF VoiceInv
<1> QED
  BY <1>1, VoiceAlways, PTL
=============================================================================
