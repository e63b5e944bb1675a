--------------------------- MODULE MCVoiceActivity ---------------------------
EXTENDS VoiceActivity
Config(pre, attack, release, hang, max, min) ==
    [pre |-> pre, attack |-> attack, release |-> release, hangover |-> hang,
     max |-> max, min |-> min]
\* The configured milliseconds as frames: all stages at work, no pre-roll at
\* all, a pre-roll longer than an utterance may be, no hangover.
MCSetups == {Config(2, 2, 2, 1, 7, 6), Config(0, 1, 1, 2, 5, 2),
             Config(4, 1, 2, 1, 4, 3), Config(1, 3, 1, 0, 6, 4)}
=============================================================================
