----------------------------- MODULE MCOrganizer -----------------------------
EXTENDS Organizer
CONSTANTS k1, tea, teaTime
MCKeys == {k1}
MCTitles == {tea, teaTime}
MCContains == [t \in Titles |-> IF t = tea THEN Titles ELSE {t}]
=============================================================================
