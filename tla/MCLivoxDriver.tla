--------------------------- MODULE MCLivoxDriver ---------------------------
(* A lidar of the config file, and one that only shows up and has a single *)
(* setting to answer.                                                      *)
EXTENDS LivoxDriverProps

MCListed   == {1}
MCAsked    == <<{"data_type", "pattern"}, {"data_type"}>>

\* Both lidars come to sample, the second when it is reported again.
MCRefused  == <<{}, {}>>
MCInfo     == <<1, 2>>
MCOneFrame == <<{"a"}, {"a"}>>

\* Both are listed; one is reported again, the other refuses its setting
\* and sends nothing.
MCBothListed   == {1, 2}
MCOneRefused   == <<{}, {"data_type"}>>
MCReconnecting == <<2, 1>>
MCFrame        == <<{"a", "b"}, {}>>
=============================================================================
