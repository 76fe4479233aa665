------------------------------ MODULE MCScreens ------------------------------
\* Two keys, one of which lists everything, and what the other lists.
EXTENDS Screens

ListsOfKeys == [k \in Keys |-> IF k = NoFilter THEN Items ELSE {1}]
=============================================================================
