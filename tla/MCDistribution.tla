--------------------------- MODULE MCDistribution ---------------------------
\* Instances of Distribution for TLC.
EXTENDS Distribution, TLC

CONSTANT page

\* Emails go to the contacts, the social post to its page.
MCAudience == [a \in Assets |-> IF a \in Social THEN {page} ELSE Recipients \ {page}]

\* Workers are interchangeable, and so are users.
WorkerSymmetry == Permutations(Workers)
Symmetry == WorkerSymmetry \cup Permutations(Users)
=============================================================================
