-------------------------- MODULE MCInventoryWalk ---------------------------
EXTENDS InventoryWalk

\* Two wide rows do not fit one page, three narrow ones exceed its row cap.
MCWidth(c) == IF c = "wide" THEN 2 ELSE 1

\* A kind starts empty or full; edits reach what is between.
MCFirstTables ==
  {<<>>} \cup {t \in [1 .. MaxId -> Contents] : t[2] = "wide"}
=============================================================================
