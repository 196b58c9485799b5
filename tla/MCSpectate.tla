----------------------------- MODULE MCSpectate -----------------------------
EXTENDS SpectateProperties

\* One player is watched by the others.
MCSources == {1}

\* The viewers in w have opened a view, player m does one thing, the fault f
\* happens to player p, and every stream has n captures.
Case(w, m, p, f, n) ==
    [watching |-> w, moves |-> [q \in Players |-> IF q = m THEN 1 ELSE 0],
     fault |-> [q \in Players |-> IF q = p THEN f ELSE "none"], frames |-> n]

\* One viewer and at most one thing that happens, with a group of pictures or
\* more; the reset, two things that happen and two viewers, with two captures.
MCScenarios ==
    {Case({2}, 0, 0, "none", 4), Case({2}, 0, 2, "overflow", 4)}
      \cup {Case({2}, m, 0, "none", 3) : m \in {1, 2}}
      \cup {Case({2}, 0, p, f, 3) : p \in {1, 2}, f \in {"loss", "expiry"}}
      \cup {Case({2}, 0, 1, "overflow", 3), Case({2}, 0, 1, "reset", 2),
            Case({2}, 1, 2, "loss", 2), Case({2}, 2, 2, "overflow", 2),
            Case({2}, 3, 0, "none", 2), Case({2, 3}, 0, 1, "overflow", 2)}
=============================================================================
