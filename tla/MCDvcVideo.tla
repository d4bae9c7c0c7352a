----------------------------- MODULE MCDvcVideo -----------------------------
(* DvcVideo on small streams. *)
EXTENDS DvcVideo

OneSize == {1}
TwoSizes == {1, 2}
NoSizes == {}
Big == {2}
OneSlow == {0}
Plain == {}

\* The states worth saving: one picture waits in the back buffer while one of
\* the other size is, or was, displayed.
SavedMidSwap ==
    saved # NoState => /\ saved.m_picture.updated
                       /\ saved.shown.len # 0
                       /\ saved.shown.size # saved.m_picture.size
=============================================================================
