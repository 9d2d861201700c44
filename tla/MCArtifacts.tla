---------------------------- MODULE MCArtifacts -----------------------------
(* Two pipelines over one content, with an upgrade of two stages.          *)
EXTENDS ArtifactCache, TLC

FirstConfig == <<0, 0, 0>>
NextConfig == <<1, 1, 0>>
OneUpgrade == {NextConfig}

Symmetry == Permutations(Docs) \cup Permutations(Runs)
=============================================================================
