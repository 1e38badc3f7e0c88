------------------------- MODULE MCArtifactCache -------------------------
(* Small instances of ArtifactCache for TLC. *)
EXTENDS ArtifactCache

CONSTANTS p1, p2, p3, m1, r1, prior, none

TwoPublishers == {p1, p2}
ThreePublishers == {p1, p2, p3}
OneRemover == {m1}
OneReader == {r1}
NoActor == {}
OneUnlucky == {p1}

\* An earlier run left nothing, a whole entry, or what a crash left of a removal:
\* any of the files, manifest and model without the others among them.
AnyLeftover == SUBSET Files

\* An earlier run left a whole entry.
WholeEntry == {Files}

NoFault == {}
LinuxFaults == {"crash", "io", "old", "future"}
AgeOnly == {"old"}
=============================================================================
