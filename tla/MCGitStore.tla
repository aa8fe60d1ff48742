----------------------------- MODULE MCGitStore -----------------------------
\* Two saves of one device, with the same text or not, and one of another device.
EXTENDS GitStore

CONSTANTS s1, s2, s3, a, b, x, y

MCSaves == {s1, s2, s3}
MCDevice == [s \in MCSaves |-> IF s = s3 THEN b ELSE a]
MCTexts == {[s \in MCSaves |-> x], [s \in MCSaves |-> IF s = s2 THEN y ELSE x]}
=============================================================================
